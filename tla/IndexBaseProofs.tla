-------------------------- MODULE IndexBaseProofs --------------------------
(***************************************************************************)
(* Theorems about IndexBase, for any keys of Depth digits and any sizes of *)
(* nodes and words.  First what the loops over sums, bitmaps, lists and    *)
(* queues of nodes come to, for any file and any tree; then the trie, its  *)
(* file and its queries.  BTreeProofs goes on with the B-tree.             *)
(***************************************************************************)
EXTENDS IndexBase, DataLemmas

-----------------------------------------------------------------------------
(* Running sums, and what lies one behind the other *)

\* Sums adds one number of the sequence after the other.
LEMMA SumsStep ==
    ASSUME NEW s \in Seq(Nat)
    PROVE  /\ Sums(s) \in [0 .. Len(s) -> Nat] /\ Sums(s)[0] = 0
           /\ \A i \in 1 .. Len(s) : Sums(s)[i] = Sums(s)[i - 1] + s[i]
<1> DEFINE N == Len(s)
           U == Nat
           start == 0
           Turn(i, x) == x + s[i]
           Solves(f) == f = [i \in 0 .. N |-> IF i = 0 THEN start ELSE Turn(i, f[i - 1])]
           sum == CHOOSE f : Solves(f)
<1>0. N \in Nat /\ \A i \in 1 .. N : s[i] \in Nat
  OBVIOUS
<1>1. N \in Nat /\ start \in U
  OBVIOUS
<1>2. ASSUME NEW i \in 1 .. N, NEW x \in U
      PROVE  Turn(i, x) \in U
  BY <1>0
<1> HIDE DEF N, U, start, Turn
<1>3. \E f : Solves(f)
  <2> DEFINE good == [i \in 0 .. N |-> U]
             step == [i \in 1 .. N |-> [x \in good[i - 1] |-> Turn(i, x)]]
  <2>1. good \in [0 .. N -> SUBSET U] /\ start \in good[0]
    BY <1>1
  <2>2. ASSUME NEW i \in 1 .. N, NEW x \in good[i - 1]
        PROVE  step[i][x] = Turn(i, x) /\ Turn(i, x) \in good[i]
    <3>1. i \in 0 .. N /\ i - 1 \in 0 .. N
      BY <1>1
    <3>2. x \in U
      BY <3>1
    <3>3. Turn(i, x) \in U
      BY <1>2, <3>2
    <3> QED BY <3>1, <3>3
  <2> HIDE DEF good, step
  <2>3. PICK f : Runs(f, N, U, good, start, step)
    <3>1. Loop(N, U, good, start, step)
      BY <1>1, <2>1, <2>2 DEF Loop
    <3> QED BY <3>1, LoopSolved
  <2>4. ASSUME NEW i \in 0 .. N
        PROVE  f[i] = IF i = 0 THEN start ELSE Turn(i, f[i - 1])
    <3>1. CASE i = 0
      BY <2>3, <3>1 DEF Runs
    <3>2. CASE i # 0
      <4>1. i \in 1 .. N
        BY <1>1, <3>2
      <4> QED BY <2>2, <2>3, <3>2, <4>1 DEF Runs
    <3> QED BY <3>1, <3>2
  <2>5. f = [i \in 0 .. N |-> f[i]]
    BY <2>3 DEF Runs
  <2>6. Solves(f)
    BY <2>4, <2>5
  <2> QED BY <2>6
<1>4. Solves(sum)
  BY <1>3
<1> HIDE DEF sum
<1>5. sum[0] = start /\ \A i \in 1 .. N : sum[i] = Turn(i, sum[i - 1])
  BY <1>1, <1>4
<1>6. \A i \in 0 .. N : sum[i] \in U
  <2> DEFINE good == [i \in 0 .. N |-> U]
  <2>1. sum[0] \in good[0]
    BY <1>1, <1>5
  <2>2. ASSUME NEW i \in 1 .. N, sum[i - 1] \in good[i - 1] PROVE sum[i] \in good[i]
    <3>1. i \in 0 .. N /\ i - 1 \in 0 .. N
      BY <1>1
    <3>2. sum[i - 1] \in U
      BY <2>2, <3>1
    <3>3. sum[i] \in U
      BY <1>2, <1>5, <3>2
    <3> QED BY <3>1, <3>3
  <2>3. \A i \in 0 .. N : sum[i] \in good[i]
    <3> HIDE DEF good
    <3> QED BY <1>1, <2>1, <2>2, LoopKeeps
  <2> QED BY <2>3
<1>7. sum = Sums(s)
  BY DEF sum, Sums, Turn, N, start
<1>8. sum \in [0 .. N -> Nat]
  BY <1>4, <1>6 DEF U
<1>9. \A i \in 1 .. N : sum[i] = sum[i - 1] + s[i]
  BY <1>5 DEF Turn
<1> QED BY <1>5, <1>7, <1>8, <1>9 DEF N, start


\* Running sums of numbers do not fall.
LEMMA SumsRise ==
    ASSUME NEW s \in Seq(Nat), NEW j \in 0 .. Len(s), NEW i \in 0 .. j
    PROVE  Sums(s)[i] <= Sums(s)[j]
<1> DEFINE N == Len(s)
           good == [k \in 0 .. N |-> {m \in Nat : i <= k => Sums(s)[i] <= m}]
<1>1. N \in Nat /\ Sums(s) \in [0 .. N -> Nat] /\ \A k \in 1 .. N : s[k] \in Nat
  BY SumsStep
<1>2. \A k \in 1 .. N : Sums(s)[k] = Sums(s)[k - 1] + s[k]
  BY SumsStep
<1>3. Sums(s)[0] \in good[0]
  BY <1>1
<1>4. ASSUME NEW k \in 1 .. N, Sums(s)[k - 1] \in good[k - 1] PROVE Sums(s)[k] \in good[k]
  <2>0. i \in 0 .. N /\ k \in 0 .. N /\ k - 1 \in 0 .. N
    BY <1>1
  <2>1. /\ i \in 0 .. N /\ Sums(s)[i] \in Nat /\ Sums(s)[k] \in Nat /\ Sums(s)[k - 1] \in Nat
        /\ k \in 0 .. N /\ k - 1 \in 0 .. N /\ s[k] \in Nat
    BY <1>1, <2>0
  <2>2. i <= k => i = k \/ i <= k - 1
    BY <2>1
  <2>3. i <= k - 1 => Sums(s)[i] <= Sums(s)[k - 1]
    BY <1>4, <2>1
  <2>4. ASSUME i <= k PROVE Sums(s)[i] <= Sums(s)[k]
    <3>1. CASE i = k
      BY <2>1, <3>1
    <3>2. CASE i <= k - 1
      <4>1. Sums(s)[i] <= Sums(s)[k - 1]
        BY <2>3, <3>2
      <4>2. Sums(s)[k] = Sums(s)[k - 1] + s[k]
        BY <1>2
      <4> QED BY <2>1, <4>1, <4>2
    <3> QED BY <2>2, <2>4, <3>1, <3>2
  <2> QED BY <2>1, <2>4
<1> HIDE DEF good
<1>5. \A k \in 0 .. N : Sums(s)[k] \in good[k]
  BY <1>1, <1>3, <1>4, LoopKeeps
<1> QED BY <1>1, <1>5 DEF good

\* How long some sequences are, and where each of them starts in what joins them.
Lengths(parts) == [i \in DOMAIN parts |-> Len(parts[i])]
Starts(parts) == Sums(Lengths(parts))

LEMMA StartsStep ==
    ASSUME NEW D, NEW parts \in Seq(Seq(D))
    PROVE  /\ Starts(parts) \in [0 .. Len(parts) -> Nat] /\ Starts(parts)[0] = 0
           /\ \A i \in 1 .. Len(parts) : Starts(parts)[i] = Starts(parts)[i - 1] + Len(parts[i])
           /\ \A j \in 0 .. Len(parts) : \A i \in 0 .. j : Starts(parts)[i] <= Starts(parts)[j]
<1> DEFINE s == Lengths(parts)
<1>1. s \in Seq(Nat) /\ Len(s) = Len(parts) /\ Len(parts) \in Nat
      /\ \A i \in 1 .. Len(parts) : s[i] = Len(parts[i])
  BY DEF Lengths
<1> HIDE DEF s
<1>2. /\ Sums(s) \in [0 .. Len(s) -> Nat] /\ Sums(s)[0] = 0
      /\ \A i \in 1 .. Len(s) : Sums(s)[i] = Sums(s)[i - 1] + s[i]
  BY <1>1, SumsStep
<1>3. \A j \in 0 .. Len(s) : \A i \in 0 .. j : Sums(s)[i] <= Sums(s)[j]
  BY <1>1, SumsRise
<1> QED BY <1>1, <1>2, <1>3 DEF Starts, s

\* Joined puts every part where the lengths of those before it say.
LEMMA JoinedAt ==
    ASSUME NEW D, NEW parts \in Seq(Seq(D))
    PROVE  /\ Joined(parts) \in Seq(D) /\ Len(Joined(parts)) = Starts(parts)[Len(parts)]
           /\ \A h \in 1 .. Len(parts) : \A k \in 1 .. Len(parts[h]) :
                Joined(parts)[Starts(parts)[h - 1] + k] = parts[h][k]
<1> DEFINE N == Len(parts)
           U == Seq(D)
           start == <<>>
           Turn(i, x) == x \o parts[i]
           Good(i, x) ==
             /\ Len(x) = Starts(parts)[i]
             /\ \A h \in 1 .. i : \A k \in 1 .. Len(parts[h]) :
                  x[Starts(parts)[h - 1] + k] = parts[h][k]
           Solves(f) == f = [i \in 0 .. N |-> IF i = 0 THEN start ELSE Turn(i, f[i - 1])]
           joined == CHOOSE f : Solves(f)
<1>0. /\ N \in Nat /\ \A i \in 1 .. N : parts[i] \in Seq(D) /\ Len(parts[i]) \in Nat
      /\ Starts(parts) \in [0 .. N -> Nat] /\ Starts(parts)[0] = 0
      /\ \A i \in 1 .. N : Starts(parts)[i] = Starts(parts)[i - 1] + Len(parts[i])
      /\ \A j \in 0 .. N : \A i \in 0 .. j : Starts(parts)[i] <= Starts(parts)[j]
  BY StartsStep
<1>1. N \in Nat /\ start \in U /\ Good(0, start)
  BY <1>0
<1>2. ASSUME NEW i \in 1 .. N, NEW x \in U, Good(i - 1, x)
      PROVE  Turn(i, x) \in U /\ Good(i, Turn(i, x))
  <2> DEFINE y == x \o parts[i]
  <2>1. /\ i \in 0 .. N /\ i - 1 \in 0 .. N /\ x \in Seq(D) /\ parts[i] \in Seq(D)
        /\ Len(x) = Starts(parts)[i - 1]
        /\ \A h \in 1 .. i - 1 : \A k \in 1 .. Len(parts[h]) :
             x[Starts(parts)[h - 1] + k] = parts[h][k]
    BY <1>0, <1>2
  <2>2. /\ y \in Seq(D) /\ Len(y) = Len(x) + Len(parts[i])
        /\ \A k \in 1 .. Len(x) + Len(parts[i]) :
             y[k] = IF k <= Len(x) THEN x[k] ELSE parts[i][k - Len(x)]
    BY <2>1, ConcatProperties
  <2> HIDE DEF y
  <2>3. Len(y) = Starts(parts)[i]
    BY <1>0, <2>1, <2>2
  <2>4. ASSUME NEW h \in 1 .. i, NEW k \in 1 .. Len(parts[h])
        PROVE  y[Starts(parts)[h - 1] + k] = parts[h][k]
    <3> HIDE DEF N, Good, Turn
    <3>a. h \in 1 .. N /\ h \in 0 .. N /\ h - 1 \in 0 .. N
      BY <1>0, <1>2, <2>4
    <3>0. /\ h \in 1 .. N /\ h \in 0 .. N /\ Starts(parts)[h - 1] \in Nat
          /\ Len(parts[h]) \in Nat /\ k \in Nat
      BY <1>0, <2>4, <3>a
    <3>1. CASE h = i
      <4>1. ~(Starts(parts)[h - 1] + k <= Len(x)) /\ Starts(parts)[h - 1] + k - Len(x) = k
        BY <2>1, <3>0, <3>1
      <4>2. Starts(parts)[h - 1] + k \in 1 .. Len(x) + Len(parts[i])
        BY <2>1, <2>4, <3>0, <3>1
      <4> DEFINE m == Starts(parts)[h - 1] + k
      <4>3. m \in 1 .. Len(x) + Len(parts[i]) /\ ~(m <= Len(x)) /\ m - Len(x) = k
        BY <3>0, <4>1, <4>2 DEF m
      <4> HIDE DEF m
      <4>4. y[m] = parts[i][m - Len(x)]
        BY <2>2, <4>3
      <4>5. y[m] = parts[h][k]
        BY <3>1, <4>3, <4>4
      <4> QED BY <4>5 DEF m
    <3>2. CASE h # i
      <4>1. h \in 1 .. i - 1 /\ h \in 0 .. i - 1
        BY <3>0, <3>2
      <4>2. Starts(parts)[h] <= Starts(parts)[i - 1]
            /\ Starts(parts)[h] = Starts(parts)[h - 1] + Len(parts[h])
        BY <1>0, <2>1, <3>0, <4>1
      <4>3. /\ Len(x) \in Nat /\ Len(parts[i]) \in Nat /\ Len(x) = Starts(parts)[i - 1]
            /\ Starts(parts)[h] \in Nat /\ k <= Len(parts[h]) /\ k >= 1
        <5>1. Len(x) \in Nat /\ Len(x) = Starts(parts)[i - 1]
          BY <2>1
        <5>2. Len(parts[i]) \in Nat
          BY <1>0
        <5>3. Starts(parts)[h] \in Nat
          BY <1>0, <3>0
        <5>4. k <= Len(parts[h]) /\ k >= 1
          BY <3>0
        <5> QED BY <5>1, <5>2, <5>3, <5>4
      <4>4. Starts(parts)[h - 1] + k \in 1 .. Len(x)
        <5>1. \A a, l, c, b \in Nat : c = a + l /\ c <= b => \A m \in 1 .. l : a + m \in 1 .. b
          OBVIOUS
        <5> QED BY <3>0, <4>2, <4>3, <5>1
      <4> DEFINE m == Starts(parts)[h - 1] + k
      <4>a. m \in 1 .. Len(x) + Len(parts[i]) /\ m <= Len(x)
        BY <4>3, <4>4
      <4> HIDE DEF m
      <4>b. y[m] = x[m]
        BY <2>2, <4>a
      <4>5. y[Starts(parts)[h - 1] + k] = x[Starts(parts)[h - 1] + k]
        BY <4>b DEF m
      <4> QED BY <2>1, <4>1, <4>5
    <3> QED BY <3>1, <3>2
  <2> QED BY <2>1, <2>2, <2>3, <2>4 DEF y
<1> HIDE DEF N, U, start, Good, Turn
<1>3. \E f : Solves(f)
  <2> DEFINE good == [i \in 0 .. N |-> {x \in U : Good(i, x)}]
             step == [i \in 1 .. N |-> [x \in good[i - 1] |-> Turn(i, x)]]
  <2>1. good \in [0 .. N -> SUBSET U] /\ start \in good[0]
    BY <1>1
  <2>2. ASSUME NEW i \in 1 .. N, NEW x \in good[i - 1]
        PROVE  step[i][x] = Turn(i, x) /\ Turn(i, x) \in good[i]
    <3>1. i \in 0 .. N /\ i - 1 \in 0 .. N
      BY <1>1
    <3>2. x \in U /\ Good(i - 1, x)
      BY <3>1
    <3>3. Turn(i, x) \in U /\ Good(i, Turn(i, x))
      BY <1>2, <3>2
    <3> QED BY <3>1, <3>3
  <2> HIDE DEF good, step
  <2>3. PICK f : Runs(f, N, U, good, start, step)
    <3>1. Loop(N, U, good, start, step)
      BY <1>1, <2>1, <2>2 DEF Loop
    <3> QED BY <3>1, LoopSolved
  <2>4. ASSUME NEW i \in 0 .. N
        PROVE  f[i] = IF i = 0 THEN start ELSE Turn(i, f[i - 1])
    <3>1. CASE i = 0
      BY <2>3, <3>1 DEF Runs
    <3>2. CASE i # 0
      <4>1. i \in 1 .. N
        BY <1>1, <3>2
      <4> QED BY <2>2, <2>3, <3>2, <4>1 DEF Runs
    <3> QED BY <3>1, <3>2
  <2>5. f = [i \in 0 .. N |-> f[i]]
    BY <2>3 DEF Runs
  <2>6. Solves(f)
    BY <2>4, <2>5
  <2> QED BY <2>6
<1>4. Solves(joined)
  BY <1>3
<1> HIDE DEF joined
<1>5. joined[0] = start /\ \A i \in 1 .. N : joined[i] = Turn(i, joined[i - 1])
  BY <1>1, <1>4
<1>6. \A i \in 0 .. N : joined[i] \in U /\ Good(i, joined[i])
  <2> DEFINE good == [i \in 0 .. N |-> {x \in U : Good(i, x)}]
  <2>1. joined[0] \in good[0]
    BY <1>1, <1>5
  <2>2. ASSUME NEW i \in 1 .. N, joined[i - 1] \in good[i - 1] PROVE joined[i] \in good[i]
    <3>1. i \in 0 .. N /\ i - 1 \in 0 .. N
      BY <1>1
    <3>2. joined[i - 1] \in U /\ Good(i - 1, joined[i - 1])
      BY <2>2, <3>1
    <3>3. joined[i] \in U /\ Good(i, joined[i])
      BY <1>2, <1>5, <3>2
    <3> QED BY <3>1, <3>3
  <2>3. \A i \in 0 .. N : joined[i] \in good[i]
    <3> HIDE DEF good
    <3> QED BY <1>1, <2>1, <2>2, LoopKeeps
  <2> QED BY <2>3
<1>7. Joined(parts) = joined[N]
  BY DEF Joined, joined, Turn, N, start
<1>8. joined[N] \in U /\ Good(N, joined[N])
  <2>1. N \in 0 .. N
    BY <1>1
  <2> QED BY <1>6, <2>1
<1> QED BY <1>7, <1>8 DEF N, U, Good


-----------------------------------------------------------------------------
(* Bitmaps *)

\* The positions of the one bits.
Ones(bm) == {p \in 0 .. Len(bm) - 1 : bm[p + 1] = 1}

\* getOnePosition gives each of them once, the lowest first.
LEMMA OnePositionsAre ==
    ASSUME NEW bm \in Seq({0, 1})
    PROVE  /\ OnePositions(bm) \in Seq(Ones(bm))
           /\ \A j, k \in 1 .. Len(OnePositions(bm)) : j < k => OnePositions(bm)[j] < OnePositions(bm)[k]
           /\ \A p \in Ones(bm) : \E j \in 1 .. Len(OnePositions(bm)) : OnePositions(bm)[j] = p
           /\ IsFiniteSet(Ones(bm)) /\ Len(OnePositions(bm)) = Cardinality(Ones(bm))
<1> DEFINE N == Len(bm)
           U == Seq(Ones(bm))
           start == <<>>
           Turn(i, x) == IF bm[i] = 1 THEN Append(x, i - 1) ELSE x
           Good(i, x) ==
             /\ \A j \in 1 .. Len(x) : x[j] < i
             /\ \A j, k \in 1 .. Len(x) : j < k => x[j] < x[k]
             /\ \A p \in Ones(bm) : p < i => \E j \in 1 .. Len(x) : x[j] = p
           Solves(f) == f = [i \in 0 .. N |-> IF i = 0 THEN start ELSE Turn(i, f[i - 1])]
           ones == CHOOSE f : Solves(f)
<1>0. N \in Nat /\ \A p \in Ones(bm) : p \in 0 .. N - 1 /\ bm[p + 1] = 1
  BY DEF Ones
<1>1. N \in Nat /\ start \in U /\ Good(0, start)
  BY <1>0
<1>2. ASSUME NEW i \in 1 .. N, NEW x \in U, Good(i - 1, x)
      PROVE  Turn(i, x) \in U /\ Good(i, Turn(i, x))
  <2> HIDE DEF N, U, Turn, Good
  <2>a. i \in Nat /\ i - 1 \in 0 .. N - 1 /\ i \in 0 .. N /\ i - 1 + 1 = i
    BY <1>0
  <2>b. /\ x \in Seq(Ones(bm)) /\ \A j \in 1 .. Len(x) : x[j] < i - 1
        /\ \A j, k \in 1 .. Len(x) : j < k => x[j] < x[k]
        /\ \A p \in Ones(bm) : p < i - 1 => \E j \in 1 .. Len(x) : x[j] = p
    BY <1>2 DEF U, Good
  <2>1. /\ i \in Nat /\ i - 1 \in 0 .. N - 1 /\ i \in 0 .. N /\ i - 1 + 1 = i
        /\ x \in Seq(Ones(bm)) /\ \A j \in 1 .. Len(x) : x[j] < i - 1
        /\ \A j, k \in 1 .. Len(x) : j < k => x[j] < x[k]
        /\ \A p \in Ones(bm) : p < i - 1 => \E j \in 1 .. Len(x) : x[j] = p
    BY <2>a, <2>b
  <2>2. Len(x) \in Nat /\ \A j \in 1 .. Len(x) : x[j] \in Ones(bm) /\ x[j] \in Nat
    <3>1. Len(x) \in Nat /\ \A j \in 1 .. Len(x) : x[j] \in Ones(bm)
      BY <2>1
    <3> QED BY <1>0, <3>1
  <2>3. CASE bm[i] = 1
    <3> DEFINE y == Append(x, i - 1)
    <3>1. i - 1 \in Ones(bm)
      BY <2>1, <2>3 DEF Ones, N
    <3>2. /\ y \in Seq(Ones(bm)) /\ Len(y) = Len(x) + 1 /\ y[Len(x) + 1] = i - 1
          /\ \A j \in 1 .. Len(x) : y[j] = x[j]
      BY <2>1, <3>1, AppendProperties
    <3> HIDE DEF y
    <3>3. \A j \in 1 .. Len(y) : y[j] < i
      <4> TAKE j \in 1 .. Len(y)
      <4>1. CASE j = Len(x) + 1
        BY <2>1, <3>2, <4>1
      <4>2. CASE j # Len(x) + 1
        <5>1. j \in 1 .. Len(x)
          BY <2>2, <3>2, <4>2
        <5> QED BY <2>1, <2>2, <3>2, <5>1
      <4> QED BY <4>1, <4>2
    <3>4. \A j, k \in 1 .. Len(y) : j < k => y[j] < y[k]
      <4> SUFFICES ASSUME NEW j \in 1 .. Len(y), NEW k \in 1 .. Len(y), j < k PROVE y[j] < y[k]
        OBVIOUS
      <4>0. j \in 1 .. Len(x) /\ y[j] = x[j]
        BY <2>2, <3>2
      <4>1. CASE k = Len(x) + 1
        BY <2>1, <3>2, <4>0, <4>1
      <4>2. CASE k # Len(x) + 1
        <5>a. Len(y) = Len(x) + 1 /\ Len(x) \in Nat
          BY <2>2, <3>2
        <5>1. k \in 1 .. Len(x)
          BY <4>2, <5>a
        <5>2. y[k] = x[k]
          BY <3>2, <5>1
        <5> QED BY <2>1, <4>0, <5>1, <5>2
      <4> QED BY <4>1, <4>2
    <3>5. ASSUME NEW p \in Ones(bm), p < i PROVE \E j \in 1 .. Len(y) : y[j] = p
      <4>0. p \in Nat /\ Len(x) + 1 \in 1 .. Len(y)
        BY <1>0, <2>2, <3>2
      <4>1. CASE p = i - 1
        BY <3>2, <4>0, <4>1
      <4>2. CASE p # i - 1
        <5>1. p < i - 1
          BY <2>1, <3>5, <4>0, <4>2
        <5>2. PICK j \in 1 .. Len(x) : x[j] = p
          BY <2>1, <5>1
        <5>3. j \in 1 .. Len(y) /\ y[j] = p
          BY <2>2, <3>2, <5>2
        <5> QED BY <5>3
      <4> QED BY <4>1, <4>2
    <3>6. y \in U /\ Good(i, y)
      BY <2>1, <3>2, <3>3, <3>4, <3>5 DEF U, Good
    <3> QED BY <2>3, <3>6 DEF y, Turn
  <2>4. CASE bm[i] # 1
    <3>1. ASSUME NEW p \in Ones(bm), p < i PROVE p < i - 1
      <4>1. p \in Nat /\ bm[p + 1] = 1
        BY <1>0
      <4>2. p # i - 1
        BY <2>1, <2>4, <4>1
      <4> QED BY <2>1, <3>1, <4>1, <4>2
    <3>2. \A j \in 1 .. Len(x) : x[j] < i
      BY <2>1, <2>2
    <3>3. x \in U /\ Good(i, x)
      BY <2>1, <3>1, <3>2 DEF U, Good
    <3> QED BY <2>4, <3>3 DEF Turn
  <2> QED BY <2>3, <2>4
<1> HIDE DEF N, U, start, Good, Turn
<1>3. \E f : Solves(f)
  <2> DEFINE good == [i \in 0 .. N |-> {x \in U : Good(i, x)}]
             step == [i \in 1 .. N |-> [x \in good[i - 1] |-> Turn(i, x)]]
  <2>1. good \in [0 .. N -> SUBSET U] /\ start \in good[0]
    BY <1>1
  <2>2. ASSUME NEW i \in 1 .. N, NEW x \in good[i - 1]
        PROVE  step[i][x] = Turn(i, x) /\ Turn(i, x) \in good[i]
    <3>1. i \in 0 .. N /\ i - 1 \in 0 .. N
      BY <1>1
    <3>2. x \in U /\ Good(i - 1, x)
      BY <3>1
    <3>3. Turn(i, x) \in U /\ Good(i, Turn(i, x))
      BY <1>2, <3>2
    <3> QED BY <3>1, <3>3
  <2> HIDE DEF good, step
  <2>3. PICK f : Runs(f, N, U, good, start, step)
    <3>1. Loop(N, U, good, start, step)
      BY <1>1, <2>1, <2>2 DEF Loop
    <3> QED BY <3>1, LoopSolved
  <2>4. ASSUME NEW i \in 0 .. N
        PROVE  f[i] = IF i = 0 THEN start ELSE Turn(i, f[i - 1])
    <3>1. CASE i = 0
      BY <2>3, <3>1 DEF Runs
    <3>2. CASE i # 0
      <4>1. i \in 1 .. N
        BY <1>1, <3>2
      <4> QED BY <2>2, <2>3, <3>2, <4>1 DEF Runs
    <3> QED BY <3>1, <3>2
  <2>5. f = [i \in 0 .. N |-> f[i]]
    BY <2>3 DEF Runs
  <2>6. Solves(f)
    BY <2>4, <2>5
  <2> QED BY <2>6
<1>4. Solves(ones)
  BY <1>3
<1> HIDE DEF ones
<1>5. ones[0] = start /\ \A i \in 1 .. N : ones[i] = Turn(i, ones[i - 1])
  BY <1>1, <1>4
<1>6. \A i \in 0 .. N : ones[i] \in U /\ Good(i, ones[i])
  <2> DEFINE good == [i \in 0 .. N |-> {x \in U : Good(i, x)}]
  <2>1. ones[0] \in good[0]
    BY <1>1, <1>5
  <2>2. ASSUME NEW i \in 1 .. N, ones[i - 1] \in good[i - 1] PROVE ones[i] \in good[i]
    <3>1. i \in 0 .. N /\ i - 1 \in 0 .. N
      BY <1>1
    <3>2. ones[i - 1] \in U /\ Good(i - 1, ones[i - 1])
      BY <2>2, <3>1
    <3>3. ones[i] \in U /\ Good(i, ones[i])
      BY <1>2, <1>5, <3>2
    <3> QED BY <3>1, <3>3
  <2>3. \A i \in 0 .. N : ones[i] \in good[i]
    <3> HIDE DEF good
    <3> QED BY <1>1, <2>1, <2>2, LoopKeeps
  <2> QED BY <2>3
<1>7. OnePositions(bm) = ones[N]
  BY DEF OnePositions, ones, Turn, N, start
<1> DEFINE pos == OnePositions(bm)
<1>8. /\ pos \in Seq(Ones(bm)) /\ \A j, k \in 1 .. Len(pos) : j < k => pos[j] < pos[k]
      /\ \A p \in Ones(bm) : \E j \in 1 .. Len(pos) : pos[j] = p
  <2>0. N \in 0 .. N
    BY <1>1
  <2>1. ones[N] \in U /\ Good(N, ones[N])
    BY <1>6, <2>0
  <2>2. \A p \in Ones(bm) : p < N
    BY <1>0
  <2>3. /\ pos \in Seq(Ones(bm)) /\ \A j, k \in 1 .. Len(pos) : j < k => pos[j] < pos[k]
        /\ \A p \in Ones(bm) : p < N => \E j \in 1 .. Len(pos) : pos[j] = p
    <3> HIDE DEF pos
    <3>1. pos = ones[N]
      BY <1>7 DEF pos
    <3>2. pos \in U /\ Good(N, pos)
      BY <2>1, <3>1
    <3> QED BY <3>2 DEF U, Good
  <2> HIDE DEF pos
  <2> QED BY <2>2, <2>3
<1> HIDE DEF pos
<1>9. IsFiniteSet(Ones(bm)) /\ Len(pos) = Cardinality(Ones(bm))
  <2>1. Len(pos) \in Nat /\ pos \in [1 .. Len(pos) -> Ones(bm)]
    BY <1>8, LenProperties
  <2>2. \A j, k \in 1 .. Len(pos) : pos[j] = pos[k] => j = k
    <3>1. \A j \in 1 .. Len(pos) : pos[j] \in Nat
      BY <1>0, <2>1
    <3> QED BY <1>8, <2>1, <3>1
  <2>3. pos \in Bijection(1 .. Len(pos), Ones(bm))
    BY <1>8, <2>1, <2>2 DEF Bijection, Injection, Surjection, IsInjective
  <2>4. ExistsBijection(1 .. Len(pos), Ones(bm))
    BY <2>3 DEF ExistsBijection
  <2>5. IsFiniteSet(1 .. Len(pos)) /\ Cardinality(1 .. Len(pos)) = Len(pos)
    BY <2>1, CardinalityUpTo
  <2>6. \A S, T : IsFiniteSet(S) /\ ExistsBijection(S, T) =>
                    IsFiniteSet(T) /\ Cardinality(T) = Cardinality(S)
    BY FS_Bijection
  <2> QED BY <2>4, <2>5, <2>6
<1> QED BY <1>8, <1>9 DEF pos

-----------------------------------------------------------------------------
(* Fields in a file *)

\* The fields are in the file from an offset on.
Holds(data, at, fields) ==
    /\ at \in Nat /\ at + Len(fields) <= Len(data)
    /\ \A k \in 1 .. Len(fields) : data[at + k] = fields[k]

LEMMA HoldsConcat ==
    ASSUME NEW data, NEW at, NEW D, NEW a \in Seq(D), NEW b \in Seq(D), Len(data) \in Nat,
           Holds(data, at, a \o b)
    PROVE  Holds(data, at, a) /\ Holds(data, at + Len(a), b)
<1> DEFINE c == a \o b
<1>1. /\ c \in Seq(D) /\ Len(c) = Len(a) + Len(b) /\ Len(a) \in Nat /\ Len(b) \in Nat
      /\ \A i \in 1 .. Len(a) + Len(b) : c[i] = IF i <= Len(a) THEN a[i] ELSE b[i - Len(a)]
  BY ConcatProperties
<1>2. at \in Nat /\ at + Len(c) <= Len(data) /\ \A k \in 1 .. Len(c) : data[at + k] = c[k]
  BY DEF Holds
<1> HIDE DEF c
<1>3. ASSUME NEW k \in 1 .. Len(a) PROVE data[at + k] = a[k]
  <2>1. k \in 1 .. Len(c) /\ c[k] = a[k]
    BY <1>1
  <2> QED BY <1>2, <2>1
<1>4. ASSUME NEW k \in 1 .. Len(b) PROVE data[at + Len(a) + k] = b[k]
  <2> DEFINE m == Len(a) + k
  <2>1. m \in 1 .. Len(c) /\ m \in 1 .. Len(a) + Len(b) /\ ~(m <= Len(a)) /\ m - Len(a) = k
        /\ at + m = at + Len(a) + k
    BY <1>1, <1>2
  <2> HIDE DEF m
  <2>2. c[m] = b[m - Len(a)]
    BY <1>1, <2>1
  <2> QED BY <1>2, <2>1, <2>2
<1>5. at + Len(a) <= Len(data) /\ at + Len(a) \in Nat /\ at + Len(a) + Len(b) <= Len(data)
  BY <1>1, <1>2
<1> QED BY <1>2, <1>3, <1>4, <1>5 DEF Holds

LEMMA HoldsJoined ==
    ASSUME NEW data, NEW at, NEW D, NEW parts \in Seq(Seq(D)), Len(data) \in Nat,
           Holds(data, at, Joined(parts)), NEW i \in 1 .. Len(parts)
    PROVE  Holds(data, at + Starts(parts)[i - 1], parts[i])
<1> DEFINE c == Joined(parts)
           n == Starts(parts)[i - 1]
<1>1. /\ Len(c) = Starts(parts)[Len(parts)] /\ Len(parts) \in Nat
      /\ \A h \in 1 .. Len(parts) : \A k \in 1 .. Len(parts[h]) : c[Starts(parts)[h - 1] + k] = parts[h][k]
  BY JoinedAt
<1> HIDE DEF c
<1>2. at \in Nat /\ at + Len(c) <= Len(data) /\ \A k \in 1 .. Len(c) : data[at + k] = c[k]
  BY DEF Holds, c
<1>3. Starts(parts)[i] = n + Len(parts[i]) /\ n \in Nat /\ Len(parts[i]) \in Nat /\ Len(c) \in Nat
      /\ n + Len(parts[i]) <= Len(c)
  <2>1. /\ Starts(parts) \in [0 .. Len(parts) -> Nat]
        /\ \A h \in 1 .. Len(parts) : Starts(parts)[h] = Starts(parts)[h - 1] + Len(parts[h])
        /\ \A j \in 0 .. Len(parts) : \A h \in 0 .. j : Starts(parts)[h] <= Starts(parts)[j]
    BY StartsStep
  <2>2. i \in 0 .. Len(parts) /\ i - 1 \in 0 .. Len(parts) /\ Len(parts) \in 0 .. Len(parts)
    BY <1>1
  <2>a. Starts(parts)[i] = n + Len(parts[i]) /\ Len(parts[i]) \in Nat
    BY <1>1, <2>1, <2>2
  <2>b. n \in Nat /\ Starts(parts)[Len(parts)] \in Nat
    BY <2>1, <2>2
  <2> HIDE DEF n
  <2>3. Starts(parts)[i] = n + Len(parts[i]) /\ n \in Nat /\ Len(parts[i]) \in Nat /\ Len(c) \in Nat
    BY <1>1, <2>a, <2>b
  <2>4. Starts(parts)[i] <= Len(c)
    BY <1>1, <2>1, <2>2
  <2> QED BY <2>3, <2>4
<1>4. \A k \in 1 .. Len(parts[i]) : c[n + k] = parts[i][k]
  BY <1>1
<1> HIDE DEF n
<1>5. ASSUME NEW k \in 1 .. Len(parts[i]) PROVE data[at + n + k] = parts[i][k]
  <2> DEFINE m == n + k
  <2>1. m \in 1 .. Len(c) /\ at + m = at + n + k
    <3>1. k \in Nat /\ 1 <= k /\ k <= Len(parts[i])
      BY <1>3
    <3>2. at \in Nat
      BY <1>2
    <3> QED BY <1>3, <3>1, <3>2
  <2>2. c[m] = parts[i][k]
    BY <1>4
  <2> HIDE DEF m
  <2>3. data[at + m] = c[m]
    BY <1>2, <2>1
  <2> QED BY <2>1, <2>2, <2>3
<1>6. at + n + Len(parts[i]) <= Len(data) /\ at + n \in Nat
  <2>1. at \in Nat /\ at + Len(c) <= Len(data) /\ Len(data) \in Nat
    BY <1>2
  <2>2. n \in Nat /\ Len(parts[i]) \in Nat /\ Len(c) \in Nat /\ n + Len(parts[i]) <= Len(c)
    BY <1>3
  <2> DEFINE l == Len(parts[i])
             all == Len(c)
             end == Len(data)
  <2>3. at \in Nat /\ n \in Nat /\ l \in Nat /\ all \in Nat /\ end \in Nat
        /\ n + l <= all /\ at + all <= end
    BY <2>1, <2>2
  <2> HIDE DEF n, l, all, end
  <2>4. at + n + l <= end /\ at + n \in Nat
    BY <2>3
  <2> QED BY <2>4 DEF l, end
<1> QED BY <1>5, <1>6 DEF Holds, n

\* Reading that many fields from there gives them back.
LEMMA HoldsRead ==
    ASSUME NEW data, NEW at, NEW D, NEW s \in Seq(D), Holds(data, at, s)
    PROVE  SubSeq(data, at + 1, at + Len(s)) = s
<1> DEFINE t == SubSeq(data, at + 1, at + Len(s))
<1>1. Len(s) \in Nat /\ at \in Nat /\ \A k \in 1 .. Len(s) : data[at + k] = s[k] /\ s[k] \in D
  BY DEF Holds
<1> DEFINE first == at + 1
           last == at + Len(s)
<1>2. \A i \in first .. last : data[i] \in D
  <2> TAKE i \in first .. last
  <2>1. i - at \in 1 .. Len(s) /\ at + (i - at) = i
    BY <1>1
  <2> QED BY <1>1, <2>1
<1>3. first \in Int /\ last \in Int /\ last - first + 1 = Len(s) /\ t = SubSeq(data, first, last)
  BY <1>1
<1> HIDE DEF first, last, t
<1>4. /\ t \in Seq(D)
      /\ Len(t) = IF first <= last THEN last - first + 1 ELSE 0
      /\ \A i \in 1 .. last - first + 1 : t[i] = data[first + i - 1]
  BY <1>2, <1>3, SubSeqProperties
<1>5. Len(t) = Len(s) /\ \A i \in 1 .. Len(s) : t[i] = s[i]
  <2>1. Len(t) = Len(s)
    BY <1>1, <1>3, <1>4 DEF first, last
  <2>2. ASSUME NEW i \in 1 .. Len(s) PROVE t[i] = s[i]
    <3>1. first + i - 1 = at + i
      BY <1>1 DEF first
    <3>2. t[i] = data[first + i - 1]
      BY <1>3, <1>4
    <3> QED BY <1>1, <3>1, <3>2
  <2> QED BY <2>1, <2>2
<1>6. t = s
  BY <1>4, <1>5, SeqEqual
<1> QED BY <1>6 DEF t


-----------------------------------------------------------------------------
(* Lists in a file *)

LEMMA ReadListAt ==
    ASSUME NEW data, NEW at, NEW list \in Seq(Nat), Len(data) \in Nat,
           Holds(data, at, ListFields(list))
    PROVE  ReadList(data, at) = list
<1> DEFINE n == Len(list)
           first == <<n>>
<1>1. n \in Nat /\ first \in Seq(Nat) /\ Len(first) = 1 /\ first[1] = n
  OBVIOUS
<1>2. Holds(data, at, first) /\ Holds(data, at + Len(first), list)
  <2> HIDE DEF first
  <2>1. ListFields(list) = first \o list
    BY DEF ListFields, first
  <2> QED BY <1>1, <2>1, HoldsConcat
<1> HIDE DEF first
<1>3. at \in Nat /\ data[at + 1] = n
  BY <1>1, <1>2 DEF Holds
<1>4. Holds(data, at + 1, list)
  BY <1>1, <1>2
<1>5. SubSeq(data, at + 1 + 1, at + 1 + Len(list)) = list
  BY <1>4, HoldsRead
<1>6. at + 1 + 1 = at + 2 /\ at + 1 + Len(list) = at + 1 + data[at + 1]
  BY <1>1, <1>3
<1> QED BY <1>5, <1>6 DEF ReadList

\* The lists one behind the other, as they are written.
ListParts(lists) == [i \in DOMAIN lists |-> ListFields(lists[i])]

LEMMA ListSizesAre ==
    ASSUME NEW lists \in Seq(Seq(Nat))
    PROVE  /\ ListParts(lists) \in Seq(Seq(Nat)) /\ Len(ListParts(lists)) = Len(lists)
           /\ ListSizes(lists) = Starts(ListParts(lists))
           /\ ListSizes(lists) \in [0 .. Len(lists) -> Nat] /\ ListSizes(lists)[0] = 0
           /\ \A i \in 1 .. Len(lists) : ListSizes(lists)[i] = ListSizes(lists)[i - 1] + ListSize(lists[i])
<1> DEFINE parts == ListParts(lists)
<1>1. Len(lists) \in Nat /\ DOMAIN lists = 1 .. Len(lists)
      /\ \A i \in 1 .. Len(lists) : lists[i] \in Seq(Nat)
  OBVIOUS
<1>2. \A i \in 1 .. Len(lists) : /\ ListFields(lists[i]) \in Seq(Nat)
                                 /\ Len(ListFields(lists[i])) = ListSize(lists[i])
  <2> TAKE i \in 1 .. Len(lists)
  <2>1. lists[i] \in Seq(Nat) /\ Len(lists[i]) \in Nat
    BY <1>1
  <2>2. <<Len(lists[i])>> \o lists[i] \in Seq(Nat)
        /\ Len(<<Len(lists[i])>> \o lists[i]) = Len(lists[i]) + 1
    BY <2>1, PrependAt
  <2> QED BY <2>1, <2>2 DEF ListFields, ListSize
<1>3. /\ parts \in Seq(Seq(Nat)) /\ Len(parts) = Len(lists) /\ DOMAIN parts = DOMAIN lists
      /\ \A i \in 1 .. Len(lists) : Len(parts[i]) = ListSize(lists[i])
  <2>1. parts \in [1 .. Len(lists) -> Seq(Nat)]
    BY <1>1, <1>2 DEF ListParts
  <2>2. \A i \in 1 .. Len(lists) : parts[i] = ListFields(lists[i])
    BY <1>1 DEF ListParts
  <2> HIDE DEF parts
  <2>3. parts \in Seq(Seq(Nat)) /\ Len(parts) = Len(lists) /\ DOMAIN parts = 1 .. Len(lists)
    <3> DEFINE n == Len(lists)
               S == Seq(Nat)
    <3>1. n \in Nat /\ parts \in [1 .. n -> S]
      BY <1>1, <2>1
    <3> HIDE DEF n, S
    <3>2. parts \in Seq(S) /\ Len(parts) = n /\ DOMAIN parts = 1 .. n
      BY <3>1
    <3> QED BY <3>2 DEF n, S
  <2> QED BY <1>1, <1>2, <2>2, <2>3
<1> HIDE DEF parts
<1>4. Lengths(parts) = [i \in DOMAIN lists |-> ListSize(lists[i])]
  BY <1>1, <1>3 DEF Lengths
<1>5. ListSizes(lists) = Starts(parts)
  BY <1>4 DEF ListSizes, Starts
<1>6. /\ Starts(parts) \in [0 .. Len(parts) -> Nat] /\ Starts(parts)[0] = 0
      /\ \A i \in 1 .. Len(parts) : Starts(parts)[i] = Starts(parts)[i - 1] + Len(parts[i])
  BY <1>3, StartsStep
<1> QED BY <1>3, <1>5, <1>6 DEF parts

\* The first n elements of a sequence from a place on.
Piece(s, from, n) == [h \in 1 .. n |-> s[from + h]]

IsPiece(S, s, from, n) == Piece(s, from, n) \in [1 .. n -> S]

LEMMA PieceGrows ==
    ASSUME NEW S, NEW s, NEW from \in Nat, NEW n \in Nat \ {0}, IsPiece(S, s, from, n)
    PROVE  /\ Piece(s, from, n - 1) \in Seq(S) /\ Piece(s, from, n) \in Seq(S) /\ s[from + n] \in S
           /\ Len(Piece(s, from, n)) = n
           /\ Append(Piece(s, from, n - 1), s[from + n]) = Piece(s, from, n)
<1> DEFINE p == Piece(s, from, n - 1)
           q == Piece(s, from, n)
           x == s[from + n]
<1>0. n \in Nat /\ n - 1 \in Nat
  OBVIOUS
<1>1. /\ \A h \in 1 .. n : q[h] = s[from + h] /\ q[h] \in S
      /\ \A h \in 1 .. n - 1 : p[h] = s[from + h] /\ h \in 1 .. n
      /\ p = [h \in 1 .. n - 1 |-> p[h]] /\ q \in [1 .. n -> S] /\ n \in 1 .. n
  BY DEF Piece, IsPiece
<1> HIDE DEF p, q
<1>2. p \in [1 .. n - 1 -> S]
  BY <1>1
<1>3. p \in Seq(S) /\ Len(p) = n - 1 /\ q \in Seq(S) /\ Len(q) = n
  <2> DEFINE m == n - 1
  <2>1. m \in Nat /\ p \in [1 .. m -> S]
    BY <1>0, <1>2
  <2> HIDE DEF m
  <2>2. p \in Seq(S) /\ Len(p) = m
    BY <2>1
  <2> QED BY <1>0, <1>1, <2>2 DEF m
<1>4. x = q[n] /\ x \in S
  BY <1>1
<1> HIDE DEF x
<1>5. /\ Append(p, x) \in Seq(S) /\ Len(Append(p, x)) = Len(p) + 1
      /\ \A h \in 1 .. Len(p) : Append(p, x)[h] = p[h]
      /\ Append(p, x)[Len(p) + 1] = x
  BY <1>3, <1>4, AppendProperties
<1>6. \A h \in 1 .. n : Append(p, x)[h] = q[h]
  <2> TAKE h \in 1 .. n
  <2>1. CASE h = n
    BY <1>3, <1>4, <1>5, <2>1
  <2>2. CASE h # n
    <3>1. h \in 1 .. n - 1
      BY <2>2
    <3> QED BY <1>1, <1>3, <1>5, <3>1
  <2> QED BY <2>1, <2>2
<1>7. Len(Append(p, x)) = n
  BY <1>3, <1>5
<1>8. Append(p, x) = q
  BY <1>3, <1>5, <1>6, <1>7, SeqEqual
<1> QED BY <1>3, <1>4, <1>8 DEF p, q, x

\* ReadLists reads n of the lists in the file, those behind the first ones.
LEMMA ReadListsAt ==
    ASSUME NEW data, NEW at \in Nat, NEW lists \in Seq(Seq(Nat)), Len(data) \in Nat,
           NEW from \in 0 .. Len(lists), NEW n \in 0 .. Len(lists) - from,
           \A h \in 1 .. Len(lists) : Holds(data, at + ListSizes(lists)[h - 1], ListFields(lists[h]))
    PROVE  ReadLists(data, at + ListSizes(lists)[from], n) =
             [at |-> at + ListSizes(lists)[from + n], lists |-> Piece(lists, from, n)]
<1> DEFINE N == n
           U == [at : Nat, lists : Seq(Seq(Nat))]
           start == [at |-> at + ListSizes(lists)[from], lists |-> <<>>]
           Turn(i, x) == LET list == ReadList(data, x.at)
                         IN  [at |-> x.at + ListSize(list), lists |-> Append(x.lists, list)]
           Good(i, x) ==
             x = [at |-> at + ListSizes(lists)[from + i], lists |-> Piece(lists, from, i)]
           Solves(f) == f = [i \in 0 .. N |-> IF i = 0 THEN start ELSE Turn(i, f[i - 1])]
           read == CHOOSE f : Solves(f)
<1>0. /\ Len(lists) \in Nat /\ N \in Nat /\ from \in Nat /\ at \in Nat
      /\ \A h \in 1 .. Len(lists) : lists[h] \in Seq(Nat)
      /\ ListSizes(lists) \in [0 .. Len(lists) -> Nat]
      /\ \A h \in 1 .. Len(lists) : ListSizes(lists)[h] = ListSizes(lists)[h - 1] + ListSize(lists[h])
  BY ListSizesAre
<1>1. N \in Nat /\ start \in U /\ Good(0, start)
  <2>1. from + 0 = from /\ from \in 0 .. Len(lists)
    BY <1>0
  <2>2. Piece(lists, from, 0) = <<>>
    BY DEF Piece
  <2>3. at + ListSizes(lists)[from] \in Nat
    <3>1. ListSizes(lists)[from] \in Nat
      BY <1>0, <2>1
    <3> QED BY <1>0, <3>1
  <2>4. start \in U
    BY <2>3
  <2>5. start = [at |-> at + ListSizes(lists)[from + 0], lists |-> Piece(lists, from, 0)]
    BY <2>1, <2>2
  <2> QED BY <1>0, <2>4, <2>5
<1>2. ASSUME NEW i \in 1 .. N, NEW x \in U, Good(i - 1, x)
      PROVE  Turn(i, x) \in U /\ Good(i, Turn(i, x))
  <2> DEFINE h == from + i
  <2>1. /\ h \in 1 .. Len(lists) /\ h - 1 = from + (i - 1) /\ h - 1 \in 0 .. Len(lists)
        /\ i - 1 \in Nat /\ i - 1 + 1 = i /\ i \in Nat
    BY <1>0
  <2>2. x.at = at + ListSizes(lists)[h - 1] /\ x.lists = Piece(lists, from, i - 1)
    BY <1>2, <2>1
  <2>3. /\ lists[h] \in Seq(Nat) /\ ListSizes(lists)[h] = ListSizes(lists)[h - 1] + ListSize(lists[h])
        /\ ListSizes(lists)[h - 1] \in Nat
    BY <1>0, <2>1
  <2>4. Holds(data, x.at, ListFields(lists[h]))
    BY <2>1, <2>2
  <2>5. ReadList(data, x.at) = lists[h]
    BY <2>3, <2>4, ReadListAt
  <2>6. x.at + ListSize(lists[h]) = at + ListSizes(lists)[h] /\ at + ListSizes(lists)[h] \in Nat
    <3> DEFINE a == ListSizes(lists)[h - 1]
               b == ListSizes(lists)[h]
               c == ListSize(lists[h])
    <3>1. a \in Nat /\ c \in Nat /\ b = a + c /\ x.at = at + a
      BY <2>2, <2>3 DEF ListSize
    <3> HIDE DEF a, b, c
    <3>2. x.at + c = at + b /\ at + b \in Nat
      BY <3>1
    <3> QED BY <3>2 DEF b, c
  <2>7. /\ Append(Piece(lists, from, i - 1), lists[h]) = Piece(lists, from, i)
        /\ Append(Piece(lists, from, i - 1), lists[h]) \in Seq(Seq(Nat))
    <3> DEFINE S == Seq(Nat)
    <3>1. \A k \in 1 .. i : lists[from + k] \in S
      BY <1>0, <2>1
    <3> HIDE DEF S, U, Good, Turn, N
    <3>2. i \in Nat \ {0} /\ from \in Nat
      BY <1>0, <2>1
    <3>3. IsPiece(S, lists, from, i)
      BY <3>1 DEF IsPiece, Piece
    <3>4. /\ Append(Piece(lists, from, i - 1), lists[from + i]) = Piece(lists, from, i)
          /\ Piece(lists, from, i) \in Seq(S)
      BY <3>2, <3>3, PieceGrows
    <3> QED BY <3>4 DEF S
  <2>8. Turn(i, x) = [at |-> at + ListSizes(lists)[h], lists |-> Piece(lists, from, i)]
    BY <2>2, <2>5, <2>6, <2>7 DEF Turn
  <2> QED BY <2>6, <2>7, <2>8
<1> HIDE DEF N, U, start, Good, Turn
<1>3. \E f : Solves(f)
  <2> DEFINE good == [i \in 0 .. N |-> {x \in U : Good(i, x)}]
             step == [i \in 1 .. N |-> [x \in good[i - 1] |-> Turn(i, x)]]
  <2>1. good \in [0 .. N -> SUBSET U] /\ start \in good[0]
    BY <1>1
  <2>2. ASSUME NEW i \in 1 .. N, NEW x \in good[i - 1]
        PROVE  step[i][x] = Turn(i, x) /\ Turn(i, x) \in good[i]
    <3>1. i \in 0 .. N /\ i - 1 \in 0 .. N
      BY <1>1
    <3>2. x \in U /\ Good(i - 1, x)
      BY <3>1
    <3>3. Turn(i, x) \in U /\ Good(i, Turn(i, x))
      BY <1>2, <3>2
    <3> QED BY <3>1, <3>3
  <2> HIDE DEF good, step
  <2>3. PICK f : Runs(f, N, U, good, start, step)
    <3>1. Loop(N, U, good, start, step)
      BY <1>1, <2>1, <2>2 DEF Loop
    <3> QED BY <3>1, LoopSolved
  <2>4. ASSUME NEW i \in 0 .. N
        PROVE  f[i] = IF i = 0 THEN start ELSE Turn(i, f[i - 1])
    <3>1. CASE i = 0
      BY <2>3, <3>1 DEF Runs
    <3>2. CASE i # 0
      <4>1. i \in 1 .. N
        BY <1>1, <3>2
      <4> QED BY <2>2, <2>3, <3>2, <4>1 DEF Runs
    <3> QED BY <3>1, <3>2
  <2>5. f = [i \in 0 .. N |-> f[i]]
    BY <2>3 DEF Runs
  <2>6. Solves(f)
    BY <2>4, <2>5
  <2> QED BY <2>6
<1>4. Solves(read)
  BY <1>3
<1> HIDE DEF read
<1>5. read[0] = start /\ \A i \in 1 .. N : read[i] = Turn(i, read[i - 1])
  BY <1>1, <1>4
<1>6. \A i \in 0 .. N : read[i] \in U /\ Good(i, read[i])
  <2> DEFINE good == [i \in 0 .. N |-> {x \in U : Good(i, x)}]
  <2>1. read[0] \in good[0]
    BY <1>1, <1>5
  <2>2. ASSUME NEW i \in 1 .. N, read[i - 1] \in good[i - 1] PROVE read[i] \in good[i]
    <3>1. i \in 0 .. N /\ i - 1 \in 0 .. N
      BY <1>1
    <3>2. read[i - 1] \in U /\ Good(i - 1, read[i - 1])
      BY <2>2, <3>1
    <3>3. read[i] \in U /\ Good(i, read[i])
      BY <1>2, <1>5, <3>2
    <3> QED BY <3>1, <3>3
  <2>3. \A i \in 0 .. N : read[i] \in good[i]
    <3> HIDE DEF good
    <3> QED BY <1>1, <2>1, <2>2, LoopKeeps
  <2> QED BY <2>3
<1>7. ReadLists(data, at + ListSizes(lists)[from], n) = read[N]
  BY DEF ReadLists, read, Turn, N, start
<1>8. Good(N, read[N])
  <2>1. N \in 0 .. N
    BY <1>1
  <2> QED BY <1>6, <2>1
<1> QED BY <1>7, <1>8 DEF N, Good


-----------------------------------------------------------------------------
(* The order of the nodes in a file *)

\* children and root are those of a tree: every node but the root is the child of one
\* node, at one position, and rank grows from parents to children.
IsTree(children, root, rank) ==
    LET Nodes == 1 .. Len(children)
    IN  /\ children \in Seq(Seq(Nodes)) /\ root \in Nodes /\ rank \in [Nodes -> Nat]
        /\ \A m, n \in Nodes : \A j \in 1 .. Len(children[m]), k \in 1 .. Len(children[n]) :
             children[m][j] # root /\ (children[m][j] = children[n][k] => m = n /\ j = k)
        /\ \A n \in Nodes \ {root} : \E m \in Nodes : \E j \in 1 .. Len(children[m]) :
             children[m][j] = n /\ rank[m] < rank[n]

\* One node leaves the queue with every turn, and its children join it.
LEMMA BreadthFirstStep ==
    ASSUME NEW children, NEW root \in 1 .. Len(children), children \in Seq(Seq(1 .. Len(children)))
    PROVE  LET pushed == BreadthFirst(children, root)
           IN  /\ pushed \in [0 .. Len(children) -> Seq(1 .. Len(children))]
               /\ pushed[0] = <<root>>
               /\ \A i \in 1 .. Len(children) :
                    pushed[i] = IF i > Len(pushed[i - 1]) THEN pushed[i - 1]
                                ELSE pushed[i - 1] \o children[pushed[i - 1][i]]
<1> DEFINE N == Len(children)
           U == Seq(1 .. Len(children))
           start == <<root>>
           Turn(i, x) == IF i > Len(x) THEN x ELSE x \o children[x[i]]
           Solves(f) == f = [i \in 0 .. N |-> IF i = 0 THEN start ELSE Turn(i, f[i - 1])]
           pushed == CHOOSE f : Solves(f)
<1>0. N \in Nat /\ \A n \in 1 .. N : children[n] \in Seq(1 .. N)
  OBVIOUS
<1>1. N \in Nat /\ start \in U
  BY <1>0
<1>2. ASSUME NEW i \in 1 .. N, NEW x \in U
      PROVE  Turn(i, x) \in U
  <2>1. CASE i > Len(x)
    BY <2>1
  <2>2. CASE ~(i > Len(x))
    <3>1. x[i] \in 1 .. N
      <4>1. i \in 1 .. Len(x)
        BY <1>0, <2>2
      <4> QED BY <4>1
    <3>2. children[x[i]] \in Seq(1 .. N)
      BY <1>0, <3>1
    <3>3. x \o children[x[i]] \in Seq(1 .. N)
      BY <3>2, ConcatProperties
    <3> QED BY <2>2, <3>3
  <2> QED BY <2>1, <2>2
<1> HIDE DEF N, U, start, Turn
<1>3. \E f : Solves(f)
  <2> DEFINE good == [i \in 0 .. N |-> U]
             step == [i \in 1 .. N |-> [x \in good[i - 1] |-> Turn(i, x)]]
  <2>1. good \in [0 .. N -> SUBSET U] /\ start \in good[0]
    BY <1>1
  <2>2. ASSUME NEW i \in 1 .. N, NEW x \in good[i - 1]
        PROVE  step[i][x] = Turn(i, x) /\ Turn(i, x) \in good[i]
    <3>1. i \in 0 .. N /\ i - 1 \in 0 .. N
      BY <1>1
    <3>2. x \in U
      BY <3>1
    <3>3. Turn(i, x) \in U
      BY <1>2, <3>2
    <3> QED BY <3>1, <3>3
  <2> HIDE DEF good, step
  <2>3. PICK f : Runs(f, N, U, good, start, step)
    <3>1. Loop(N, U, good, start, step)
      BY <1>1, <2>1, <2>2 DEF Loop
    <3> QED BY <3>1, LoopSolved
  <2>4. ASSUME NEW i \in 0 .. N
        PROVE  f[i] = IF i = 0 THEN start ELSE Turn(i, f[i - 1])
    <3>1. CASE i = 0
      BY <2>3, <3>1 DEF Runs
    <3>2. CASE i # 0
      <4>1. i \in 1 .. N
        BY <1>1, <3>2
      <4> QED BY <2>2, <2>3, <3>2, <4>1 DEF Runs
    <3> QED BY <3>1, <3>2
  <2>5. f = [i \in 0 .. N |-> f[i]]
    BY <2>3 DEF Runs
  <2>6. Solves(f)
    BY <2>4, <2>5
  <2> QED BY <2>6
<1>4. Solves(pushed)
  BY <1>3
<1> HIDE DEF pushed
<1>5. pushed[0] = start /\ \A i \in 1 .. N : pushed[i] = Turn(i, pushed[i - 1])
  BY <1>1, <1>4
<1>6. \A i \in 0 .. N : pushed[i] \in U
  <2> DEFINE good == [i \in 0 .. N |-> U]
  <2>1. pushed[0] \in good[0]
    BY <1>1, <1>5
  <2>2. ASSUME NEW i \in 1 .. N, pushed[i - 1] \in good[i - 1] PROVE pushed[i] \in good[i]
    <3>1. i \in 0 .. N /\ i - 1 \in 0 .. N
      BY <1>1
    <3>2. pushed[i - 1] \in U
      BY <2>2, <3>1
    <3>3. pushed[i] \in U
      BY <1>2, <1>5, <3>2
    <3> QED BY <3>1, <3>3
  <2>3. \A i \in 0 .. N : pushed[i] \in good[i]
    <3> HIDE DEF good
    <3> QED BY <1>1, <2>1, <2>2, LoopKeeps
  <2> QED BY <2>3
<1>7. BreadthFirst(children, root) = pushed
  BY DEF BreadthFirst, pushed, Turn, N, start
<1>8. pushed \in [0 .. N -> U]
  BY <1>4, <1>6
<1> QED BY <1>5, <1>7, <1>8 DEF N, U, start, Turn

\* Until the queue is empty it only grows behind.
Grown(x, y, i) ==
    /\ Len(x) <= Len(y) /\ \A k \in 1 .. Len(x) : y[k] = x[k]
    /\ Len(x) <= i => y = x

LEMMA BreadthFirstGrows ==
    ASSUME NEW children, NEW root \in 1 .. Len(children), children \in Seq(Seq(1 .. Len(children))),
           NEW j \in 0 .. Len(children), NEW i \in 0 .. j
    PROVE  Grown(BreadthFirst(children, root)[i], BreadthFirst(children, root)[j], i)
<1> DEFINE N == Len(children)
           pushed == BreadthFirst(children, root)
           Q == Seq(1 .. N)
           good == [b \in 0 .. N |-> {x \in Q : b >= i =>
                      /\ Len(pushed[i]) <= Len(x)
                      /\ \A k \in 1 .. Len(pushed[i]) : x[k] = pushed[i][k]
                      /\ Len(pushed[i]) <= i => x = pushed[i]}]
<1>1. /\ pushed \in [0 .. N -> Q]
      /\ \A b \in 1 .. N : pushed[b] = IF b > Len(pushed[b - 1]) THEN pushed[b - 1]
                                       ELSE pushed[b - 1] \o children[pushed[b - 1][b]]
  BY BreadthFirstStep
<1>2. N \in Nat /\ \A n \in 1 .. N : children[n] \in Q
  OBVIOUS
<1>0. i \in 0 .. N /\ i \in Nat /\ j \in 0 .. N /\ i <= j
  BY <1>2
<1> HIDE DEF N, pushed
<1>3. ASSUME NEW b \in 0 .. N PROVE pushed[b] \in Q /\ Len(pushed[b]) \in Nat
  <2>1. pushed[b] \in Q
    BY <1>1
  <2> QED BY <2>1, LenProperties
<1>4. ASSUME NEW b \in 0 .. N, ~(b > i) PROVE pushed[b] \in good[b]
  <2>1. b >= i => b = i
    BY <1>0, <1>4
  <2>2. Len(pushed[i]) <= Len(pushed[i])
    BY <1>0, <1>3
  <2> QED BY <1>3, <2>1, <2>2
<1>5. ASSUME NEW b \in 1 .. N, pushed[b - 1] \in good[b - 1] PROVE pushed[b] \in good[b]
  <2>1. b \in 0 .. N /\ b - 1 \in 0 .. N /\ b \in Nat
    BY <1>2
  <2>2. CASE b > i
    <3> DEFINE x == pushed[b - 1]
               y == pushed[b]
    <3>1. /\ x \in Q /\ y \in Q /\ Len(pushed[i]) <= Len(x)
          /\ \A k \in 1 .. Len(pushed[i]) : x[k] = pushed[i][k]
          /\ Len(pushed[i]) <= i => x = pushed[i]
      BY <1>0, <1>3, <1>5, <2>1, <2>2
    <3>2. y = IF b > Len(x) THEN x ELSE x \o children[x[b]]
      BY <1>1
    <3>3. Len(x) \in Nat /\ Len(pushed[i]) \in Nat
      BY <1>0, <1>3, <2>1
    <3> HIDE DEF x, y
    <3>4. CASE b > Len(x)
      <4>1. y = x
        BY <3>2, <3>4
      <4>2. y \in good[b]
        BY <2>1, <3>1, <4>1
      <4> QED BY <4>2 DEF y
    <3>5. CASE ~(b > Len(x))
      <4>1. b \in 1 .. Len(x)
        BY <2>1, <3>3, <3>5
      <4>2. x[b] \in 1 .. N
        BY <3>1, <4>1, ElementOfSeq
      <4> DEFINE c == children[x[b]]
      <4>3. c \in Q /\ Len(c) \in Nat
        BY <1>2, <4>2
      <4>4. y = x \o c
        BY <3>2, <3>5
      <4> HIDE DEF c, Q
      <4>5. /\ Len(y) = Len(x) + Len(c)
            /\ \A k \in 1 .. Len(x) + Len(c) : y[k] = IF k <= Len(x) THEN x[k] ELSE c[k - Len(x)]
        BY <3>1, <4>3, <4>4, ConcatProperties DEF Q
      <4>6. Len(pushed[i]) <= Len(y)
        BY <3>1, <3>3, <4>3, <4>5
      <4>7. ASSUME NEW k \in 1 .. Len(pushed[i]) PROVE y[k] = pushed[i][k]
        <5>1. k \in 1 .. Len(x) + Len(c) /\ k <= Len(x)
          BY <3>1, <3>3, <4>3
        <5> QED BY <3>1, <4>5, <5>1
      <4>8. ~(Len(pushed[i]) <= i)
        <5>1. SUFFICES ASSUME Len(pushed[i]) <= i PROVE FALSE
          OBVIOUS
        <5>2. Len(x) <= i /\ b > i /\ b <= Len(x) /\ Len(x) \in Nat /\ b \in Nat /\ i \in Nat
          BY <1>0, <2>1, <2>2, <3>1, <3>3, <4>1, <5>1
        <5> QED BY <5>2
      <4>9. y \in good[b]
        BY <2>1, <3>1, <4>6, <4>7, <4>8
      <4> QED BY <4>9 DEF y
    <3> QED BY <3>4, <3>5
  <2> QED BY <1>4, <2>1, <2>2
<1>6. pushed[0] \in good[0]
  <2>1. 0 \in 0 .. N /\ ~(0 > i)
    BY <1>0, <1>2
  <2> QED BY <1>4, <2>1
<1>7. pushed[j] \in good[j]
  <2> HIDE DEF good
  <2>1. \A b \in 0 .. N : pushed[b] \in good[b]
    BY <1>2, <1>5, <1>6, LoopKeeps
  <2> QED BY <1>0, <2>1
<1>8. /\ Len(pushed[i]) <= Len(pushed[j])
      /\ \A k \in 1 .. Len(pushed[i]) : pushed[j][k] = pushed[i][k]
      /\ Len(pushed[i]) <= i => pushed[j] = pushed[i]
  BY <1>0, <1>7
<1> QED BY <1>8 DEF pushed, Grown


\* No node is pushed twice.
LEMMA BreadthFirstOnce ==
    ASSUME NEW children, NEW root, NEW rank, IsTree(children, root, rank), NEW i \in 0 .. Len(children)
    PROVE  LET x == BreadthFirst(children, root)[i]
           IN  /\ x \in Seq(1 .. Len(children)) /\ Len(x) >= 1 /\ x[1] = root
               /\ \A k, l \in 1 .. Len(x) : x[k] = x[l] => k = l
<1> DEFINE N == Len(children)
           pushed == BreadthFirst(children, root)
           Q == Seq(1 .. N)
           Known(x, b) == \A k \in 2 .. Len(x) : \E a \in 1 .. b : \E j \in 1 .. Len(children[x[a]]) :
                            a <= Len(x) /\ x[k] = children[x[a]][j]
           Once(x) == \A k, l \in 1 .. Len(x) : x[k] = x[l] => k = l
           good == [b \in 0 .. N |-> {x \in Q : Len(x) >= 1 /\ x[1] = root /\ Known(x, b) /\ Once(x)}]
<1>0. /\ children \in Seq(Seq(1 .. N)) /\ root \in 1 .. N /\ N \in Nat
      /\ \A n \in 1 .. N : children[n] \in Q
      /\ \A m, n \in 1 .. N : \A j \in 1 .. Len(children[m]), k \in 1 .. Len(children[n]) :
           children[m][j] # root /\ (children[m][j] = children[n][k] => m = n /\ j = k)
  <2>1. children \in Seq(Seq(1 .. N))
    BY DEF IsTree
  <2>2. N \in Nat /\ \A n \in 1 .. N : children[n] \in Q
    BY <2>1
  <2> QED BY <2>1, <2>2 DEF IsTree
<1>1. /\ pushed \in [0 .. N -> Q] /\ pushed[0] = <<root>>
      /\ \A b \in 1 .. N : pushed[b] = IF b > Len(pushed[b - 1]) THEN pushed[b - 1]
                                       ELSE pushed[b - 1] \o children[pushed[b - 1][b]]
  BY <1>0, BreadthFirstStep
<1> HIDE DEF N, pushed, Known, Once
<1>2. pushed[0] \in good[0]
  <2> DEFINE x == pushed[0]
  <2>1. x \in Q /\ Len(x) = 1 /\ x[1] = root
    BY <1>0, <1>1
  <2> HIDE DEF x
  <2>2. Known(x, 0) /\ Once(x)
    BY <2>1 DEF Known, Once
  <2> QED BY <1>0, <2>1, <2>2 DEF x
<1>3. ASSUME NEW b \in 1 .. N, pushed[b - 1] \in good[b - 1] PROVE pushed[b] \in good[b]
  <2> DEFINE x == pushed[b - 1]
             y == pushed[b]
  <2>0. b \in 0 .. N /\ b - 1 \in 0 .. N /\ b \in Nat
    BY <1>0
  <2>1. x \in Q /\ Len(x) >= 1 /\ x[1] = root /\ Known(x, b - 1) /\ Once(x)
    BY <1>3, <2>0
  <2>2. y = (IF b > Len(x) THEN x ELSE x \o children[x[b]]) /\ y \in Q
    BY <1>1, <2>0
  <2>3. Len(x) \in Nat /\ Len(y) \in Nat
    BY <2>1, <2>2, LenProperties
  <2> HIDE DEF x, y
  <2>4. CASE b > Len(x)
    <3>1. Known(x, b)
      <4> SUFFICES ASSUME NEW k \in 2 .. Len(x)
                   PROVE  \E a \in 1 .. b : \E j \in 1 .. Len(children[x[a]]) :
                            a <= Len(x) /\ x[k] = children[x[a]][j]
        BY DEF Known
      <4>p. PICK a \in 1 .. b - 1 : \E j \in 1 .. Len(children[x[a]]) : a <= Len(x) /\ x[k] = children[x[a]][j]
        BY <2>1 DEF Known
      <4>1. PICK j \in 1 .. Len(children[x[a]]) : a <= Len(x) /\ x[k] = children[x[a]][j]
        BY <4>p
      <4>2. a \in 1 .. b
        BY <2>0
      <4> QED BY <4>1, <4>2
    <3>2. y = x
      BY <2>2, <2>4
    <3>3. y \in good[b]
      BY <2>0, <2>1, <3>1, <3>2
    <3> QED BY <3>3 DEF y
  <2>5. CASE ~(b > Len(x))
    <3>1. b \in 1 .. Len(x)
      BY <2>0, <2>3, <2>5
    <3>2. x[b] \in 1 .. N
      BY <2>1, <3>1, ElementOfSeq
    <3> DEFINE c == children[x[b]]
    <3>3. c \in Q
      BY <1>0, <3>2
    <3>4. y = x \o c
      BY <2>2, <2>5
    <3>5. c \in Seq(1 .. N) /\ x \in Seq(1 .. N)
      BY <2>1, <3>3
    <3>6. Len(c) \in Nat
      BY <3>5, LenProperties
    <3>a. \A n \in 1 .. N : \A k \in 1 .. Len(c), l \in 1 .. Len(children[n]) :
            c[k] # root /\ (c[k] = children[n][l] => x[b] = n /\ k = l)
      BY <1>0, <3>2
    <3> HIDE DEF c, Q
    <3>b. c = children[x[b]]
      BY DEF c
    <3>7. /\ Len(y) = Len(x) + Len(c)
          /\ \A k \in 1 .. Len(x) + Len(c) : y[k] = IF k <= Len(x) THEN x[k] ELSE c[k - Len(x)]
      BY <3>4, <3>5, ConcatProperties
    <3>8. /\ \A k \in 1 .. Len(x) : k \in 1 .. Len(y) /\ y[k] = x[k]
          /\ \A k \in 1 .. Len(y) : k \in 1 .. Len(x) \/ (k - Len(x) \in 1 .. Len(c) /\ y[k] = c[k - Len(x)])
      <4>1. ASSUME NEW k \in 1 .. Len(x) PROVE k \in 1 .. Len(y) /\ y[k] = x[k]
        <5>1. k \in 1 .. Len(x) + Len(c) /\ k <= Len(x)
          BY <2>3, <3>6
        <5> QED BY <3>7, <5>1
      <4>2. ASSUME NEW k \in 1 .. Len(y), k \notin 1 .. Len(x)
            PROVE  k - Len(x) \in 1 .. Len(c) /\ y[k] = c[k - Len(x)]
        <5>1. k \in 1 .. Len(x) + Len(c) /\ ~(k <= Len(x)) /\ k - Len(x) \in 1 .. Len(c)
          BY <2>3, <3>6, <3>7, <4>2
        <5> QED BY <3>7, <5>1
      <4> QED BY <4>1, <4>2
    <3>9. Known(y, b)
      <4> SUFFICES ASSUME NEW k \in 2 .. Len(y)
                   PROVE  \E a \in 1 .. b : \E j \in 1 .. Len(children[y[a]]) :
                            a <= Len(y) /\ y[k] = children[y[a]][j]
        BY DEF Known
      <4>0. k \in 1 .. Len(y)
        OBVIOUS
      <4>1. CASE k \in 1 .. Len(x)
        <5>p. PICK a \in 1 .. b - 1 : \E j \in 1 .. Len(children[x[a]]) : a <= Len(x) /\ x[k] = children[x[a]][j]
          <6>1. k \in 2 .. Len(x)
            BY <4>1
          <6> QED BY <2>1, <6>1 DEF Known
        <5>1. PICK j \in 1 .. Len(children[x[a]]) : a <= Len(x) /\ x[k] = children[x[a]][j]
          BY <5>p
        <5>2. a \in 1 .. b /\ a \in 1 .. Len(x)
          BY <2>0, <5>1
        <5>3. y[a] = x[a] /\ a \in 1 .. Len(y) /\ y[k] = x[k]
          BY <3>8, <4>1, <5>2
        <5> QED BY <5>1, <5>2, <5>3
      <4>2. CASE k \notin 1 .. Len(x)
        <5>1. k - Len(x) \in 1 .. Len(c) /\ y[k] = c[k - Len(x)]
          BY <3>8, <4>0, <4>2
        <5>2. y[b] = x[b] /\ b \in 1 .. Len(y)
          BY <3>1, <3>8
        <5>3. y[k] = children[y[b]][k - Len(x)] /\ k - Len(x) \in 1 .. Len(children[y[b]])
          BY <5>1, <5>2 DEF c
        <5>4. b \in 1 .. b /\ b <= Len(y)
          BY <2>0, <5>2
        <5> QED BY <5>3, <5>4
      <4> QED BY <4>1, <4>2
    <3>10. Once(y)
      <4>1. ASSUME NEW k \in 1 .. Len(x), NEW l \in 1 .. Len(c), x[k] = c[l] PROVE FALSE
        <5>1. c[l] # root
          BY <3>2, <3>a, <3>b
        <5>2. k \in 2 .. Len(x)
          BY <2>1, <4>1, <5>1
        <5>p. PICK a \in 1 .. b - 1 : \E j \in 1 .. Len(children[x[a]]) : a <= Len(x) /\ x[k] = children[x[a]][j]
          BY <2>1, <5>2 DEF Known
        <5>3. PICK j \in 1 .. Len(children[x[a]]) : a <= Len(x) /\ x[k] = children[x[a]][j]
          BY <5>p
        <5>4. a \in 1 .. Len(x) /\ a # b
          BY <2>0, <2>3, <5>3
        <5>5. x[a] \in 1 .. N
          BY <2>1, <5>4, ElementOfSeq DEF Q
        <5>6. x[a] = x[b]
          BY <3>a, <4>1, <5>3, <5>5
        <5> QED BY <2>1, <3>1, <5>4, <5>6 DEF Once
      <4>2. ASSUME NEW k \in 1 .. Len(c), NEW l \in 1 .. Len(c), c[k] = c[l] PROVE k = l
        BY <3>2, <3>a, <3>b, <4>2
      <4> SUFFICES ASSUME NEW k \in 1 .. Len(y), NEW l \in 1 .. Len(y), y[k] = y[l] PROVE k = l
        BY DEF Once
      <4>3. CASE k \in 1 .. Len(x) /\ l \in 1 .. Len(x)
        BY <2>1, <3>8, <4>3 DEF Once
      <4>4. CASE k \in 1 .. Len(x) /\ l \notin 1 .. Len(x)
        <5>1. y[k] = x[k] /\ l - Len(x) \in 1 .. Len(c) /\ y[l] = c[l - Len(x)]
          BY <3>8, <4>4
        <5> QED BY <4>1, <4>4, <5>1
      <4>5. CASE k \notin 1 .. Len(x) /\ l \in 1 .. Len(x)
        <5>1. y[l] = x[l] /\ k - Len(x) \in 1 .. Len(c) /\ y[k] = c[k - Len(x)]
          BY <3>8, <4>5
        <5> QED BY <4>1, <4>5, <5>1
      <4>6. CASE k \notin 1 .. Len(x) /\ l \notin 1 .. Len(x)
        <5>1. k - Len(x) \in 1 .. Len(c) /\ y[k] = c[k - Len(x)] /\ l - Len(x) \in 1 .. Len(c) /\ y[l] = c[l - Len(x)]
          BY <3>8, <4>6
        <5>2. k - Len(x) = l - Len(x)
          BY <4>2, <5>1
        <5> QED BY <2>3, <5>2
      <4> QED BY <4>3, <4>4, <4>5, <4>6
    <3>11. Len(y) >= 1 /\ y[1] = root
      <4>1. 1 \in 1 .. Len(x)
        BY <2>1, <2>3
      <4> QED BY <2>1, <3>8, <4>1
    <3>12. y \in good[b]
      BY <2>0, <2>2, <3>9, <3>10, <3>11
    <3> QED BY <3>12 DEF y
  <2> QED BY <2>4, <2>5
<1>4. pushed[i] \in good[i] /\ i \in 0 .. N
  <2>1. i \in 0 .. N
    BY DEF N
  <2> HIDE DEF good
  <2>2. \A b \in 0 .. N : pushed[b] \in good[b]
    BY <1>0, <1>2, <1>3, LoopKeeps
  <2> QED BY <2>1, <2>2
<1> QED BY <1>4 DEF pushed, N, Once


\* order lists every node of a tree once, the root first; due[i] are known when i of them
\* were written, and the children of the next one come right behind those.
IsOrder(children, root, order, due) ==
    LET N == Len(children)
    IN  /\ order \in Seq(1 .. N) /\ Len(order) = N /\ order[1] = root
        /\ \A k, l \in 1 .. N : order[k] = order[l] => k = l
        /\ \A n \in 1 .. N : \E k \in 1 .. N : order[k] = n
        /\ due \in [0 .. N -> 1 .. N] /\ due[0] = 1 /\ due[N] = N
        /\ \A i \in 1 .. N : i <= due[i - 1] /\ due[i] = due[i - 1] + Len(children[order[i]])
        /\ \A i \in 1 .. N : \A k \in 1 .. Len(children[order[i]]) :
             due[i - 1] + k \in 1 .. N /\ order[due[i - 1] + k] = children[order[i]][k]

LEMMA BreadthFirstAll ==
    ASSUME NEW children, NEW root, NEW rank, IsTree(children, root, rank)
    PROVE  LET pushed == BreadthFirst(children, root)
           IN  /\ \A i \in 0 .. Len(children) : pushed[i] \in Seq(1 .. Len(children))
               /\ IsOrder(children, root, pushed[Len(children)],
                          [i \in 0 .. Len(children) |-> Len(pushed[i])])
<1> DEFINE N == Len(children)
           pushed == BreadthFirst(children, root)
           Q == Seq(1 .. N)
           order == pushed[N]
           due == [i \in 0 .. N |-> Len(pushed[i])]
<1>0. /\ children \in Seq(Seq(1 .. N)) /\ root \in 1 .. N /\ N \in Nat /\ N \in 0 .. N
      /\ \A n \in 1 .. N : children[n] \in Q /\ Len(children[n]) \in Nat
  <2>1. children \in Seq(Seq(1 .. N)) /\ root \in 1 .. N
    BY DEF IsTree
  <2>2. N \in Nat /\ \A n \in 1 .. N : children[n] \in Q
    BY <2>1
  <2>3. \A n \in 1 .. N : Len(children[n]) \in Nat
    BY <2>2, LenProperties
  <2> QED BY <2>1, <2>2, <2>3
<1>1. /\ pushed \in [0 .. N -> Q] /\ pushed[0] = <<root>>
      /\ \A b \in 1 .. N : pushed[b] = IF b > Len(pushed[b - 1]) THEN pushed[b - 1]
                                       ELSE pushed[b - 1] \o children[pushed[b - 1][b]]
  BY <1>0, BreadthFirstStep
<1>2. ASSUME NEW j \in 0 .. N, NEW i \in 0 .. j
      PROVE  /\ Len(pushed[i]) <= Len(pushed[j])
             /\ \A k \in 1 .. Len(pushed[i]) : pushed[j][k] = pushed[i][k]
             /\ Len(pushed[i]) <= i => pushed[j] = pushed[i]
  <2>1. children \in Seq(Seq(1 .. Len(children))) /\ root \in 1 .. Len(children)
    BY <1>0
  <2>2. Grown(pushed[i], pushed[j], i)
    BY <2>1, BreadthFirstGrows
  <2> QED BY <2>2 DEF Grown
<1>3. /\ Len(order) >= 1 /\ order[1] = root /\ \A k, l \in 1 .. Len(order) : order[k] = order[l] => k = l
  <2>1. ASSUME NEW i \in 0 .. N
        PROVE  /\ Len(pushed[i]) >= 1 /\ pushed[i][1] = root
               /\ \A k, l \in 1 .. Len(pushed[i]) : pushed[i][k] = pushed[i][l] => k = l
    BY BreadthFirstOnce
  <2> QED BY <1>0, <2>1
<1>a. \A m \in 1 .. N : \A j \in 1 .. Len(children[m]) : children[m][j] \in 1 .. N
  <2>1. ASSUME NEW m \in 1 .. N, NEW j \in 1 .. Len(children[m]) PROVE children[m][j] \in 1 .. N
    <3>1. children[m] \in Seq(1 .. N)
      BY <1>0
    <3> QED BY <3>1, ElementOfSeq
  <2> QED BY <2>1
<1>b. \A n \in (1 .. N) \ {root} : \E m \in 1 .. N : \E j \in 1 .. Len(children[m]) :
         children[m][j] = n /\ rank[m] < rank[n]
  BY DEF IsTree
<1>c. rank \in [1 .. N -> Nat]
  BY DEF IsTree
<1> HIDE DEF N, pushed
<1>4. \A i \in 0 .. N : pushed[i] \in Q /\ Len(pushed[i]) \in Nat /\ Len(pushed[i]) <= Len(order)
  <2> TAKE i \in 0 .. N
  <2>1. pushed[i] \in Q
    BY <1>1
  <2>2. Len(pushed[i]) \in Nat
    BY <2>1, LenProperties
  <2>3. N \in 0 .. N /\ i \in 0 .. N
    BY <1>0
  <2> QED BY <1>2, <2>1, <2>2, <2>3
<1>5. order \in Q /\ Len(order) \in Nat /\ \A k \in 1 .. Len(order) : order[k] \in 1 .. N
  <2>1. order \in Q
    BY <1>0, <1>4
  <2>2. Len(order) \in Nat /\ order \in [1 .. Len(order) -> 1 .. N]
    BY <2>1, LenProperties
  <2> QED BY <2>1, <2>2
<1>6. Len(order) <= N
  <2>1. IsFiniteSet(1 .. N) /\ Cardinality(1 .. N) = N
    BY <1>0, CardinalityUpTo
  <2> HIDE DEF order
  <2>2. Len(order) <= Cardinality(1 .. N)
    BY <1>3, <1>5, <2>1, OnceLength
  <2> QED BY <2>1, <2>2
<1>7. ASSUME NEW i \in 1 .. Len(order)
      PROVE  /\ i \in 1 .. N /\ i <= Len(pushed[i - 1])
             /\ Len(pushed[i]) = Len(pushed[i - 1]) + Len(children[order[i]])
             /\ \A k \in 1 .. Len(children[order[i]]) :
                  /\ Len(pushed[i - 1]) + k \in 1 .. Len(order)
                  /\ order[Len(pushed[i - 1]) + k] = children[order[i]][k]
  <2> DEFINE x == pushed[i - 1]
             y == pushed[i]
             c == children[order[i]]
  <2>1. i \in 1 .. N /\ i - 1 \in 0 .. N /\ i \in 0 .. N /\ i - 1 \in Nat /\ N \in 0 .. N
    BY <1>0, <1>5, <1>6
  <2>2. /\ x \in Q /\ y \in Q /\ Len(x) \in Nat /\ Len(y) \in Nat /\ Len(y) <= Len(order)
        /\ c \in Q /\ Len(c) \in Nat
    BY <1>0, <1>4, <1>5, <2>1
  <2>3. i <= Len(x)
    <3>1. SUFFICES ASSUME Len(x) <= i - 1 PROVE FALSE
      BY <2>1, <2>2
    <3>2. order = x
      BY <1>2, <2>1, <3>1
    <3>3. Len(order) <= i - 1
      BY <3>1, <3>2
    <3> QED BY <1>5, <2>1, <3>3
  <2>4. order[i] = x[i] /\ i \in 1 .. Len(x)
    <3>1. i \in 1 .. Len(x)
      BY <2>1, <2>2, <2>3
    <3> QED BY <1>2, <2>1, <3>1
  <2>5. y = x \o c
    <3>1. ~(i > Len(x))
      BY <2>1, <2>2, <2>3
    <3> QED BY <1>1, <2>1, <2>4, <3>1
  <2>6. \A k \in 1 .. Len(y) : order[k] = y[k]
    BY <1>2, <2>1
  <2> HIDE DEF x, y, c, order
  <2>7. /\ Len(y) = Len(x) + Len(c)
        /\ \A k \in 1 .. Len(x) + Len(c) : y[k] = IF k <= Len(x) THEN x[k] ELSE c[k - Len(x)]
    BY <2>2, <2>5, ConcatProperties
  <2>8. ASSUME NEW k \in 1 .. Len(c)
        PROVE  Len(x) + k \in 1 .. Len(order) /\ order[Len(x) + k] = c[k]
    <3> DEFINE m == Len(x) + k
    <3>1. /\ m \in 1 .. Len(y) /\ m \in 1 .. Len(order) /\ m \in 1 .. Len(x) + Len(c)
          /\ ~(m <= Len(x)) /\ m - Len(x) = k
      BY <1>5, <2>2, <2>7
    <3> HIDE DEF m
    <3>2. order[m] = y[m] /\ y[m] = c[m - Len(x)]
      BY <2>6, <2>7, <3>1
    <3> QED BY <3>1, <3>2 DEF m
  <2> QED BY <2>1, <2>3, <2>7, <2>8 DEF x, y, c
<1> DEFINE Found == {order[k] : k \in 1 .. Len(order)}
<1>8. \A n \in 1 .. N : n \in Found
  <2> SUFFICES ASSUME NEW n \in 1 .. N, n \notin Found PROVE FALSE
    OBVIOUS
  <2> DEFINE R == {rank[m] : m \in {m \in 1 .. N : m \notin Found}}
  <2>1. R \subseteq Nat /\ R # {}
    BY <1>c
  <2> HIDE DEF R
  <2>2. PICK r \in R : \A q \in R : r <= q
    BY <2>1, LeastNatural
  <2>3. PICK m \in 1 .. N : m \notin Found /\ rank[m] = r
    BY <2>2 DEF R
  <2>4. m # root
    <3>1. 1 \in 1 .. Len(order)
      BY <1>3, <1>5
    <3> QED BY <1>3, <2>3, <3>1
  <2>5. PICK p \in 1 .. N : \E j \in 1 .. Len(children[p]) : children[p][j] = m /\ rank[p] < rank[m]
    BY <1>b, <2>4
  <2>6. PICK j \in 1 .. Len(children[p]) : children[p][j] = m /\ rank[p] < rank[m]
    BY <2>5
  <2>7. p \in Found
    <3>1. SUFFICES ASSUME p \notin Found PROVE FALSE
      OBVIOUS
    <3>2. rank[p] \in R
      BY <3>1 DEF R
    <3>3. rank[m] <= rank[p] /\ rank[m] \in Nat /\ rank[p] \in Nat
      BY <1>c, <2>2, <2>3, <3>2
    <3> QED BY <2>6, <3>3
  <2>8. PICK k \in 1 .. Len(order) : order[k] = p
    BY <2>7
  <2>9. Len(pushed[k - 1]) + j \in 1 .. Len(order) /\ order[Len(pushed[k - 1]) + j] = m
    BY <1>7, <2>6, <2>8
  <2> QED BY <2>3, <2>9
<1>9. Len(order) = N
  <2> DEFINE n == Len(order)
  <2>1. n \in Nat /\ order \in [1 .. n -> 1 .. N]
    BY <1>5, LenProperties
  <2>2. order \in Bijection(1 .. n, 1 .. N)
    <3>1. \A b \in 1 .. N : \E k \in 1 .. n : order[k] = b
      BY <1>8
    <3>2. \A k, l \in 1 .. n : order[k] = order[l] => k = l
      BY <1>3
    <3> HIDE DEF order, n
    <3> QED BY <2>1, <3>1, <3>2 DEF Bijection, Injection, Surjection, IsInjective
  <2> HIDE DEF n, order
  <2>3. ExistsBijection(1 .. n, 1 .. N)
    BY <2>2 DEF ExistsBijection
  <2>4. /\ IsFiniteSet(1 .. n) /\ Cardinality(1 .. n) = n
        /\ IsFiniteSet(1 .. N) /\ Cardinality(1 .. N) = N
    BY <1>0, <2>1, CardinalityUpTo
  <2>a. \A S, T : IsFiniteSet(S) /\ ExistsBijection(S, T) =>
                    IsFiniteSet(T) /\ Cardinality(T) = Cardinality(S)
    BY FS_Bijection
  <2>5. n = N
    BY <2>3, <2>4, <2>a
  <2> QED BY <2>5 DEF n
<1>10. IsOrder(children, root, order, due)
  <2>1. \A i \in 0 .. N : due[i] = Len(pushed[i]) /\ Len(pushed[i]) \in 1 .. N
    <3> TAKE i \in 0 .. N
    <3>1. Len(pushed[i]) \in Nat /\ Len(pushed[i]) <= N
      BY <1>4, <1>9
    <3>2. Len(pushed[0]) = 1
      BY <1>1
    <3>3. 0 \in 0 .. i /\ i \in 0 .. N
      BY <1>0
    <3>4. Len(pushed[0]) <= Len(pushed[i])
      BY <1>2, <3>3
    <3> QED BY <1>0, <3>1, <3>2, <3>4
  <2>2. due \in [0 .. N -> 1 .. N]
    BY <2>1
  <2>3. due[0] = 1
    <3>1. 0 \in 0 .. N
      BY <1>0
    <3>2. due[0] = Len(pushed[0])
      BY <2>1, <3>1
    <3> QED BY <1>1, <3>2
  <2>4. due[N] = N
    BY <1>0, <1>9, <2>1
  <2>5. \A k \in 1 .. N : k \in 0 .. N /\ k - 1 \in 0 .. N
    BY <1>0
  <2> HIDE DEF due, order
  <2>6. \A i \in 1 .. N : i <= due[i - 1] /\ due[i] = due[i - 1] + Len(children[order[i]])
    BY <1>7, <1>9, <2>1, <2>5
  <2>7. ASSUME NEW i \in 1 .. N, NEW k \in 1 .. Len(children[order[i]])
        PROVE  due[i - 1] + k \in 1 .. N /\ order[due[i - 1] + k] = children[order[i]][k]
    <3>1. due[i - 1] = Len(pushed[i - 1]) /\ i \in 1 .. Len(order)
      BY <1>9, <2>1, <2>5
    <3>2. /\ Len(pushed[i - 1]) + k \in 1 .. Len(order)
          /\ order[Len(pushed[i - 1]) + k] = children[order[i]][k]
      BY <1>7, <3>1
    <3> QED BY <1>9, <3>1, <3>2
  <2>8. \A n \in 1 .. N : \E k \in 1 .. N : order[k] = n
    BY <1>8, <1>9
  <2> QED BY <1>3, <1>5, <1>9, <2>2, <2>3, <2>4, <2>6, <2>7, <2>8 DEF IsOrder, N
<1> QED BY <1>4, <1>10 DEF N, pushed

-----------------------------------------------------------------------------
(* The digits of a key *)

LEMMA Division ==
    ASSUME NEW d \in Nat, d > 0
    PROVE  /\ \A a \in Nat : a \div d \in Nat /\ a % d \in 0 .. d - 1 /\ a = (a \div d) * d + (a % d)
           /\ \A a \in Nat : \A p \in 0 .. d - 1 :
                a * d + p \in Nat /\ (a * d + p) \div d = a /\ (a * d + p) % d = p
<1>1. ASSUME NEW a \in Nat
      PROVE  a \div d \in Nat /\ a % d \in 0 .. d - 1 /\ a = (a \div d) * d + (a % d)
  <2>1. a \div d \in Nat
    OBVIOUS
  <2>2. a % d \in 0 .. d - 1
    OBVIOUS
  <2>3. a = d * (a \div d) + (a % d)
    OBVIOUS
  <2>4. d * (a \div d) = (a \div d) * d
    BY <2>1
  <2> QED BY <2>1, <2>2, <2>3, <2>4
<1>2. ASSUME NEW a \in Nat, NEW p \in 0 .. d - 1
      PROVE  a * d + p \in Nat /\ (a * d + p) \div d = a /\ (a * d + p) % d = p
  <2> DEFINE k == a * d + p
             q == k \div d
             r == k % d
  <2>1. k \in Nat
    OBVIOUS
  <2>2. q \in Nat /\ r \in 0 .. d - 1 /\ k = q * d + r
    BY <1>1, <2>1
  <2>3. q * d + r = a * d + p
    BY <2>2
  <2> HIDE DEF q, r
  <2>4. ~(q < a)
    <3>1. ASSUME q < a PROVE FALSE
      <4>1. (q + 1) * d <= a * d
        BY <2>2, <3>1
      <4>2. (q + 1) * d = q * d + d
        BY <2>2
      <4> QED BY <2>2, <2>3, <4>1, <4>2
    <3> QED BY <3>1
  <2>5. ~(a < q)
    <3>1. ASSUME a < q PROVE FALSE
      <4>1. (a + 1) * d <= q * d
        BY <2>2, <3>1
      <4>2. (a + 1) * d = a * d + d
        OBVIOUS
      <4> QED BY <2>2, <2>3, <4>1, <4>2
    <3> QED BY <3>1
  <2>6. q = a
    BY <2>2, <2>4, <2>5
  <2>7. r = p
    BY <2>2, <2>3, <2>6
  <2> QED BY <2>1, <2>6, <2>7 DEF q, r
<1> QED BY <1>1, <1>2

\* A key is its first digits with the others behind them.
LEMMA Digits ==
    ASSUME NEW key \in Nat
    PROVE  /\ \A i \in 0 .. Depth : Prefix(key, i) \in Nat
           /\ Prefix(key, Depth) = key
           /\ \A i \in 1 .. Depth : /\ Digit(key, i) \in 0 .. TriePerNode - 1
                                    /\ Prefix(key, i) = Prefix(key, i - 1) * TriePerNode + Digit(key, i)
<1> DEFINE N == Depth
           U == Nat
           start == key
           Turn(i, x) == x \div TriePerNode
           Solves(f) == f = [i \in 0 .. N |-> IF i = 0 THEN start ELSE Turn(i, f[i - 1])]
           shifted == CHOOSE f : Solves(f)
<1>0. N \in Nat /\ TriePerNode \in Nat /\ TriePerNode > 0
  BY DepthAssumption, TriePerNodeAssumption
<1>1. N \in Nat /\ start \in U
  BY <1>0
<1>2. ASSUME NEW i \in 1 .. N, NEW x \in U
      PROVE  Turn(i, x) \in U
  BY <1>0, Division
<1> HIDE DEF N, U, start, Turn
<1>3. \E f : Solves(f)
  <2> DEFINE good == [i \in 0 .. N |-> U]
             step == [i \in 1 .. N |-> [x \in good[i - 1] |-> Turn(i, x)]]
  <2>1. good \in [0 .. N -> SUBSET U] /\ start \in good[0]
    BY <1>1
  <2>2. ASSUME NEW i \in 1 .. N, NEW x \in good[i - 1]
        PROVE  step[i][x] = Turn(i, x) /\ Turn(i, x) \in good[i]
    <3>1. i \in 0 .. N /\ i - 1 \in 0 .. N
      BY <1>1
    <3>2. x \in U
      BY <3>1
    <3>3. Turn(i, x) \in U
      BY <1>2, <3>2
    <3> QED BY <3>1, <3>3
  <2> HIDE DEF good, step
  <2>3. PICK f : Runs(f, N, U, good, start, step)
    <3>1. Loop(N, U, good, start, step)
      BY <1>1, <2>1, <2>2 DEF Loop
    <3> QED BY <3>1, LoopSolved
  <2>4. ASSUME NEW i \in 0 .. N
        PROVE  f[i] = IF i = 0 THEN start ELSE Turn(i, f[i - 1])
    <3>1. CASE i = 0
      BY <2>3, <3>1 DEF Runs
    <3>2. CASE i # 0
      <4>1. i \in 1 .. N
        BY <1>1, <3>2
      <4> QED BY <2>2, <2>3, <3>2, <4>1 DEF Runs
    <3> QED BY <3>1, <3>2
  <2>5. f = [i \in 0 .. N |-> f[i]]
    BY <2>3 DEF Runs
  <2>6. Solves(f)
    BY <2>4, <2>5
  <2> QED BY <2>6
<1>4. Solves(shifted)
  BY <1>3
<1> HIDE DEF shifted
<1>5. shifted[0] = start /\ \A i \in 1 .. N : shifted[i] = Turn(i, shifted[i - 1])
  BY <1>1, <1>4
<1>6. \A i \in 0 .. N : shifted[i] \in U
  <2> DEFINE good == [i \in 0 .. N |-> U]
  <2>1. shifted[0] \in good[0]
    BY <1>1, <1>5
  <2>2. ASSUME NEW i \in 1 .. N, shifted[i - 1] \in good[i - 1] PROVE shifted[i] \in good[i]
    <3>1. i \in 0 .. N /\ i - 1 \in 0 .. N
      BY <1>1
    <3>2. shifted[i - 1] \in U
      BY <2>2, <3>1
    <3>3. shifted[i] \in U
      BY <1>2, <1>5, <3>2
    <3> QED BY <3>1, <3>3
  <2>3. \A i \in 0 .. N : shifted[i] \in good[i]
    <3> HIDE DEF good
    <3> QED BY <1>1, <2>1, <2>2, LoopKeeps
  <2> QED BY <2>3
<1>7. \A i \in 0 .. N : Prefix(key, i) = shifted[N - i]
  BY DEF Prefix, shifted, Turn, N, start
<1>8. \A i \in 0 .. N : N - i \in 0 .. N
  BY <1>1
<1>9. N - N = 0
  BY <1>1
<1>10. ASSUME NEW i \in 1 .. N
       PROVE  /\ Digit(key, i) \in 0 .. TriePerNode - 1
              /\ Prefix(key, i) = Prefix(key, i - 1) * TriePerNode + Digit(key, i)
  <2>1. i \in 0 .. N /\ i - 1 \in 0 .. N /\ N - (i - 1) \in 1 .. N /\ N - (i - 1) - 1 = N - i
    BY <1>1
  <2>2. Prefix(key, i - 1) = Prefix(key, i) \div TriePerNode
    <3>1. Prefix(key, i - 1) = shifted[N - (i - 1)] /\ Prefix(key, i) = shifted[N - i]
      BY <1>7, <2>1
    <3>2. shifted[N - (i - 1)] = shifted[N - i] \div TriePerNode
      BY <1>5, <2>1 DEF Turn
    <3> QED BY <3>1, <3>2
  <2>3. Prefix(key, i) \in Nat
    BY <1>6, <1>7, <1>8, <2>1 DEF U
  <2> QED BY <1>0, <2>2, <2>3, Division DEF Digit
<1>11. \A i \in 0 .. N : Prefix(key, i) \in Nat
  BY <1>6, <1>7, <1>8 DEF U
<1>12. Prefix(key, N) = key
  <2>1. N \in 0 .. N
    BY <1>1
  <2> QED BY <1>5, <1>7, <1>9, <2>1 DEF start
<1> QED BY <1>10, <1>11, <1>12 DEF N

-----------------------------------------------------------------------------
(* The shape of a trie *)

\* The words of a bitmap have a bit for every position.
Bits == WordBits * ((TriePerNode + WordBits - 1) \div WordBits)

LEMMA NewBitmapIs ==
    /\ Bits \in Nat /\ TriePerNode <= Bits
    /\ NewBitmap(TriePerNode) \in Seq({0, 1}) /\ Len(NewBitmap(TriePerNode)) = Bits
    /\ Ones(NewBitmap(TriePerNode)) = {}
<1> DEFINE q == (TriePerNode + WordBits - 1) \div WordBits
<1>1. TriePerNode \in Nat /\ WordBits \in Nat /\ WordBits > 0
  BY TriePerNodeAssumption, WordBitsAssumption
<1>2. q \in Nat /\ TriePerNode <= WordBits * q
  <2> DEFINE a == TriePerNode + WordBits - 1
  <2>1. a \in Nat /\ a \div WordBits \in Nat /\ a % WordBits \in 0 .. WordBits - 1
        /\ a = (a \div WordBits) * WordBits + (a % WordBits)
    BY <1>1, Division
  <2>2. WordBits * q = q * WordBits
    BY <1>1, <2>1
  <2> QED BY <1>1, <2>1, <2>2
<1>3. Bits = WordBits * q /\ Bits \in Nat
  BY <1>1, <1>2 DEF Bits
<1> HIDE DEF q
<1>4. NewBitmap(TriePerNode) = [i \in 1 .. Bits |-> 0]
  BY DEF NewBitmap, Bits
<1>5. /\ NewBitmap(TriePerNode) \in Seq({0, 1}) /\ Len(NewBitmap(TriePerNode)) = Bits
      /\ \A i \in 1 .. Bits : NewBitmap(TriePerNode)[i] = 0
  BY <1>3, <1>4
<1>6. Ones(NewBitmap(TriePerNode)) = {}
  <2>1. \A p \in 0 .. Bits - 1 : p + 1 \in 1 .. Bits
    BY <1>3
  <2> QED BY <1>5, <2>1 DEF Ones
<1> QED BY <1>2, <1>3, <1>5, <1>6

Positions == 0 .. TriePerNode - 1
TrieNode == [isLeaf : BOOLEAN, elemCount : Nat, bitmap : Seq({0, 1}),
             ptr : UNION {[I -> Nat \cup Seq(Nat)] : I \in SUBSET Positions}]

\* The bitmap says which positions are taken, and elemCount how many.
NodeOK(node) ==
    /\ node \in TrieNode
    /\ Len(node.bitmap) = Bits /\ Ones(node.bitmap) = DOMAIN node.ptr
    /\ node.elemCount = Cardinality(DOMAIN node.ptr)

\* lv is the level of every node and pf the digits on the way to it: a child has those
\* of its parent and its own position behind them, and no two nodes have the same.
NodesOK(node, lv, pf) ==
    LET Nodes == 1 .. Len(node)
    IN  /\ node \in Seq(TrieNode) /\ 1 \in Nodes
        /\ lv \in [Nodes -> 0 .. Depth - 1] /\ pf \in [Nodes -> Nat]
        /\ lv[1] = 0 /\ pf[1] = 0
        /\ \A n \in Nodes : NodeOK(node[n]) /\ node[n].isLeaf = (lv[n] = Depth - 1)
        /\ \A n \in Nodes : lv[n] = Depth - 1 =>
             \A p \in DOMAIN node[n].ptr : node[n].ptr[p] \in Seq(Nat)
        /\ \A n \in Nodes : lv[n] # Depth - 1 =>
             \A p \in DOMAIN node[n].ptr :
               /\ node[n].ptr[p] \in Nodes
               /\ lv[node[n].ptr[p]] = lv[n] + 1
               /\ pf[node[n].ptr[p]] = pf[n] * TriePerNode + p
        /\ \A m, n \in Nodes : lv[m] = lv[n] /\ pf[m] = pf[n] => m = n
        /\ \A n \in Nodes \ {1} : \E m \in Nodes : \E p \in DOMAIN node[m].ptr :
             lv[m] # Depth - 1 /\ node[m].ptr[p] = n

TrieOK(t, lv, pf) ==
    /\ t \in [node : Seq(TrieNode), nodeCount : Nat] /\ t.nodeCount = Len(t.node)
    /\ NodesOK(t.node, lv, pf)

LEMMA NewNodeOK ==
    ASSUME NEW isLeaf \in BOOLEAN
    PROVE  NodeOK(NewNode(isLeaf)) /\ NewNode(isLeaf).isLeaf = isLeaf /\ DOMAIN NewNode(isLeaf).ptr = {}
<1> DEFINE b == NewBitmap(TriePerNode)
           node == NewNode(isLeaf)
<1>1. b \in Seq({0, 1}) /\ Len(b) = Bits /\ Ones(b) = {}
  BY NewBitmapIs
<1> HIDE DEF b
<1>2. node = [isLeaf |-> isLeaf, elemCount |-> 0, bitmap |-> b, ptr |-> <<>>]
  BY DEF NewNode, b
<1> HIDE DEF node
<1>3. DOMAIN node.ptr = {} /\ node.elemCount = 0 /\ node.bitmap = b /\ node.isLeaf = isLeaf
  BY <1>2
<1>4. <<>> \in [{} -> Nat \cup Seq(Nat)] /\ {} \in SUBSET Positions
  OBVIOUS
<1>5. node \in TrieNode
  BY <1>1, <1>2, <1>4 DEF TrieNode
<1>6. Cardinality({}) = 0
  BY FS_EmptySet
<1> QED BY <1>1, <1>3, <1>5, <1>6 DEF NodeOK, node

\* A position of a node that was free points to something now.
LEMMA SetPointerOK ==
    ASSUME NEW node, NodeOK(node), NEW pos \in Positions, pos \notin DOMAIN node.ptr,
           NEW target \in Nat \cup Seq(Nat)
    PROVE  LET new == SetPointer(node, pos, target)
           IN  /\ NodeOK(new) /\ new.isLeaf = node.isLeaf
               /\ DOMAIN new.ptr = DOMAIN node.ptr \cup {pos}
               /\ new.ptr[pos] = target
               /\ \A p \in DOMAIN node.ptr : new.ptr[p] = node.ptr[p]
<1> DEFINE new == SetPointer(node, pos, target)
           D == DOMAIN node.ptr
           b == node.bitmap
           c == SetBit(b, pos)
           f == [p \in D \cup {pos} |-> IF p = pos THEN target ELSE node.ptr[p]]
<1>1. /\ node \in TrieNode /\ Len(b) = Bits /\ Ones(b) = D /\ node.elemCount = Cardinality(D)
      /\ b \in Seq({0, 1}) /\ node.elemCount \in Nat
  BY DEF NodeOK, TrieNode
<1>2. D \in SUBSET Positions /\ node.ptr \in [D -> Nat \cup Seq(Nat)]
  BY DEF NodeOK, TrieNode
<1>3. new = [node EXCEPT !.elemCount = node.elemCount + 1, !.bitmap = c, !.ptr = f]
  BY DEF SetPointer
<1>4. /\ new.isLeaf = node.isLeaf /\ new.elemCount = node.elemCount + 1 /\ new.bitmap = c /\ new.ptr = f
      /\ new = [isLeaf |-> node.isLeaf, elemCount |-> node.elemCount + 1, bitmap |-> c, ptr |-> f]
      /\ node.isLeaf \in BOOLEAN
  BY <1>1, <1>3 DEF TrieNode
<1>5. Bits \in Nat /\ TriePerNode <= Bits /\ TriePerNode \in Nat
  BY NewBitmapIs, TriePerNodeAssumption
<1>6. /\ c \in Seq({0, 1}) /\ Len(c) = Bits
      /\ \A i \in 1 .. Bits : c[i] = IF i = pos + 1 THEN 1 ELSE b[i]
  <2>1. DOMAIN b = 1 .. Bits /\ \A i \in 1 .. Bits : b[i] \in {0, 1}
    BY <1>1
  <2>2. c = [i \in 1 .. Bits |-> IF i = pos + 1 THEN 1 ELSE b[i]]
    BY <2>1 DEF SetBit
  <2> HIDE DEF c
  <2> QED BY <1>5, <2>1, <2>2
<1>7. f \in [D \cup {pos} -> Nat \cup Seq(Nat)] /\ D \cup {pos} \in SUBSET Positions
  BY <1>2
<1> HIDE DEF new, f, c
<1>8. Ones(c) = D \cup {pos}
  <2>1. pos \in Nat /\ pos + 1 \in 1 .. Bits /\ pos \in 0 .. Bits - 1
    BY <1>5 DEF Positions
  <2>2. ASSUME NEW p \in 0 .. Bits - 1 PROVE c[p + 1] = 1 <=> p = pos \/ b[p + 1] = 1
    <3>1. p + 1 \in 1 .. Bits /\ (p + 1 = pos + 1 <=> p = pos)
      BY <1>5, <2>1
    <3> QED BY <1>6, <3>1
  <2>3. D = {p \in 0 .. Bits - 1 : b[p + 1] = 1}
    BY <1>1 DEF Ones
  <2>4. Ones(c) = {p \in 0 .. Bits - 1 : c[p + 1] = 1}
    BY <1>6 DEF Ones
  <2> HIDE DEF D, b
  <2> QED BY <2>1, <2>2, <2>3, <2>4
<1>9. Cardinality(D \cup {pos}) = Cardinality(D) + 1
  <2>1. IsFiniteSet(D)
    BY <1>1, OnePositionsAre
  <2> HIDE DEF D
  <2>2. pos \notin D
    BY DEF D
  <2> QED BY <2>1, <2>2, FS_AddElement
<1>10. new \in TrieNode
  <2>1. f \in UNION {[I -> Nat \cup Seq(Nat)] : I \in SUBSET Positions}
    BY <1>7
  <2>2. node.elemCount + 1 \in Nat
    BY <1>1
  <2> QED BY <1>4, <1>6, <2>1, <2>2 DEF TrieNode
<1>11. DOMAIN new.ptr = D \cup {pos} /\ new.ptr[pos] = target /\ \A p \in D : new.ptr[p] = node.ptr[p]
  BY <1>4 DEF f
<1>12. NodeOK(new)
  BY <1>1, <1>4, <1>6, <1>8, <1>9, <1>10, <1>11 DEF NodeOK
<1> QED BY <1>4, <1>11, <1>12 DEF new, D


LEMMA TrieDivision ==
    \A a \in Nat : \A p \in Positions :
      (a * TriePerNode + p) \div TriePerNode = a /\ (a * TriePerNode + p) % TriePerNode = p
<1>1. TriePerNode \in Nat /\ TriePerNode > 0
  BY TriePerNodeAssumption
<1> HIDE DEF Positions
<1>2. \A a \in Nat : \A p \in 0 .. TriePerNode - 1 :
        (a * TriePerNode + p) \div TriePerNode = a /\ (a * TriePerNode + p) % TriePerNode = p
  BY <1>1, Division
<1> QED BY <1>2 DEF Positions

\* Every node but the root is where its digits lead to.
LEMMA ParentOf ==
    ASSUME NEW t, NEW lv, NEW pf, TrieOK(t, lv, pf), NEW m \in 1 .. Len(t.node), m # 1
    PROVE  \E n \in 1 .. Len(t.node) : \E p \in DOMAIN t.node[n].ptr :
             /\ p \in Positions /\ lv[n] # Depth - 1 /\ t.node[n].ptr[p] = m
             /\ lv[m] = lv[n] + 1 /\ pf[n] = pf[m] \div TriePerNode /\ p = pf[m] % TriePerNode
<1>1. PICK n \in 1 .. Len(t.node) : \E p \in DOMAIN t.node[n].ptr :
        lv[n] # Depth - 1 /\ t.node[n].ptr[p] = m
  BY DEF TrieOK, NodesOK
<1>2. PICK p \in DOMAIN t.node[n].ptr : lv[n] # Depth - 1 /\ t.node[n].ptr[p] = m
  BY <1>1
<1>3. lv[m] = lv[n] + 1 /\ pf[m] = pf[n] * TriePerNode + p /\ pf[n] \in Nat /\ NodeOK(t.node[n])
  BY <1>2 DEF TrieOK, NodesOK
<1>4. p \in Positions
  BY <1>2, <1>3 DEF NodeOK, TrieNode
<1>5. pf[m] \div TriePerNode = pf[n] /\ pf[m] % TriePerNode = p
  BY <1>3, <1>4, TrieDivision
<1> QED BY <1>2, <1>3, <1>4, <1>5

\* The last digit of some first digits, and those before it.
LEMMA LastDigit ==
    ASSUME NEW key \in Nat, NEW i \in 1 .. Depth
    PROVE  /\ Prefix(key, i) \div TriePerNode = Prefix(key, i - 1)
           /\ Prefix(key, i) % TriePerNode = Digit(key, i)
           /\ Digit(key, i) \in Positions
<1>1. TriePerNode \in Nat /\ TriePerNode > 0 /\ Depth \in Nat /\ i - 1 \in 0 .. Depth
  BY TriePerNodeAssumption, DepthAssumption
<1>2. /\ Digit(key, i) \in 0 .. TriePerNode - 1 /\ Prefix(key, i - 1) \in Nat
      /\ Prefix(key, i) = Prefix(key, i - 1) * TriePerNode + Digit(key, i)
  BY <1>1, Digits
<1> QED BY <1>2, TrieDivision DEF Positions

IsKey(k) == k \in Nat /\ Prefix(k, 0) = 0

\* The leaf of a key, if it has a list there, and the list.
LeavesOf(t, lv, pf, k) ==
    {n \in 1 .. Len(t.node) : /\ lv[n] = Depth - 1 /\ pf[n] = Prefix(k, Depth - 1)
                              /\ Digit(k, Depth) \in DOMAIN t.node[n].ptr}
Filed(t, lv, pf, k) ==
    IF LeavesOf(t, lv, pf, k) = {} THEN <<>>
    ELSE t.node[CHOOSE n \in LeavesOf(t, lv, pf, k) : TRUE].ptr[Digit(k, Depth)]

LEMMA TrieListIs ==
    ASSUME NEW t, NEW lv, NEW pf, TrieOK(t, lv, pf), NEW k, IsKey(k)
    PROVE  TrieList(t, k) = Filed(t, lv, pf, k)
<1> DEFINE N == Depth - 1
           U == SUBSET (1 .. Len(t.node))
           start == {Root}
           Turn(i, x) == {t.node[n].ptr[Digit(k, i)] : n \in {m \in x : Digit(k, i) \in DOMAIN t.node[m].ptr}}
           Good(i, x) ==
             x = {n \in 1 .. Len(t.node) : lv[n] = i /\ pf[n] = Prefix(k, i)}
           Solves(f) == f = [i \in 0 .. N |-> IF i = 0 THEN start ELSE Turn(i, f[i - 1])]
           at == CHOOSE f : Solves(f)
<1> DEFINE Nodes == 1 .. Len(t.node)
<1>0. /\ N \in Nat /\ N + 1 = Depth /\ Depth \in Nat /\ 1 \in Nodes /\ Len(t.node) \in Nat
      /\ lv \in [Nodes -> 0 .. N] /\ pf \in [Nodes -> Nat] /\ lv[1] = 0 /\ pf[1] = 0
      /\ k \in Nat /\ Prefix(k, 0) = 0
  BY DepthAssumption DEF TrieOK, NodesOK, IsKey
<1>a. \A m, n \in Nodes : lv[m] = lv[n] /\ pf[m] = pf[n] => m = n
  BY DEF TrieOK, NodesOK
<1>b. \A n \in Nodes : lv[n] # N => \A p \in DOMAIN t.node[n].ptr :
        /\ t.node[n].ptr[p] \in Nodes
        /\ lv[t.node[n].ptr[p]] = lv[n] + 1
        /\ pf[t.node[n].ptr[p]] = pf[n] * TriePerNode + p
  BY DEF TrieOK, NodesOK
<1>c. \A m \in Nodes : m # 1 => \E n \in Nodes : \E p \in DOMAIN t.node[n].ptr :
        /\ lv[n] # N /\ t.node[n].ptr[p] = m
        /\ lv[m] = lv[n] + 1 /\ pf[n] = pf[m] \div TriePerNode /\ p = pf[m] % TriePerNode
  BY ParentOf
<1>1. N \in Nat /\ start \in U /\ Good(0, start)
  BY <1>0, <1>a DEF Root
<1>2. ASSUME NEW i \in 1 .. N, NEW x \in U, Good(i - 1, x)
      PROVE  Turn(i, x) \in U /\ Good(i, Turn(i, x))
  <2> DEFINE d == Digit(k, i)
  <2>0. /\ i \in 1 .. Depth /\ i - 1 \in 0 .. Depth /\ i \in Int /\ i - 1 # N
        /\ x = {n \in Nodes : lv[n] = i - 1 /\ pf[n] = Prefix(k, i - 1)}
    BY <1>0, <1>2
  <2>1. /\ Prefix(k, i) = Prefix(k, i - 1) * TriePerNode + d
        /\ Prefix(k, i) \div TriePerNode = Prefix(k, i - 1) /\ Prefix(k, i) % TriePerNode = d
    BY <1>0, <2>0, Digits, LastDigit
  <2> HIDE DEF d, Nodes, N
  <2>2. ASSUME NEW n \in x, d \in DOMAIN t.node[n].ptr
        PROVE  t.node[n].ptr[d] \in {m \in Nodes : lv[m] = i /\ pf[m] = Prefix(k, i)}
    <3>1. n \in Nodes /\ lv[n] = i - 1 /\ pf[n] = Prefix(k, i - 1) /\ lv[n] # N
      BY <2>0
    <3>2. /\ t.node[n].ptr[d] \in Nodes /\ lv[t.node[n].ptr[d]] = i - 1 + 1
          /\ pf[t.node[n].ptr[d]] = Prefix(k, i - 1) * TriePerNode + d
      BY <1>b, <2>2, <3>1
    <3> QED BY <2>0, <2>1, <3>2
  <2>3. ASSUME NEW m \in Nodes, lv[m] = i, pf[m] = Prefix(k, i)
        PROVE  \E n \in x : d \in DOMAIN t.node[n].ptr /\ t.node[n].ptr[d] = m
    <3>1. m # 1
      BY <1>0, <2>0, <2>3
    <3>2. PICK n \in Nodes : \E p \in DOMAIN t.node[n].ptr :
            /\ t.node[n].ptr[p] = m
            /\ lv[m] = lv[n] + 1 /\ pf[n] = pf[m] \div TriePerNode /\ p = pf[m] % TriePerNode
      BY <1>c, <3>1
    <3>3. lv[n] \in Int /\ i = lv[n] + 1
      BY <1>0, <2>3, <3>2
    <3>4. lv[n] = i - 1
      BY <2>0, <3>3
    <3>5. n \in x
      BY <2>0, <2>1, <2>3, <3>2, <3>4
    <3> QED BY <2>1, <2>3, <3>2, <3>5
  <2>4. Turn(i, x) = {m \in Nodes : lv[m] = i /\ pf[m] = Prefix(k, i)}
    <3>1. Turn(i, x) = {t.node[n].ptr[d] : n \in {m \in x : d \in DOMAIN t.node[m].ptr}}
      BY DEF d
    <3> HIDE DEF Turn
    <3> QED BY <2>2, <2>3, <3>1
  <2> HIDE DEF Turn
  <2> QED BY <2>4 DEF Nodes
<1> HIDE DEF N, U, start, Good, Turn, Nodes
<1>3. \E f : Solves(f)
  <2> DEFINE good == [i \in 0 .. N |-> {x \in U : Good(i, x)}]
             step == [i \in 1 .. N |-> [x \in good[i - 1] |-> Turn(i, x)]]
  <2>1. good \in [0 .. N -> SUBSET U] /\ start \in good[0]
    BY <1>1
  <2>2. ASSUME NEW i \in 1 .. N, NEW x \in good[i - 1]
        PROVE  step[i][x] = Turn(i, x) /\ Turn(i, x) \in good[i]
    <3>1. i \in 0 .. N /\ i - 1 \in 0 .. N
      BY <1>1
    <3>2. x \in U /\ Good(i - 1, x)
      BY <3>1
    <3>3. Turn(i, x) \in U /\ Good(i, Turn(i, x))
      BY <1>2, <3>2
    <3> QED BY <3>1, <3>3
  <2> HIDE DEF good, step
  <2>3. PICK f : Runs(f, N, U, good, start, step)
    <3>1. Loop(N, U, good, start, step)
      BY <1>1, <2>1, <2>2 DEF Loop
    <3> QED BY <3>1, LoopSolved
  <2>4. ASSUME NEW i \in 0 .. N
        PROVE  f[i] = IF i = 0 THEN start ELSE Turn(i, f[i - 1])
    <3>1. CASE i = 0
      BY <2>3, <3>1 DEF Runs
    <3>2. CASE i # 0
      <4>1. i \in 1 .. N
        BY <1>1, <3>2
      <4> QED BY <2>2, <2>3, <3>2, <4>1 DEF Runs
    <3> QED BY <3>1, <3>2
  <2>5. f = [i \in 0 .. N |-> f[i]]
    BY <2>3 DEF Runs
  <2>6. Solves(f)
    BY <2>4, <2>5
  <2> QED BY <2>6
<1>4. Solves(at)
  BY <1>3
<1> HIDE DEF at
<1>5. at[0] = start /\ \A i \in 1 .. N : at[i] = Turn(i, at[i - 1])
  BY <1>1, <1>4
<1>6. \A i \in 0 .. N : at[i] \in U /\ Good(i, at[i])
  <2> DEFINE good == [i \in 0 .. N |-> {x \in U : Good(i, x)}]
  <2>1. at[0] \in good[0]
    BY <1>1, <1>5
  <2>2. ASSUME NEW i \in 1 .. N, at[i - 1] \in good[i - 1] PROVE at[i] \in good[i]
    <3>1. i \in 0 .. N /\ i - 1 \in 0 .. N
      BY <1>1
    <3>2. at[i - 1] \in U /\ Good(i - 1, at[i - 1])
      BY <2>2, <3>1
    <3>3. at[i] \in U /\ Good(i, at[i])
      BY <1>2, <1>5, <3>2
    <3> QED BY <3>1, <3>3
  <2>3. \A i \in 0 .. N : at[i] \in good[i]
    <3> HIDE DEF good
    <3> QED BY <1>1, <2>1, <2>2, LoopKeeps
  <2> QED BY <2>3
<1>7. at[N] = {n \in Nodes : lv[n] = N /\ pf[n] = Prefix(k, N)}
  <2>1. N \in 0 .. N
    BY <1>1
  <2> QED BY <1>6, <2>1 DEF Good, Nodes
<1>8. {n \in at[N] : Digit(k, Depth) \in DOMAIN t.node[n].ptr} = LeavesOf(t, lv, pf, k)
  BY <1>7 DEF LeavesOf, N, Nodes
<1>9. TrieList(t, k) = LET leaves == {n \in at[N] : Digit(k, Depth) \in DOMAIN t.node[n].ptr}
                       IN  IF leaves = {} THEN <<>>
                           ELSE t.node[CHOOSE n \in leaves : TRUE].ptr[Digit(k, Depth)]
  BY DEF TrieList, at, Turn, N, start
<1> QED BY <1>8, <1>9 DEF Filed

\* What a trie has filed under a key, seen from the leaf of the key.
LEMMA FiledAt ==
    ASSUME NEW t, NEW lv, NEW pf, TrieOK(t, lv, pf), NEW k, IsKey(k),
           NEW n \in 1 .. Len(t.node), lv[n] = Depth - 1, pf[n] = Prefix(k, Depth - 1)
    PROVE  TrieList(t, k) = IF Digit(k, Depth) \in DOMAIN t.node[n].ptr
                            THEN t.node[n].ptr[Digit(k, Depth)] ELSE <<>>
<1>1. \A m \in 1 .. Len(t.node) : lv[m] = lv[n] /\ pf[m] = pf[n] => m = n
  BY DEF TrieOK, NodesOK
<1>2. LeavesOf(t, lv, pf, k) = IF Digit(k, Depth) \in DOMAIN t.node[n].ptr THEN {n} ELSE {}
  BY <1>1 DEF LeavesOf
<1>3. (CHOOSE m \in {n} : TRUE) = n
  OBVIOUS
<1> QED BY <1>2, <1>3, TrieListIs DEF Filed

LEMMA FiledNone ==
    ASSUME NEW t, NEW lv, NEW pf, TrieOK(t, lv, pf), NEW k, IsKey(k),
           ~ \E n \in 1 .. Len(t.node) : lv[n] = Depth - 1 /\ pf[n] = Prefix(k, Depth - 1)
    PROVE  TrieList(t, k) = <<>>
<1>1. LeavesOf(t, lv, pf, k) = {}
  BY DEF LeavesOf
<1> QED BY <1>1, TrieListIs DEF Filed

LEMMA ReplaceAndAppend ==
    ASSUME NEW S, NEW s \in Seq(S), NEW c \in 1 .. Len(s), NEW x \in S, NEW y \in S,
           NEW r, r = Append([s EXCEPT ![c] = x], y)
    PROVE  /\ r \in Seq(S) /\ Len(r) = Len(s) + 1
           /\ r[Len(s) + 1] = y /\ r[c] = x
           /\ \A j \in 1 .. Len(s) : j # c => r[j] = s[j]
<1> DEFINE q == [s EXCEPT ![c] = x]
<1>1. /\ q \in Seq(S) /\ Len(q) = Len(s) /\ Len(s) \in Nat /\ q[c] = x
      /\ \A j \in 1 .. Len(s) : j # c => q[j] = s[j]
  BY LenProperties
<1> HIDE DEF q
<1>2. /\ r \in Seq(S) /\ Len(r) = Len(s) + 1 /\ r[Len(s) + 1] = y
      /\ \A j \in 1 .. Len(s) : r[j] = q[j]
  BY <1>1, AppendProperties
<1> QED BY <1>1, <1>2 DEF q

\* addItem is at node cur of the trie after i turns, and no entry got lost or moved.
ArrivedAt(t, key, i, at) ==
    /\ at \in [trie : [node : Seq(TrieNode), nodeCount : Nat], cur : Nat]
    /\ \E lv, pf :
      /\ TrieOK(at.trie, lv, pf) /\ at.cur \in 1 .. Len(at.trie.node)
      /\ lv[at.cur] = i /\ pf[at.cur] = Prefix(key, i)
      /\ \A k : IsKey(k) => TrieList(at.trie, k) = TrieList(t, k)

LEMMA DescendOK ==
    ASSUME NEW t, NEW key, IsKey(key), NEW i \in 1 .. Depth - 1,
           NEW at, ArrivedAt(t, key, i - 1, at)
    PROVE  ArrivedAt(t, key, i, Descend(at, i, Digit(key, i)))
<1> DEFINE d == Digit(key, i)
           trie == at.trie
           cur == at.cur
           N == Len(trie.node)
           Nodes == 1 .. N
           M == N + 1
<1>1. PICK lv, pf :
        /\ TrieOK(trie, lv, pf) /\ cur \in Nodes
        /\ lv[cur] = i - 1 /\ pf[cur] = Prefix(key, i - 1)
        /\ \A k : IsKey(k) => TrieList(trie, k) = TrieList(t, k)
  BY DEF ArrivedAt
<1> DEFINE node == trie.node[cur]
<1>0. at \in [trie : [node : Seq(TrieNode), nodeCount : Nat], cur : Nat]
  BY DEF ArrivedAt
<1>2. /\ Depth \in Nat /\ i \in 1 .. Depth /\ i - 1 \in 0 .. Depth /\ i \in 0 .. Depth - 1
      /\ i - 1 # Depth - 1 /\ i - 1 + 1 = i /\ key \in Nat /\ 0 \in 0 .. Depth - 1
  BY DepthAssumption DEF IsKey
<1>3. /\ d \in Positions /\ Prefix(key, i) = Prefix(key, i - 1) * TriePerNode + d
      /\ Prefix(key, i) \in Nat
      /\ Prefix(key, i) \div TriePerNode = Prefix(key, i - 1) /\ Prefix(key, i) % TriePerNode = d
  <2>1. Prefix(key, i) = Prefix(key, i - 1) * TriePerNode + d /\ Prefix(key, i) \in Nat
    <3>1. i \in 0 .. Depth
      BY <1>2
    <3> QED BY <1>2, <3>1, Digits
  <2> QED BY <1>2, <2>1, LastDigit
<1> HIDE DEF d
<1>4. /\ trie.node \in Seq(TrieNode) /\ trie.nodeCount = N /\ N \in Nat /\ 1 \in Nodes
      /\ lv \in [Nodes -> 0 .. Depth - 1] /\ pf \in [Nodes -> Nat] /\ lv[1] = 0 /\ pf[1] = 0
      /\ \A n \in Nodes : NodeOK(trie.node[n]) /\ trie.node[n].isLeaf = (lv[n] = Depth - 1)
  BY <1>1 DEF TrieOK, NodesOK
<1>5. \A n \in Nodes : lv[n] = Depth - 1 =>
        \A p \in DOMAIN trie.node[n].ptr : trie.node[n].ptr[p] \in Seq(Nat)
  BY <1>1 DEF TrieOK, NodesOK
<1>6. \A n \in Nodes : lv[n] # Depth - 1 =>
        \A p \in DOMAIN trie.node[n].ptr :
          /\ trie.node[n].ptr[p] \in Nodes
          /\ lv[trie.node[n].ptr[p]] = lv[n] + 1
          /\ pf[trie.node[n].ptr[p]] = pf[n] * TriePerNode + p
  BY <1>1 DEF TrieOK, NodesOK
<1>7. \A m, n \in Nodes : lv[m] = lv[n] /\ pf[m] = pf[n] => m = n
  BY <1>1 DEF TrieOK, NodesOK
<1>8. \A n \in Nodes \ {1} : \E m \in Nodes : \E p \in DOMAIN trie.node[m].ptr :
        lv[m] # Depth - 1 /\ trie.node[m].ptr[p] = n
  BY <1>1 DEF TrieOK, NodesOK
<1>9. NodeOK(node) /\ (GetBit(node.bitmap, d) <=> d \in DOMAIN node.ptr)
  <2>1. NodeOK(node) /\ Ones(node.bitmap) = DOMAIN node.ptr /\ Len(node.bitmap) = Bits
    BY <1>1, <1>4 DEF NodeOK
  <2>2. d \in 0 .. Len(node.bitmap) - 1
    BY <1>3, <2>1, NewBitmapIs, TriePerNodeAssumption DEF Positions
  <2> QED BY <2>1, <2>2 DEF GetBit, Ones
<1>10. CASE d \in DOMAIN node.ptr
  <2> DEFINE at2 == Descend(at, i, d)
  <2>1. at2 = [at EXCEPT !.cur = node.ptr[d]]
    BY <1>9, <1>10 DEF Descend
  <2>2. node.ptr[d] \in Nodes /\ lv[node.ptr[d]] = i /\ pf[node.ptr[d]] = Prefix(key, i)
    BY <1>1, <1>2, <1>3, <1>6, <1>10
  <2>3. at2.trie = trie /\ at2.cur = node.ptr[d]
        /\ at2 \in [trie : [node : Seq(TrieNode), nodeCount : Nat], cur : Nat]
    <3> DEFINE v == node.ptr[d]
    <3>1. v \in Nat
      BY <1>4, <2>2
    <3>2. at2 = [at EXCEPT !.cur = v]
      BY <2>1
    <3> HIDE DEF v, at2
    <3>3. at2.trie = at.trie /\ at2.cur = v /\ at2 \in [trie : [node : Seq(TrieNode), nodeCount : Nat], cur : Nat]
      BY <1>0, <3>1, <3>2
    <3> QED BY <3>3 DEF v
  <2> HIDE DEF at2, node
  <2>4. ArrivedAt(t, key, i, at2)
    BY <1>1, <2>2, <2>3 DEF ArrivedAt
  <2> QED BY <2>4 DEF at2, d
<1>11. CASE d \notin DOMAIN node.ptr
  <2> DEFINE at2 == Descend(at, i, d)
             x == SetPointer(node, d, M)
             y == NewNode(i = Depth - 1)
             r == Append([trie.node EXCEPT ![cur] = x], y)
             lv2 == [n \in 1 .. M |-> IF n = M THEN i ELSE lv[n]]
             pf2 == [n \in 1 .. M |-> IF n = M THEN Prefix(key, i) ELSE pf[n]]
             new == [node |-> r, nodeCount |-> trie.nodeCount + 1]
  <2>1. at2 = [trie |-> new, cur |-> M]
    BY <1>9, <1>11 DEF Descend
  <2>2. /\ NodeOK(x) /\ x.isLeaf = node.isLeaf /\ DOMAIN x.ptr = DOMAIN node.ptr \cup {d}
        /\ x.ptr[d] = M /\ \A p \in DOMAIN node.ptr : x.ptr[p] = node.ptr[p]
    <3>1. M \in Nat \cup Seq(Nat)
      BY <1>4
    <3> QED BY <1>3, <1>9, <1>11, <3>1, SetPointerOK
  <2>3. NodeOK(y) /\ y.isLeaf = (i = Depth - 1) /\ DOMAIN y.ptr = {}
    BY NewNodeOK
  <2> HIDE DEF x, y
  <2>4. /\ r \in Seq(TrieNode) /\ Len(r) = M /\ r[M] = y /\ r[cur] = x
        /\ \A j \in Nodes : j # cur => r[j] = trie.node[j]
    <3>1. x \in TrieNode /\ y \in TrieNode
      BY <2>2, <2>3 DEF NodeOK
    <3>2. trie.node \in Seq(TrieNode) /\ cur \in 1 .. Len(trie.node)
      BY <1>1, <1>4
    <3>3. r = Append([trie.node EXCEPT ![cur] = x], y)
      OBVIOUS
    <3> HIDE DEF trie, cur, r
    <3>4. /\ r \in Seq(TrieNode) /\ Len(r) = Len(trie.node) + 1
          /\ r[Len(trie.node) + 1] = y /\ r[cur] = x
          /\ \A j \in 1 .. Len(trie.node) : j # cur => r[j] = trie.node[j]
      BY <3>1, <3>2, <3>3, ReplaceAndAppend
    <3> QED BY <3>4
  <2>5. /\ M \in Nat /\ M \notin Nodes /\ M \in 1 .. M /\ cur \in 1 .. M /\ cur # M
        /\ \A n \in 1 .. M : n = M \/ n \in Nodes
        /\ \A n \in Nodes : n \in 1 .. M /\ n # M
    <3> HIDE DEF N
    <3> QED BY <1>1, <1>4
  <2>6. /\ lv2 \in [1 .. M -> 0 .. Depth - 1] /\ pf2 \in [1 .. M -> Nat]
        /\ lv2[M] = i /\ pf2[M] = Prefix(key, i)
        /\ \A n \in Nodes : lv2[n] = lv[n] /\ pf2[n] = pf[n]
    BY <1>2, <1>3, <1>4, <2>5
  <2> HIDE DEF r, lv2, pf2, M, Nodes, N, node
  <2>7. new \in [node : Seq(TrieNode), nodeCount : Nat] /\ new.node = r /\ new.nodeCount = Len(r)
    BY <1>4, <2>4 DEF M
  <2> HIDE DEF new
  <2>8. \A n \in 1 .. M : NodeOK(r[n]) /\ r[n].isLeaf = (lv2[n] = Depth - 1)
    <3>1. ASSUME NEW n \in 1 .. M PROVE NodeOK(r[n]) /\ r[n].isLeaf = (lv2[n] = Depth - 1)
      <4>1. CASE n = M
        BY <2>3, <2>4, <2>6, <4>1
      <4>2. CASE n = cur
        BY <1>1, <1>4, <2>2, <2>4, <2>6, <4>2 DEF node
      <4>3. CASE n # M /\ n # cur
        <5>1. n \in Nodes /\ r[n] = trie.node[n] /\ lv2[n] = lv[n]
          BY <2>4, <2>5, <2>6, <4>3
        <5> QED BY <1>4, <5>1
      <4> QED BY <4>1, <4>2, <4>3
    <3> QED BY <3>1
  <2>9. \A n \in 1 .. M : lv2[n] = Depth - 1 => \A p \in DOMAIN r[n].ptr : r[n].ptr[p] \in Seq(Nat)
    BY <1>1, <1>2, <1>5, <2>3, <2>4, <2>5, <2>6
  <2>10. ASSUME NEW n \in 1 .. M, lv2[n] # Depth - 1, NEW p \in DOMAIN r[n].ptr
         PROVE  /\ r[n].ptr[p] \in 1 .. M
                /\ lv2[r[n].ptr[p]] = lv2[n] + 1
                /\ pf2[r[n].ptr[p]] = pf2[n] * TriePerNode + p
    <3>1. CASE n = cur /\ p = d
      BY <1>1, <1>2, <1>3, <2>2, <2>4, <2>5, <2>6, <3>1
    <3>2. CASE ~(n = cur /\ p = d)
      <4>1. n \in Nodes /\ p \in DOMAIN trie.node[n].ptr /\ r[n].ptr[p] = trie.node[n].ptr[p]
        BY <2>2, <2>3, <2>4, <2>5, <2>10, <3>2 DEF node
      <4> DEFINE q == trie.node[n].ptr[p]
      <4>2. lv[n] # Depth - 1 /\ pf2[n] = pf[n] /\ lv2[n] = lv[n]
        BY <2>6, <2>10, <4>1
      <4>3. q \in Nodes /\ lv[q] = lv[n] + 1 /\ pf[q] = pf[n] * TriePerNode + p /\ r[n].ptr[p] = q
        BY <1>6, <4>1, <4>2
      <4> HIDE DEF q
      <4>4. q \in 1 .. M /\ lv2[q] = lv[q] /\ pf2[q] = pf[q]
        BY <2>5, <2>6, <4>3
      <4> QED BY <4>2, <4>3, <4>4
    <3> QED BY <3>1, <3>2
  <2>11. ASSUME NEW n \in Nodes PROVE ~(lv[n] = i /\ pf[n] = Prefix(key, i))
    <3>1. SUFFICES ASSUME lv[n] = i, pf[n] = Prefix(key, i) PROVE FALSE
      OBVIOUS
    <3>2. n # 1
      BY <1>2, <1>4, <3>1
    <3>3. PICK m \in Nodes : \E p \in DOMAIN trie.node[m].ptr :
            /\ lv[n] = lv[m] + 1 /\ pf[m] = pf[n] \div TriePerNode /\ p = pf[n] % TriePerNode
      BY <1>1, <3>2, ParentOf DEF Nodes, N
    <3>4. lv[m] \in Int /\ i \in Int /\ i = lv[m] + 1
      BY <1>4, <3>1, <3>3
    <3>5. lv[m] = i - 1 /\ pf[m] = Prefix(key, i - 1) /\ d \in DOMAIN trie.node[m].ptr
      BY <1>3, <3>1, <3>3, <3>4
    <3>6. m = cur
      BY <1>1, <1>7, <3>5
    <3> QED BY <1>11, <3>5, <3>6 DEF node
  <2>12. \A m, n \in 1 .. M : lv2[m] = lv2[n] /\ pf2[m] = pf2[n] => m = n
    BY <1>7, <2>5, <2>6, <2>11
  <2>13. ASSUME NEW n \in (1 .. M) \ {1}
         PROVE  \E m \in 1 .. M : \E p \in DOMAIN r[m].ptr : lv2[m] # Depth - 1 /\ r[m].ptr[p] = n
    <3>1. CASE n = M
      <4>1. d \in DOMAIN r[cur].ptr /\ r[cur].ptr[d] = M /\ lv2[cur] # Depth - 1
        BY <1>1, <1>2, <2>2, <2>4, <2>6
      <4> QED BY <2>5, <3>1, <4>1
    <3>2. CASE n # M
      <4>1. n \in Nodes \ {1}
        BY <2>5, <3>2
      <4>2. PICK m \in Nodes : \E p \in DOMAIN trie.node[m].ptr :
              lv[m] # Depth - 1 /\ trie.node[m].ptr[p] = n
        BY <1>8, <4>1
      <4>3. PICK p \in DOMAIN trie.node[m].ptr : lv[m] # Depth - 1 /\ trie.node[m].ptr[p] = n
        BY <4>2
      <4>4. p \in DOMAIN r[m].ptr /\ r[m].ptr[p] = n /\ lv2[m] # Depth - 1 /\ m \in 1 .. M
        BY <2>2, <2>4, <2>5, <2>6, <4>3 DEF node
      <4> QED BY <4>4
    <3> QED BY <3>1, <3>2
  <2>14. 1 \in 1 .. M /\ lv2[1] = 0 /\ pf2[1] = 0
    BY <1>4, <2>5, <2>6
  <2>15. TrieOK(new, lv2, pf2)
    <3>1. 1 .. Len(new.node) = 1 .. M
      BY <2>4, <2>7
    <3>2. \A n \in 1 .. M : lv2[n] # Depth - 1 => \A p \in DOMAIN r[n].ptr :
             /\ r[n].ptr[p] \in 1 .. M
             /\ lv2[r[n].ptr[p]] = lv2[n] + 1
             /\ pf2[r[n].ptr[p]] = pf2[n] * TriePerNode + p
      BY <2>10
    <3>3. \A n \in (1 .. M) \ {1} : \E m \in 1 .. M : \E p \in DOMAIN r[m].ptr :
             lv2[m] # Depth - 1 /\ r[m].ptr[p] = n
      BY <2>13
    <3>4. NodesOK(r, lv2, pf2)
      <4> DEFINE I == 1 .. Len(r)
      <4>1. I = 1 .. M /\ r \in Seq(TrieNode)
        BY <2>4
      <4> HIDE DEF I
      <4>2. /\ 1 \in I /\ lv2 \in [I -> 0 .. Depth - 1] /\ pf2 \in [I -> Nat]
            /\ lv2[1] = 0 /\ pf2[1] = 0
        BY <2>6, <2>14, <4>1
      <4>3. \A n \in I : NodeOK(r[n]) /\ r[n].isLeaf = (lv2[n] = Depth - 1)
        BY <2>8, <4>1
      <4>4. \A n \in I : lv2[n] = Depth - 1 => \A p \in DOMAIN r[n].ptr : r[n].ptr[p] \in Seq(Nat)
        BY <2>9, <4>1
      <4>5. \A n \in I : lv2[n] # Depth - 1 => \A p \in DOMAIN r[n].ptr :
              /\ r[n].ptr[p] \in I
              /\ lv2[r[n].ptr[p]] = lv2[n] + 1
              /\ pf2[r[n].ptr[p]] = pf2[n] * TriePerNode + p
        BY <3>2, <4>1
      <4>6. \A m, n \in I : lv2[m] = lv2[n] /\ pf2[m] = pf2[n] => m = n
        BY <2>12, <4>1
      <4>7. \A n \in I \ {1} : \E m \in I : \E p \in DOMAIN r[m].ptr :
              lv2[m] # Depth - 1 /\ r[m].ptr[p] = n
        BY <3>3, <4>1
      <4> QED BY <4>1, <4>2, <4>3, <4>4, <4>5, <4>6, <4>7 DEF NodesOK, I
    <3> QED BY <2>7, <3>4 DEF TrieOK
  <2>16. ASSUME NEW k, IsKey(k) PROVE TrieList(new, k) = TrieList(trie, k)
    <3>1. CASE \E n \in Nodes : lv[n] = Depth - 1 /\ pf[n] = Prefix(k, Depth - 1)
      <4>1. PICK n \in Nodes : lv[n] = Depth - 1 /\ pf[n] = Prefix(k, Depth - 1)
        BY <3>1
      <4>2. TrieList(trie, k) = IF Digit(k, Depth) \in DOMAIN trie.node[n].ptr
                                THEN trie.node[n].ptr[Digit(k, Depth)] ELSE <<>>
        BY <1>1, <2>16, <4>1, FiledAt DEF Nodes, N
      <4>3. n # cur /\ n \in 1 .. M /\ r[n] = trie.node[n]
            /\ lv2[n] = Depth - 1 /\ pf2[n] = Prefix(k, Depth - 1)
        BY <1>1, <1>2, <2>4, <2>5, <2>6, <4>1
      <4>4. TrieList(new, k) = IF Digit(k, Depth) \in DOMAIN r[n].ptr
                               THEN r[n].ptr[Digit(k, Depth)] ELSE <<>>
        BY <2>4, <2>7, <2>15, <2>16, <4>3, FiledAt
      <4> QED BY <4>2, <4>3, <4>4
    <3>2. CASE ~ \E n \in Nodes : lv[n] = Depth - 1 /\ pf[n] = Prefix(k, Depth - 1)
      <4>1. TrieList(trie, k) = <<>>
        BY <1>1, <2>16, <3>2, FiledNone DEF Nodes, N
      <4>2. CASE i = Depth - 1 /\ Prefix(key, i) = Prefix(k, Depth - 1)
        <5>1. lv2[M] = Depth - 1 /\ pf2[M] = Prefix(k, Depth - 1) /\ M \in 1 .. Len(new.node)
              /\ DOMAIN new.node[M].ptr = {}
          BY <2>3, <2>4, <2>5, <2>6, <2>7, <4>2
        <5> QED BY <2>15, <2>16, <4>1, <5>1, FiledAt
      <4>3. CASE ~(i = Depth - 1 /\ Prefix(key, i) = Prefix(k, Depth - 1))
        <5>1. ~ \E n \in 1 .. Len(new.node) : lv2[n] = Depth - 1 /\ pf2[n] = Prefix(k, Depth - 1)
          BY <2>4, <2>5, <2>6, <2>7, <3>2, <4>3
        <5> QED BY <2>15, <2>16, <4>1, <5>1, FiledNone
      <4> QED BY <4>2, <4>3
    <3> QED BY <3>1, <3>2
  <2>17. at2.trie = new /\ at2.cur = M
         /\ at2 \in [trie : [node : Seq(TrieNode), nodeCount : Nat], cur : Nat]
    BY <2>1, <2>5, <2>7
  <2> HIDE DEF at2
  <2>18. \A k : IsKey(k) => TrieList(at2.trie, k) = TrieList(t, k)
    BY <1>1, <2>16, <2>17
  <2>19. ArrivedAt(t, key, i, at2)
    BY <2>4, <2>5, <2>6, <2>7, <2>15, <2>17, <2>18 DEF ArrivedAt
  <2> QED BY <2>19 DEF at2, d
<1> QED BY <1>10, <1>11 DEF d

\* A leaf's list at a position has one more val, or is a new one.
Added(node, pos, val, new) ==
    /\ NodeOK(new) /\ new.isLeaf = node.isLeaf
    /\ DOMAIN new.ptr = DOMAIN node.ptr \cup {pos}
    /\ new.ptr[pos] = Append(IF pos \in DOMAIN node.ptr THEN node.ptr[pos] ELSE <<>>, val)
    /\ \A p \in DOMAIN node.ptr \ {pos} : new.ptr[p] = node.ptr[p]
    /\ \A p \in DOMAIN new.ptr : new.ptr[p] \in Seq(Nat)

LEMMA LeafAddOK ==
    ASSUME NEW node, NodeOK(node), NEW pos \in Positions, NEW val \in Nat,
           \A p \in DOMAIN node.ptr : node.ptr[p] \in Seq(Nat)
    PROVE  Added(node, pos, val, LeafAdd(node, pos, val))
<1> DEFINE known == IF pos \in DOMAIN node.ptr THEN node ELSE SetPointer(node, pos, <<>>)
           before == IF pos \in DOMAIN node.ptr THEN node.ptr[pos] ELSE <<>>
           new == LeafAdd(node, pos, val)
           D == DOMAIN node.ptr \cup {pos}
<1>1. /\ NodeOK(known) /\ known.isLeaf = node.isLeaf /\ DOMAIN known.ptr = D
      /\ known.ptr[pos] = before
      /\ \A p \in DOMAIN node.ptr \ {pos} : known.ptr[p] = node.ptr[p]
      /\ \A p \in D : known.ptr[p] \in Seq(Nat)
  <2>1. CASE pos \in DOMAIN node.ptr
    BY <2>1
  <2>2. CASE pos \notin DOMAIN node.ptr
    <3> DEFINE none == <<>>
               x == SetPointer(node, pos, none)
    <3>1. none \in Nat \cup Seq(Nat) /\ none \in Seq(Nat)
      OBVIOUS
    <3>2. known = x /\ before = none
      BY <2>2
    <3> HIDE DEF none, known, before
    <3>3. /\ NodeOK(x) /\ x.isLeaf = node.isLeaf /\ DOMAIN x.ptr = D
          /\ x.ptr[pos] = none /\ \A p \in DOMAIN node.ptr : x.ptr[p] = node.ptr[p]
      BY <2>2, <3>1, SetPointerOK
    <3> HIDE DEF x
    <3>4. \A p \in D : x.ptr[p] \in Seq(Nat)
      BY <3>1, <3>3
    <3> QED BY <3>2, <3>3, <3>4
  <2> QED BY <2>1, <2>2
<1>2. before \in Seq(Nat) /\ Append(before, val) \in Seq(Nat)
  BY AppendProperties
<1>3. new = [known EXCEPT !.ptr[pos] = Append(@, val)]
  BY DEF LeafAdd
<1> HIDE DEF known, before, D, new
<1>4. /\ known \in TrieNode /\ pos \in D
      /\ Len(known.bitmap) = Bits /\ Ones(known.bitmap) = D /\ known.elemCount = Cardinality(D)
  BY <1>1 DEF NodeOK, D
<1>5. known.ptr \in [D -> Nat \cup Seq(Nat)] /\ D \in SUBSET Positions
  BY <1>1, <1>4 DEF TrieNode
<1> DEFINE g == [known.ptr EXCEPT ![pos] = Append(known.ptr[pos], val)]
<1>6. g \in [D -> Nat \cup Seq(Nat)] /\ g[pos] = Append(before, val)
      /\ \A p \in D \ {pos} : g[p] = known.ptr[p]
  BY <1>1, <1>2, <1>4, <1>5
<1>7. new = [known EXCEPT !.ptr = g]
  BY <1>3, <1>4 DEF TrieNode
<1> HIDE DEF g
<1>8. /\ new.isLeaf = known.isLeaf /\ new.bitmap = known.bitmap /\ new.elemCount = known.elemCount
      /\ new.ptr = g /\ new \in TrieNode
  <2>1. g \in UNION {[I -> Nat \cup Seq(Nat)] : I \in SUBSET Positions}
    BY <1>5, <1>6
  <2> QED BY <1>4, <1>7, <2>1 DEF TrieNode
<1>9. DOMAIN new.ptr = D
  BY <1>6, <1>8
<1>10. NodeOK(new)
  BY <1>4, <1>8, <1>9 DEF NodeOK
<1>11. \A p \in D : new.ptr[p] \in Seq(Nat)
  BY <1>1, <1>2, <1>6, <1>8
<1>12. \A p \in DOMAIN node.ptr \ {pos} : new.ptr[p] = node.ptr[p]
  <2>1. DOMAIN node.ptr \subseteq D
    BY DEF D
  <2> QED BY <1>1, <1>6, <1>8, <2>1
<1> QED BY <1>1, <1>6, <1>8, <1>9, <1>10, <1>11, <1>12 DEF new, before, D, Added

\* The end of addItem: the value gets behind those of its key, and nothing else changes.
AddedTo(t, key, val, t2, lv, pf) ==
    /\ TrieOK(t2, lv, pf)
    /\ TrieList(t2, key) = Append(TrieList(t, key), val)
    /\ \A k : IsKey(k) /\ k # key => TrieList(t2, k) = TrieList(t, k)

LEMMA LeafAdded ==
    ASSUME NEW t, NEW lv, NEW pf, TrieOK(t, lv, pf), NEW key, IsKey(key), NEW val \in Nat,
           NEW cur \in 1 .. Len(t.node), lv[cur] = Depth - 1, pf[cur] = Prefix(key, Depth - 1)
    PROVE  AddedTo(t, key, val, [t EXCEPT !.node[cur] = LeafAdd(@, Digit(key, Depth), val)], lv, pf)
<1> DEFINE d == Digit(key, Depth)
           node == t.node[cur]
           x == LeafAdd(node, d, val)
           r == [t.node EXCEPT ![cur] = x]
           t2 == [t EXCEPT !.node[cur] = LeafAdd(@, d, val)]
           Nodes == 1 .. Len(t.node)
<1>1. /\ t \in [node : Seq(TrieNode), nodeCount : Nat] /\ t.nodeCount = Len(t.node) /\ 1 \in Nodes
      /\ lv \in [Nodes -> 0 .. Depth - 1] /\ pf \in [Nodes -> Nat] /\ lv[1] = 0 /\ pf[1] = 0
      /\ \A n \in Nodes : NodeOK(t.node[n]) /\ t.node[n].isLeaf = (lv[n] = Depth - 1)
  BY DEF TrieOK, NodesOK
<1>2. \A n \in Nodes : lv[n] = Depth - 1 =>
        \A p \in DOMAIN t.node[n].ptr : t.node[n].ptr[p] \in Seq(Nat)
  BY DEF TrieOK, NodesOK
<1>3. \A n \in Nodes : lv[n] # Depth - 1 =>
        \A p \in DOMAIN t.node[n].ptr :
          /\ t.node[n].ptr[p] \in Nodes
          /\ lv[t.node[n].ptr[p]] = lv[n] + 1
          /\ pf[t.node[n].ptr[p]] = pf[n] * TriePerNode + p
  BY DEF TrieOK, NodesOK
<1>4. \A m, n \in Nodes : lv[m] = lv[n] /\ pf[m] = pf[n] => m = n
  BY DEF TrieOK, NodesOK
<1>5. \A n \in Nodes \ {1} : \E m \in Nodes : \E p \in DOMAIN t.node[m].ptr :
        lv[m] # Depth - 1 /\ t.node[m].ptr[p] = n
  BY DEF TrieOK, NodesOK
<1>6. d \in Positions /\ key \in Nat /\ Depth \in Nat /\ Depth \in 1 .. Depth
  BY DepthAssumption, LastDigit DEF IsKey
<1>7. /\ NodeOK(x) /\ x.isLeaf = node.isLeaf /\ DOMAIN x.ptr = DOMAIN node.ptr \cup {d}
      /\ x.ptr[d] = Append(IF d \in DOMAIN node.ptr THEN node.ptr[d] ELSE <<>>, val)
      /\ \A p \in DOMAIN node.ptr \ {d} : x.ptr[p] = node.ptr[p]
      /\ \A p \in DOMAIN x.ptr : x.ptr[p] \in Seq(Nat)
  <2>1. NodeOK(node) /\ \A p \in DOMAIN node.ptr : node.ptr[p] \in Seq(Nat)
    BY <1>1, <1>2
  <2> HIDE DEF d, node
  <2>2. Added(node, d, val, x)
    BY <1>6, <2>1, LeafAddOK
  <2> QED BY <2>2 DEF Added
<1> HIDE DEF d, x
<1>8. /\ r \in Seq(TrieNode) /\ Len(r) = Len(t.node) /\ r[cur] = x
      /\ \A n \in Nodes \ {cur} : r[n] = t.node[n]
  <2>1. x \in TrieNode /\ t.node \in Seq(TrieNode)
    BY <1>1, <1>7 DEF NodeOK
  <2> QED BY <2>1, LenProperties
<1>9. t2 = [t EXCEPT !.node = r]
  BY <1>1 DEF x
<1> HIDE DEF r
<1>10. t2 \in [node : Seq(TrieNode), nodeCount : Nat] /\ t2.node = r /\ t2.nodeCount = Len(r)
  <2> HIDE DEF t2
  <2> QED BY <1>1, <1>8, <1>9
<1> HIDE DEF t2
<1>11. NodesOK(r, lv, pf)
  <2> HIDE DEF Nodes, node
  <2>1. \A n \in Nodes : NodeOK(r[n]) /\ r[n].isLeaf = (lv[n] = Depth - 1)
    BY <1>1, <1>7, <1>8 DEF node, Nodes
  <2>2. \A n \in Nodes : lv[n] = Depth - 1 => \A p \in DOMAIN r[n].ptr : r[n].ptr[p] \in Seq(Nat)
    BY <1>2, <1>7, <1>8 DEF Nodes
  <2>3. \A n \in Nodes : lv[n] # Depth - 1 => r[n] = t.node[n]
    BY <1>8
  <2>4. \A n \in Nodes : lv[n] # Depth - 1 => \A p \in DOMAIN r[n].ptr :
          /\ r[n].ptr[p] \in Nodes
          /\ lv[r[n].ptr[p]] = lv[n] + 1
          /\ pf[r[n].ptr[p]] = pf[n] * TriePerNode + p
    <3>1. SUFFICES ASSUME NEW n \in Nodes, lv[n] # Depth - 1, NEW p \in DOMAIN r[n].ptr
                   PROVE  /\ r[n].ptr[p] \in Nodes
                          /\ lv[r[n].ptr[p]] = lv[n] + 1
                          /\ pf[r[n].ptr[p]] = pf[n] * TriePerNode + p
      OBVIOUS
    <3>2. r[n] = t.node[n]
      BY <2>3, <3>1
    <3> QED BY <1>3, <3>1, <3>2
  <2>5. \A n \in Nodes \ {1} : \E m \in Nodes : \E p \in DOMAIN r[m].ptr :
          lv[m] # Depth - 1 /\ r[m].ptr[p] = n
    BY <1>5, <2>3
  <2> DEFINE I == 1 .. Len(r)
  <2>6. I = Nodes
    BY <1>8 DEF Nodes
  <2> HIDE DEF I
  <2>7. /\ 1 \in I /\ lv \in [I -> 0 .. Depth - 1] /\ pf \in [I -> Nat] /\ lv[1] = 0 /\ pf[1] = 0
        /\ \A n \in I : NodeOK(r[n]) /\ r[n].isLeaf = (lv[n] = Depth - 1)
    BY <1>1, <2>1, <2>6
  <2>8. /\ \A n \in I : lv[n] = Depth - 1 => \A p \in DOMAIN r[n].ptr : r[n].ptr[p] \in Seq(Nat)
        /\ \A n \in I : lv[n] # Depth - 1 => \A p \in DOMAIN r[n].ptr :
             /\ r[n].ptr[p] \in I
             /\ lv[r[n].ptr[p]] = lv[n] + 1
             /\ pf[r[n].ptr[p]] = pf[n] * TriePerNode + p
    BY <2>2, <2>4, <2>6
  <2>9. /\ \A m, n \in I : lv[m] = lv[n] /\ pf[m] = pf[n] => m = n
        /\ \A n \in I \ {1} : \E m \in I : \E p \in DOMAIN r[m].ptr :
             lv[m] # Depth - 1 /\ r[m].ptr[p] = n
    BY <1>4, <2>5, <2>6
  <2> QED BY <1>8, <2>7, <2>8, <2>9 DEF NodesOK, I
<1>12. TrieOK(t2, lv, pf)
  BY <1>10, <1>11 DEF TrieOK
<1>13. TrieList(t2, key) = Append(TrieList(t, key), val)
  <2>1. TrieList(t, key) = IF d \in DOMAIN node.ptr THEN node.ptr[d] ELSE <<>>
    BY FiledAt DEF d
  <2>2. TrieList(t2, key) = IF d \in DOMAIN x.ptr THEN x.ptr[d] ELSE <<>>
    <3>1. cur \in 1 .. Len(t2.node) /\ t2.node[cur] = x
      BY <1>8, <1>10
    <3> QED BY <1>12, <3>1, FiledAt DEF d
  <2>3. d \in DOMAIN x.ptr
    BY <1>7
  <2> QED BY <1>7, <2>1, <2>2, <2>3
<1>14. ASSUME NEW k, IsKey(k), k # key PROVE TrieList(t2, k) = TrieList(t, k)
  <2> DEFINE e == Digit(k, Depth)
  <2>1. CASE \E n \in Nodes : lv[n] = Depth - 1 /\ pf[n] = Prefix(k, Depth - 1)
    <3>1. PICK n \in Nodes : lv[n] = Depth - 1 /\ pf[n] = Prefix(k, Depth - 1)
      BY <2>1
    <3>2. TrieList(t, k) = IF e \in DOMAIN t.node[n].ptr THEN t.node[n].ptr[e] ELSE <<>>
      BY <1>14, <3>1, FiledAt
    <3>3. TrieList(t2, k) = IF e \in DOMAIN r[n].ptr THEN r[n].ptr[e] ELSE <<>>
      <4>1. n \in 1 .. Len(t2.node)
        BY <1>8, <1>10
      <4> QED BY <1>10, <1>12, <1>14, <3>1, <4>1, FiledAt
    <3> HIDE DEF e
    <3>4. CASE n = cur
      <4>1. e # d
        <5>1. Prefix(k, Depth - 1) = Prefix(key, Depth - 1) /\ k \in Nat
          BY <1>14, <3>1, <3>4 DEF IsKey
        <5>2. k = Prefix(k, Depth - 1) * TriePerNode + e
          BY <1>6, <5>1, Digits DEF e
        <5>3. key = Prefix(key, Depth - 1) * TriePerNode + d
          BY <1>6, Digits DEF d
        <5> QED BY <1>14, <5>1, <5>2, <5>3
      <4> QED BY <1>7, <1>8, <3>2, <3>3, <3>4, <4>1
    <3>5. CASE n # cur
      BY <1>8, <3>2, <3>3, <3>5
    <3> QED BY <3>4, <3>5
  <2>2. CASE ~ \E n \in Nodes : lv[n] = Depth - 1 /\ pf[n] = Prefix(k, Depth - 1)
    <3>1. TrieList(t, k) = <<>>
      BY <1>14, <2>2, FiledNone
    <3>2. ~ \E n \in 1 .. Len(t2.node) : lv[n] = Depth - 1 /\ pf[n] = Prefix(k, Depth - 1)
      BY <1>8, <1>10, <2>2
    <3> QED BY <1>12, <1>14, <3>1, <3>2, FiledNone
  <2> QED BY <2>1, <2>2
<1>15. AddedTo(t, key, val, t2, lv, pf)
  BY <1>12, <1>13, <1>14 DEF AddedTo
<1> QED BY <1>15 DEF t2, d

IsTrie(t) == \E lv, pf : TrieOK(t, lv, pf)

\* addItem files the value under the key, behind those that are there.
LEMMA TrieAddOK ==
    ASSUME NEW t, IsTrie(t), NEW key, IsKey(key), NEW val \in Nat
    PROVE  /\ IsTrie(TrieAdd(t, key, val))
           /\ TrieList(TrieAdd(t, key, val), key) = Append(TrieList(t, key), val)
           /\ \A k : IsKey(k) /\ k # key => TrieList(TrieAdd(t, key, val), k) = TrieList(t, k)
<1> DEFINE N == Depth - 1
           U == [trie : [node : Seq(TrieNode), nodeCount : Nat], cur : Nat]
           start == [trie |-> t, cur |-> Root]
           Turn(i, x) == Descend(x, i, Digit(key, i))
           Good(i, x) ==
             ArrivedAt(t, key, i, x)
           Solves(f) == f = [i \in 0 .. N |-> IF i = 0 THEN start ELSE Turn(i, f[i - 1])]
           at == CHOOSE f : Solves(f)
<1> DEFINE W == [trie : [node : Seq(TrieNode), nodeCount : Nat], cur : Nat]
<1>0. N \in Nat /\ Depth \in Nat /\ N = Depth - 1
  BY DepthAssumption
<1>1. N \in Nat /\ start \in U /\ Good(0, start)
  <2> DEFINE x == [trie |-> t, cur |-> 1]
  <2>1. PICK lv, pf : TrieOK(t, lv, pf)
    BY DEF IsTrie
  <2>2. t \in [node : Seq(TrieNode), nodeCount : Nat] /\ 1 \in 1 .. Len(t.node) /\ lv[1] = 0 /\ pf[1] = 0
    BY <2>1 DEF TrieOK, NodesOK
  <2>3. x \in W /\ x.trie = t /\ x.cur = 1 /\ Prefix(key, 0) = 0
    BY <2>2 DEF IsKey
  <2> HIDE DEF x
  <2>4. ArrivedAt(t, key, 0, x)
    BY <2>1, <2>2, <2>3 DEF ArrivedAt
  <2> QED BY <1>0, <2>3, <2>4 DEF x, Root
<1>2. ASSUME NEW i \in 1 .. N, NEW x \in U, Good(i - 1, x)
      PROVE  Turn(i, x) \in U /\ Good(i, Turn(i, x))
  <2>1. ArrivedAt(t, key, i, Turn(i, x))
    BY <1>2, DescendOK
  <2> QED BY <2>1 DEF ArrivedAt
<1> HIDE DEF N, U, start, Good, Turn
<1>3. \E f : Solves(f)
  <2> DEFINE good == [i \in 0 .. N |-> {x \in U : Good(i, x)}]
             step == [i \in 1 .. N |-> [x \in good[i - 1] |-> Turn(i, x)]]
  <2>1. good \in [0 .. N -> SUBSET U] /\ start \in good[0]
    BY <1>1
  <2>2. ASSUME NEW i \in 1 .. N, NEW x \in good[i - 1]
        PROVE  step[i][x] = Turn(i, x) /\ Turn(i, x) \in good[i]
    <3>1. i \in 0 .. N /\ i - 1 \in 0 .. N
      BY <1>1
    <3>2. x \in U /\ Good(i - 1, x)
      BY <3>1
    <3>3. Turn(i, x) \in U /\ Good(i, Turn(i, x))
      BY <1>2, <3>2
    <3> QED BY <3>1, <3>3
  <2> HIDE DEF good, step
  <2>3. PICK f : Runs(f, N, U, good, start, step)
    <3>1. Loop(N, U, good, start, step)
      BY <1>1, <2>1, <2>2 DEF Loop
    <3> QED BY <3>1, LoopSolved
  <2>4. ASSUME NEW i \in 0 .. N
        PROVE  f[i] = IF i = 0 THEN start ELSE Turn(i, f[i - 1])
    <3>1. CASE i = 0
      BY <2>3, <3>1 DEF Runs
    <3>2. CASE i # 0
      <4>1. i \in 1 .. N
        BY <1>1, <3>2
      <4> QED BY <2>2, <2>3, <3>2, <4>1 DEF Runs
    <3> QED BY <3>1, <3>2
  <2>5. f = [i \in 0 .. N |-> f[i]]
    BY <2>3 DEF Runs
  <2>6. Solves(f)
    BY <2>4, <2>5
  <2> QED BY <2>6
<1>4. Solves(at)
  BY <1>3
<1> HIDE DEF at
<1>5. at[0] = start /\ \A i \in 1 .. N : at[i] = Turn(i, at[i - 1])
  BY <1>1, <1>4
<1>6. \A i \in 0 .. N : at[i] \in U /\ Good(i, at[i])
  <2> DEFINE good == [i \in 0 .. N |-> {x \in U : Good(i, x)}]
  <2>1. at[0] \in good[0]
    BY <1>1, <1>5
  <2>2. ASSUME NEW i \in 1 .. N, at[i - 1] \in good[i - 1] PROVE at[i] \in good[i]
    <3>1. i \in 0 .. N /\ i - 1 \in 0 .. N
      BY <1>1
    <3>2. at[i - 1] \in U /\ Good(i - 1, at[i - 1])
      BY <2>2, <3>1
    <3>3. at[i] \in U /\ Good(i, at[i])
      BY <1>2, <1>5, <3>2
    <3> QED BY <3>1, <3>3
  <2>3. \A i \in 0 .. N : at[i] \in good[i]
    <3> HIDE DEF good
    <3> QED BY <1>1, <2>1, <2>2, LoopKeeps
  <2> QED BY <2>3
<1>7. ArrivedAt(t, key, Depth - 1, at[N])
  <2>1. N \in 0 .. N
    BY <1>1
  <2> QED BY <1>0, <1>6, <2>1 DEF Good
<1>8. PICK lv, pf :
        /\ TrieOK(at[N].trie, lv, pf) /\ at[N].cur \in 1 .. Len(at[N].trie.node)
        /\ lv[at[N].cur] = Depth - 1 /\ pf[at[N].cur] = Prefix(key, Depth - 1)
        /\ \A k : IsKey(k) => TrieList(at[N].trie, k) = TrieList(t, k)
  BY <1>7 DEF ArrivedAt
<1> DEFINE t2 == [at[N].trie EXCEPT !.node[at[N].cur] = LeafAdd(@, Digit(key, Depth), val)]
<1>9. TrieAdd(t, key, val) = t2
  BY DEF TrieAdd, Descent, at, Turn, N, start
<1>10. /\ TrieOK(t2, lv, pf)
       /\ TrieList(t2, key) = Append(TrieList(at[N].trie, key), val)
       /\ \A k : IsKey(k) /\ k # key => TrieList(t2, k) = TrieList(at[N].trie, k)
  <2> DEFINE a == at[N].trie
             c == at[N].cur
  <2>1. /\ TrieOK(a, lv, pf) /\ c \in 1 .. Len(a.node)
        /\ lv[c] = Depth - 1 /\ pf[c] = Prefix(key, Depth - 1)
    BY <1>8
  <2> HIDE DEF a, c
  <2>2. AddedTo(a, key, val, [a EXCEPT !.node[c] = LeafAdd(@, Digit(key, Depth), val)], lv, pf)
    BY <2>1, LeafAdded
  <2> QED BY <2>2 DEF a, c, AddedTo
<1> HIDE DEF t2
<1>11. /\ TrieOK(t2, lv, pf)
       /\ TrieList(t2, key) = Append(TrieList(t, key), val)
       /\ \A k : IsKey(k) /\ k # key => TrieList(t2, k) = TrieList(t, k)
  BY <1>8, <1>10
<1> QED BY <1>9, <1>11 DEF IsTrie

\* A new trie has its root and no list.
LEMMA NewTrieOK == IsTrie(NewTrie) /\ \A k : IsKey(k) => TrieList(NewTrie, k) = <<>>
<1> DEFINE lv == [n \in {1} |-> 0]
           r == NewNode(FALSE)
<1>1. NodeOK(r) /\ r.isLeaf = FALSE /\ DOMAIN r.ptr = {}
  BY NewNodeOK
<1>2. r \in TrieNode
  BY <1>1 DEF NodeOK
<1>3. Depth \in Nat /\ 0 \in 0 .. Depth - 1 /\ 0 # Depth - 1
  BY DepthAssumption
<1>4. NewTrie.node = <<r>> /\ NewTrie.nodeCount = 1
  BY DEF NewTrie
<1> HIDE DEF r
<1>5. /\ NewTrie.node \in Seq(TrieNode) /\ Len(NewTrie.node) = 1 /\ NewTrie.node[1] = r
      /\ 1 .. 1 = {1}
  BY <1>2, <1>4
<1>6. NewTrie \in [node : Seq(TrieNode), nodeCount : Nat]
  BY <1>5 DEF NewTrie
<1>7. lv \in [{1} -> 0 .. Depth - 1] /\ lv \in [{1} -> Nat] /\ lv[1] = 0
  BY <1>3
<1> HIDE DEF lv
<1>8. NodesOK(NewTrie.node, lv, lv)
  <2>1. \A n \in {1} : NodeOK(NewTrie.node[n]) /\ NewTrie.node[n].isLeaf = (lv[n] = Depth - 1)
    BY <1>1, <1>3, <1>5, <1>7
  <2>2. \A n \in {1} : DOMAIN NewTrie.node[n].ptr = {}
    BY <1>1, <1>5
  <2> QED BY <1>5, <1>7, <2>1, <2>2 DEF NodesOK
<1>9. TrieOK(NewTrie, lv, lv)
  BY <1>4, <1>5, <1>6, <1>8 DEF TrieOK
<1>10. ASSUME NEW k, IsKey(k) PROVE TrieList(NewTrie, k) = <<>>
  <2>1. ~ \E n \in 1 .. Len(NewTrie.node) : lv[n] = Depth - 1 /\ lv[n] = Prefix(k, Depth - 1)
    BY <1>3, <1>5, <1>7
  <2> QED BY <1>9, <1>10, <2>1, FiledNone
<1> QED BY <1>9, <1>10 DEF IsTrie

-----------------------------------------------------------------------------
(* The nodes in the order of a walk *)

\* The positions of a node that are taken, in order, and what it points to from there.
LEMMA TargetsAre ==
    ASSUME NEW node, NodeOK(node)
    PROVE  LET pos == OnePositions(node.bitmap)
           IN  /\ pos \in Seq(DOMAIN node.ptr) /\ Len(pos) = node.elemCount /\ node.elemCount \in Nat
               /\ \A j, k \in 1 .. node.elemCount : pos[j] = pos[k] => j = k
               /\ \A p \in DOMAIN node.ptr : \E j \in 1 .. node.elemCount : pos[j] = p
               /\ Targets(node) = [i \in 1 .. node.elemCount |-> node.ptr[pos[i]]]
<1> DEFINE pos == OnePositions(node.bitmap)
           C == node.elemCount
<1>1. /\ node.bitmap \in Seq({0, 1}) /\ Ones(node.bitmap) = DOMAIN node.ptr
      /\ C = Cardinality(DOMAIN node.ptr) /\ C \in Nat
  BY DEF NodeOK, TrieNode
<1>2. /\ pos \in Seq(DOMAIN node.ptr) /\ Len(pos) = C
      /\ \A j, k \in 1 .. C : j < k => pos[j] < pos[k]
      /\ \A p \in DOMAIN node.ptr : \E j \in 1 .. C : pos[j] = p
  BY <1>1, OnePositionsAre
<1>3. DOMAIN node.ptr \subseteq Nat
  <2>1. DOMAIN node.ptr \in SUBSET Positions
    BY DEF NodeOK, TrieNode
  <2> QED BY <2>1 DEF Positions
<1> HIDE DEF pos, C
<1>4. ASSUME NEW j \in 1 .. C, NEW k \in 1 .. C, pos[j] = pos[k] PROVE j = k
  <2>1. pos[j] \in Nat /\ pos[k] \in Nat
    BY <1>1, <1>2, <1>3, ElementOfSeq
  <2> QED BY <1>1, <1>2, <1>4, <2>1
<1>5. Targets(node) = [i \in 1 .. C |-> node.ptr[pos[i]]]
  BY DEF Targets, pos, C
<1> QED BY <1>1, <1>2, <1>4, <1>5 DEF pos, C

\* What the children of an inner node have to do with it.
ChildrenOf(t, children) ==
    /\ children \in Seq(Seq(1 .. Len(t.node))) /\ Len(children) = Len(t.node)
    /\ \A n \in 1 .. Len(t.node) : t.node[n].isLeaf => children[n] = <<>> /\ Len(children[n]) = 0
    /\ \A n \in 1 .. Len(t.node) : ~t.node[n].isLeaf => /\ children[n] = Targets(t.node[n])
                                                       /\ Len(children[n]) = t.node[n].elemCount

LEMMA ChildrenAre ==
    ASSUME NEW t, NEW lv, NEW pf, TrieOK(t, lv, pf)
    PROVE  ChildrenOf(t, TrieChildren(t))
<1> DEFINE children == TrieChildren(t)
           N == Len(t.node)
<1>1. t.node \in Seq(TrieNode) /\ N \in Nat
  BY DEF TrieOK
<1>2. \A n \in 1 .. N : NodeOK(t.node[n]) /\ t.node[n].isLeaf = (lv[n] = Depth - 1)
  BY DEF TrieOK, NodesOK
<1>3. children = [n \in 1 .. N |-> IF t.node[n].isLeaf THEN <<>> ELSE Targets(t.node[n])]
  BY <1>1 DEF TrieChildren
<1> HIDE DEF children, N
<1>4. ASSUME NEW n \in 1 .. N, ~t.node[n].isLeaf
      PROVE  Targets(t.node[n]) \in Seq(1 .. N) /\ Len(Targets(t.node[n])) = t.node[n].elemCount
  <2> DEFINE node == t.node[n]
             pos == OnePositions(node.bitmap)
  <2>1. \A p \in DOMAIN node.ptr : node.ptr[p] \in 1 .. N
    BY <1>2, <1>4 DEF TrieOK, NodesOK, N
  <2>2. NodeOK(node)
    BY <1>2
  <2> HIDE DEF node
  <2>3. /\ pos \in Seq(DOMAIN node.ptr) /\ Len(pos) = node.elemCount /\ node.elemCount \in Nat
        /\ Targets(node) = [i \in 1 .. node.elemCount |-> node.ptr[pos[i]]]
    BY <2>2, TargetsAre
  <2> HIDE DEF pos
  <2>4. \A i \in 1 .. node.elemCount : pos[i] \in DOMAIN node.ptr
    BY <2>3, ElementOfSeq
  <2>5. Targets(node) \in Seq(1 .. N) /\ Len(Targets(node)) = node.elemCount
    <3> DEFINE m == node.elemCount
               S == 1 .. N
    <3>1. \A i \in 1 .. m : node.ptr[pos[i]] \in S
      BY <2>1, <2>4
    <3>2. Targets(node) = [i \in 1 .. m |-> node.ptr[pos[i]]] /\ m \in Nat
      BY <2>3
    <3> HIDE DEF m, S
    <3>3. Targets(node) \in Seq(S) /\ Len(Targets(node)) = m
      BY <3>1, <3>2
    <3> QED BY <3>3 DEF m, S
  <2> QED BY <2>5 DEF node
<1>5. ASSUME NEW n \in 1 .. N PROVE children[n] \in Seq(1 .. N)
  <2>1. CASE t.node[n].isLeaf
    <3>1. children[n] = <<>>
      BY <1>3, <2>1
    <3> QED BY <3>1
  <2>2. CASE ~t.node[n].isLeaf
    BY <1>3, <1>4, <2>2
  <2> QED BY <2>1, <2>2
<1>6. children \in Seq(Seq(1 .. N)) /\ Len(children) = N
  BY <1>1, <1>3, <1>5
<1>7. \A n \in 1 .. N : t.node[n].isLeaf => children[n] = <<>>
  BY <1>3
<1>8. \A n \in 1 .. N : ~t.node[n].isLeaf =>
        children[n] = Targets(t.node[n]) /\ Len(children[n]) = t.node[n].elemCount
  BY <1>3, <1>4
<1>9. ChildrenOf(t, children)
  BY <1>6, <1>7, <1>8 DEF ChildrenOf, N
<1> QED BY <1>9 DEF children

\* A child by its place among its siblings.
LEMMA ChildAt ==
    ASSUME NEW t, NEW lv, NEW pf, TrieOK(t, lv, pf), NEW n \in 1 .. Len(t.node),
           NEW j \in 1 .. Len(TrieChildren(t)[n])
    PROVE  LET p == OnePositions(t.node[n].bitmap)[j]
               c == TrieChildren(t)[n][j]
           IN  /\ lv[n] # Depth - 1 /\ p \in DOMAIN t.node[n].ptr /\ p \in Positions
               /\ j \in 1 .. t.node[n].elemCount
               /\ c = t.node[n].ptr[p] /\ c \in 1 .. Len(t.node)
               /\ lv[c] = lv[n] + 1 /\ pf[c] = pf[n] * TriePerNode + p
               /\ pf[n] = pf[c] \div TriePerNode /\ p = pf[c] % TriePerNode
<1> DEFINE node == t.node[n]
           pos == OnePositions(node.bitmap)
           c == TrieChildren(t)[n][j]
           p == pos[j]
<1>1. NodeOK(node) /\ node.isLeaf = (lv[n] = Depth - 1) /\ pf[n] \in Nat
  BY DEF TrieOK, NodesOK
<1>2. ~node.isLeaf /\ TrieChildren(t)[n] = Targets(node) /\ j \in 1 .. node.elemCount
  <2>0. ChildrenOf(t, TrieChildren(t))
    BY ChildrenAre
  <2>1. node.isLeaf => Len(TrieChildren(t)[n]) = 0
    BY <2>0 DEF ChildrenOf
  <2>2. ~node.isLeaf
    BY <2>1
  <2> QED BY <2>0, <2>2 DEF ChildrenOf
<1>3. p \in DOMAIN node.ptr /\ c = node.ptr[p]
  <2> HIDE DEF node
  <2>1. /\ pos \in Seq(DOMAIN node.ptr) /\ Len(pos) = node.elemCount
        /\ Targets(node) = [i \in 1 .. node.elemCount |-> node.ptr[pos[i]]]
    BY <1>1, TargetsAre
  <2> HIDE DEF pos
  <2> QED BY <1>2, <2>1, ElementOfSeq
<1>4. p \in Positions
  <2>1. DOMAIN node.ptr \in SUBSET Positions
    BY <1>1 DEF NodeOK, TrieNode
  <2> QED BY <1>3, <2>1
<1> HIDE DEF pos, p, c
<1>5. c \in 1 .. Len(t.node) /\ lv[c] = lv[n] + 1 /\ pf[c] = pf[n] * TriePerNode + p
  BY <1>1, <1>2, <1>3 DEF TrieOK, NodesOK
<1>6. pf[n] = pf[c] \div TriePerNode /\ p = pf[c] % TriePerNode
  BY <1>1, <1>4, <1>5, TrieDivision
<1> QED BY <1>1, <1>2, <1>3, <1>4, <1>5, <1>6 DEF p, pos, c

LEMMA TrieIsTree ==
    ASSUME NEW t, NEW lv, NEW pf, TrieOK(t, lv, pf)
    PROVE  IsTree(TrieChildren(t), Root, lv)
<1> DEFINE children == TrieChildren(t)
           Nodes == 1 .. Len(t.node)
<1>1. children \in Seq(Seq(Nodes)) /\ Len(children) = Len(t.node)
  BY ChildrenAre DEF ChildrenOf
<1>2. /\ lv \in [Nodes -> 0 .. Depth - 1] /\ Root \in Nodes /\ lv[Root] = 0
      /\ \A m, n \in Nodes : lv[m] = lv[n] /\ pf[m] = pf[n] => m = n
      /\ \A n \in Nodes : NodeOK(t.node[n])
      /\ \A n \in Nodes : t.node[n].isLeaf = (lv[n] = Depth - 1)
  BY DEF TrieOK, NodesOK, Root
<1>3. lv \in [Nodes -> Nat]
  <2>1. 0 .. Depth - 1 \subseteq Nat
    OBVIOUS
  <2> QED BY <1>2, <2>1
<1>4. ASSUME NEW m \in Nodes, NEW n \in Nodes,
             NEW j \in 1 .. Len(children[m]), NEW k \in 1 .. Len(children[n])
      PROVE  children[m][j] # Root /\ (children[m][j] = children[n][k] => m = n /\ j = k)
  <2> DEFINE p == OnePositions(t.node[m].bitmap)[j]
             q == OnePositions(t.node[n].bitmap)[k]
             b == children[m][j]
             c == children[n][k]
  <2>1. /\ b \in Nodes /\ lv[b] = lv[m] + 1 /\ j \in 1 .. t.node[m].elemCount
        /\ pf[m] = pf[b] \div TriePerNode /\ p = pf[b] % TriePerNode
    BY ChildAt
  <2>2. /\ c \in Nodes /\ lv[c] = lv[n] + 1 /\ k \in 1 .. t.node[n].elemCount
        /\ pf[n] = pf[c] \div TriePerNode /\ q = pf[c] % TriePerNode
    BY ChildAt
  <2> HIDE DEF b, c, p, q
  <2>3. b # Root
    BY <1>2, <1>3, <2>1
  <2>4. ASSUME b = c PROVE m = n /\ j = k
    <3>0. lv[m] \in Nat /\ lv[n] \in Nat /\ lv[m] + 1 = lv[n] + 1
      BY <1>3, <2>1, <2>2, <2>4
    <3>1. lv[m] = lv[n]
      BY <3>0
    <3>2. m = n /\ p = q
      <4>1. pf[m] = pf[n] /\ p = q
        BY <2>1, <2>2, <2>4
      <4> QED BY <1>2, <3>1, <4>1
    <3>3. \A h, i \in 1 .. t.node[m].elemCount :
            OnePositions(t.node[m].bitmap)[h] = OnePositions(t.node[m].bitmap)[i] => h = i
      BY <1>2, TargetsAre
    <3> QED BY <2>1, <2>2, <3>2, <3>3 DEF p, q
  <2> QED BY <2>3, <2>4 DEF b, c
<1>5. ASSUME NEW n \in Nodes \ {Root}
      PROVE  \E m \in Nodes : \E j \in 1 .. Len(children[m]) : children[m][j] = n /\ lv[m] < lv[n]
  <2>1. PICK m \in Nodes : \E p \in DOMAIN t.node[m].ptr :
          lv[m] # Depth - 1 /\ t.node[m].ptr[p] = n /\ lv[n] = lv[m] + 1
    BY ParentOf DEF Root
  <2>2. PICK p \in DOMAIN t.node[m].ptr :
          lv[m] # Depth - 1 /\ t.node[m].ptr[p] = n /\ lv[n] = lv[m] + 1
    BY <2>1
  <2> DEFINE node == t.node[m]
             pos == OnePositions(node.bitmap)
  <2>3. NodeOK(node) /\ children[m] = Targets(node) /\ Len(children[m]) = node.elemCount
    <3>1. ~node.isLeaf /\ NodeOK(node)
      BY <1>2, <2>2
    <3> QED BY <3>1, ChildrenAre DEF ChildrenOf
  <2>4. PICK j \in 1 .. node.elemCount : pos[j] = p /\ Targets(node)[j] = node.ptr[pos[j]]
    <3> HIDE DEF node
    <3>1. /\ \A h \in DOMAIN node.ptr : \E j \in 1 .. node.elemCount : pos[j] = h
          /\ Targets(node) = [i \in 1 .. node.elemCount |-> node.ptr[pos[i]]]
      BY <2>3, TargetsAre
    <3> HIDE DEF pos
    <3>2. p \in DOMAIN node.ptr
      BY <2>2 DEF node
    <3>3. PICK j \in 1 .. node.elemCount : pos[j] = p
      BY <3>1, <3>2
    <3>4. Targets(node)[j] = node.ptr[pos[j]]
      BY <3>1
    <3> QED BY <3>3, <3>4
  <2>5. lv[m] < lv[n]
    BY <1>3, <2>2
  <2> HIDE DEF children, pos
  <2> QED BY <2>2, <2>3, <2>4, <2>5
<1> HIDE DEF children, Nodes
<1> DEFINE I == 1 .. Len(children)
<1>6. I = Nodes
  BY <1>1 DEF Nodes
<1> HIDE DEF I
<1>7. children \in Seq(Seq(I)) /\ Root \in I /\ lv \in [I -> Nat]
  BY <1>1, <1>2, <1>3, <1>6
<1>8. \A m, n \in I : \A j \in 1 .. Len(children[m]), k \in 1 .. Len(children[n]) :
        children[m][j] # Root /\ (children[m][j] = children[n][k] => m = n /\ j = k)
  BY <1>4, <1>6
<1>9. \A n \in I \ {Root} : \E m \in I : \E j \in 1 .. Len(children[m]) :
        children[m][j] = n /\ lv[m] < lv[n]
  BY <1>5, <1>6
<1>10. IsTree(children, Root, lv)
  BY <1>7, <1>8, <1>9 DEF IsTree, I
<1> QED BY <1>10 DEF children

\* ~Trie meets every node once: the counter ends at 0.
LEMMA TrieOrder ==
    ASSUME NEW t, NEW lv, NEW pf, TrieOK(t, lv, pf)
    PROVE  LET pushed == BreadthFirst(TrieChildren(t), Root)
           IN  /\ \A i \in 0 .. Len(t.node) : pushed[i] \in Seq(1 .. Len(t.node))
               /\ IsOrder(TrieChildren(t), Root, pushed[Len(t.node)],
                          [i \in 0 .. Len(t.node) |-> Len(pushed[i])])
<1>1. Len(TrieChildren(t)) = Len(t.node)
  BY ChildrenAre DEF ChildrenOf
<1>2. IsTree(TrieChildren(t), Root, lv)
  BY TrieIsTree
<1> QED BY <1>1, <1>2, BreadthFirstAll

-----------------------------------------------------------------------------
(* A node in the file *)

LEMMA HeaderIs ==
    ASSUME NEW node, NodeOK(node), NEW offsets \in Seq(Nat), Len(offsets) = node.elemCount
    PROVE  Header(node, offsets) \in Seq(Nat) /\ Len(Header(node, offsets)) = HeaderSize(node)
           /\ HeaderSize(node) = 3 + Bits + node.elemCount /\ HeaderSize(node) \in Nat
<1> DEFINE b == node.bitmap
           c == node.elemCount
           w == Len(b) \div WordBits
           front == <<Flag(node.isLeaf), c>>
<1>1. b \in Seq({0, 1}) /\ Len(b) = Bits /\ c \in Nat /\ Bits \in Nat
  BY NewBitmapIs DEF NodeOK, TrieNode
<1>2. w \in Nat
  <2>1. WordBits \in Nat /\ WordBits > 0
    BY WordBitsAssumption
  <2> QED BY <1>1, <2>1, Division
<1> HIDE DEF b, c, w
<1>3. <<w>> \in Seq(Nat) /\ Len(<<w>>) = 1 /\ b \in Seq(Nat)
  <2>1. {0, 1} \subseteq Nat
    OBVIOUS
  <2> QED BY <1>1, <1>2, <2>1
<1>4. <<w>> \o b \in Seq(Nat) /\ Len(<<w>> \o b) = 1 + Bits
  BY <1>1, <1>3, ConcatProperties
<1>5. front \in Seq(Nat) /\ Len(front) = 2
  BY <1>1 DEF Flag
<1> HIDE DEF front
<1> DEFINE dump == <<w>> \o b
           most == front \o dump
           all == most \o offsets
<1>8. Header(node, offsets) = all
  BY DEF Header, Dump, front, b, c, w
<1>a. dump \in Seq(Nat) /\ Len(dump) = 1 + Bits
  BY <1>4
<1> HIDE DEF dump
<1>6. most \in Seq(Nat) /\ Len(most) = 3 + Bits
  <2>1. most \in Seq(Nat) /\ Len(most) = Len(front) + Len(dump)
    BY <1>5, <1>a, ConcatProperties
  <2> QED BY <1>1, <1>5, <1>a, <2>1
<1> HIDE DEF most
<1>7. all \in Seq(Nat) /\ Len(all) = 3 + Bits + c
  <2>1. all \in Seq(Nat) /\ Len(all) = Len(most) + Len(offsets)
    BY <1>6, ConcatProperties
  <2> QED BY <1>1, <1>6, <2>1 DEF c
<1> HIDE DEF all
<1>9. HeaderSize(node) = 3 + Bits + c
  BY <1>1 DEF HeaderSize, b, c
<1> QED BY <1>1, <1>7, <1>8, <1>9 DEF c

\* readTrieNode reads what was written.
LEMMA HeaderRead ==
    ASSUME NEW node, NodeOK(node), NEW offsets \in Seq(Nat), Len(offsets) = node.elemCount,
           NEW data, Len(data) \in Nat, NEW at \in Nat, Holds(data, at, Header(node, offsets))
    PROVE  ReadNode(data, at) =
             [isLeaf |-> node.isLeaf, elemCount |-> node.elemCount, bitmap |-> node.bitmap,
              fileOffArray |-> offsets, end |-> at + HeaderSize(node)]
<1> DEFINE b == node.bitmap
           c == node.elemCount
           w == Len(b) \div WordBits
           front == <<Flag(node.isLeaf), c>>
           dump == <<w>> \o b
<1>1. b \in Seq({0, 1}) /\ Len(b) = Bits /\ c \in Nat /\ Bits \in Nat /\ node.isLeaf \in BOOLEAN
  BY NewBitmapIs DEF NodeOK, TrieNode
<1>2. w \in Nat /\ WordBits * w = Bits
  <2> DEFINE q == (TriePerNode + WordBits - 1) \div WordBits
  <2>1. WordBits \in Nat /\ WordBits > 0 /\ TriePerNode + WordBits - 1 \in Nat
    BY WordBitsAssumption, TriePerNodeAssumption
  <2>2. q \in Nat
    BY <2>1, Division
  <2>3. Bits = WordBits * q
    BY DEF Bits
  <2> HIDE DEF q
  <2>4. 0 \in 0 .. WordBits - 1
    BY <2>1
  <2>5. (q * WordBits + 0) \div WordBits = q
    BY <2>1, <2>2, <2>4, Division
  <2>6. q * WordBits + 0 = Bits
    BY <2>1, <2>2, <2>3
  <2>7. w = q
    BY <1>1, <2>5, <2>6
  <2> QED BY <2>2, <2>3, <2>7
<1>3. front \in Seq(Nat) /\ Len(front) = 2 /\ front[1] = Flag(node.isLeaf) /\ front[2] = c
  BY <1>1 DEF Flag
<1> HIDE DEF w, front
<1>4. <<w>> \in Seq(Nat) /\ Len(<<w>>) = 1 /\ <<w>>[1] = w /\ b \in Seq(Nat)
  <2>1. {0, 1} \subseteq Nat
    OBVIOUS
  <2> QED BY <1>1, <1>2, <2>1
<1>5. dump \in Seq(Nat) /\ Len(dump) = 1 + Bits
  BY <1>1, <1>4, ConcatProperties
<1>6. Holds(data, at, (front \o dump) \o offsets)
  BY DEF Header, Dump, front, w
<1> HIDE DEF b, c
<1>7. Holds(data, at, front) /\ Holds(data, at + 2, dump) /\ Holds(data, at + 3 + Bits, offsets)
  <2> HIDE DEF dump
  <2>1. front \o dump \in Seq(Nat) /\ Len(front \o dump) = 3 + Bits
    <3>1. front \o dump \in Seq(Nat) /\ Len(front \o dump) = Len(front) + Len(dump)
      BY <1>3, <1>5, ConcatProperties
    <3> QED BY <1>1, <1>3, <1>5, <3>1
  <2>2. Holds(data, at, front \o dump) /\ Holds(data, at + Len(front \o dump), offsets)
    BY <1>6, <2>1, HoldsConcat
  <2>3. Holds(data, at, front) /\ Holds(data, at + Len(front), dump)
    BY <1>3, <1>5, <2>2, HoldsConcat
  <2>4. at + Len(front \o dump) = at + 3 + Bits
    BY <1>1, <2>1
  <2> QED BY <1>3, <2>2, <2>3, <2>4
<1>8. Holds(data, at + 2, <<w>>) /\ Holds(data, at + 3, b)
  <2>1. Holds(data, at + 2, <<w>>) /\ Holds(data, at + 2 + Len(<<w>>), b)
    BY <1>4, <1>7, HoldsConcat
  <2>2. at + 2 + Len(<<w>>) = at + 3
    BY <1>4
  <2> QED BY <2>1, <2>2
<1>9. data[at + 1] = Flag(node.isLeaf) /\ data[at + 2] = c /\ data[at + 3] = w
  <2>1. 1 \in 1 .. Len(front) /\ 2 \in 1 .. Len(front) /\ 1 \in 1 .. Len(<<w>>)
    BY <1>3, <1>4
  <2>2. data[at + 1] = front[1] /\ data[at + 2] = front[2] /\ data[at + 2 + 1] = <<w>>[1]
    BY <1>7, <1>8, <2>1 DEF Holds
  <2>3. at + 2 + 1 = at + 3
    OBVIOUS
  <2> QED BY <1>3, <1>4, <2>2, <2>3
<1>10. ReadBitmap(data, at + 3) = b
  <2>1. SubSeq(data, at + 3 + 1, at + 3 + Bits) = b
    BY <1>1, <1>4, <1>8, HoldsRead DEF b
  <2> QED BY <1>2, <1>9, <2>1 DEF ReadBitmap
<1> DEFINE end == at + 3 + Bits + c
<1>11. SubSeq(data, end - c + 1, end) = offsets
  <2>1. SubSeq(data, at + 3 + Bits + 1, at + 3 + Bits + Len(offsets)) = offsets
    BY <1>7, HoldsRead
  <2>2. end - c + 1 = at + 3 + Bits + 1 /\ end = at + 3 + Bits + Len(offsets)
    BY <1>1 DEF c
  <2> QED BY <2>1, <2>2
<1>12. end = at + HeaderSize(node)
  BY <1>1, HeaderIs DEF c
<1>13. (data[at + 1] = 1) = node.isLeaf
  BY <1>1, <1>9 DEF Flag
<1>14. ReadNode(data, at) =
         [isLeaf |-> data[at + 1] = 1, elemCount |-> c, bitmap |-> b,
          fileOffArray |-> SubSeq(data, end - c + 1, end), end |-> end]
  <2>1. Len(b) = Bits
    BY <1>1
  <2> QED BY <1>9, <1>10, <2>1 DEF ReadNode
<1> QED BY <1>11, <1>12, <1>13, <1>14 DEF b, c

HoldsLists(node) == \A p \in DOMAIN node.ptr : node.ptr[p] \in Seq(Nat)

\* What write2file of a leaf writes, and readLinklist reads.
LEMMA LeafListsAre ==
    ASSUME NEW node, NodeOK(node), HoldsLists(node)
    PROVE  LET lists == Targets(node)
           IN  /\ lists \in Seq(Seq(Nat)) /\ Len(lists) = node.elemCount
               /\ ListOffsets(lists) \in Seq(Nat) /\ Len(ListOffsets(lists)) = node.elemCount
               /\ \A i \in 1 .. node.elemCount : ListOffsets(lists)[i] = ListSizes(lists)[i - 1]
<1> DEFINE lists == Targets(node)
           pos == OnePositions(node.bitmap)
           c == node.elemCount
<1>1. pos \in Seq(DOMAIN node.ptr) /\ Len(pos) = c /\ c \in Nat
      /\ lists = [i \in 1 .. c |-> node.ptr[pos[i]]]
  BY TargetsAre
<1> HIDE DEF pos, c, lists
<1>2. ASSUME NEW i \in 1 .. c PROVE node.ptr[pos[i]] \in Seq(Nat)
  BY <1>1, ElementOfSeq DEF HoldsLists
<1>3. lists \in Seq(Seq(Nat)) /\ Len(lists) = c
  BY <1>1, <1>2
<1>4. ListSizes(lists) \in [0 .. c -> Nat]
  BY <1>3, ListSizesAre
<1>5. ListOffsets(lists) = [i \in 1 .. c |-> ListSizes(lists)[i - 1]]
  BY <1>1, <1>3 DEF ListOffsets
<1>6. \A i \in 1 .. c : ListSizes(lists)[i - 1] \in Nat
  <2>1. \A i \in 1 .. c : i - 1 \in 0 .. c
    BY <1>1
  <2> QED BY <1>4, <2>1
<1> DEFINE f == ListOffsets(lists)
<1>7. f \in Seq(Nat) /\ Len(f) = c /\ \A i \in 1 .. c : f[i] = ListSizes(lists)[i - 1]
  BY <1>1, <1>5, <1>6
<1> QED BY <1>3, <1>7 DEF lists, c

LEMMA LeafFieldsAre ==
    ASSUME NEW node, NodeOK(node), HoldsLists(node), node.isLeaf
    PROVE  LET lists == Targets(node)
               header == Header(node, ListOffsets(lists))
           IN  /\ TrieLeafFields(node) = header \o Joined(ListParts(lists))
               /\ header \in Seq(Nat) /\ Joined(ListParts(lists)) \in Seq(Nat)
               /\ Len(Joined(ListParts(lists))) = ListsSize(lists)
               /\ TrieLeafFields(node) \in Seq(Nat) /\ Len(TrieLeafFields(node)) = TrieNodeSize(node)
<1> DEFINE lists == Targets(node)
           header == Header(node, ListOffsets(lists))
           body == Joined(ListParts(lists))
           all == TrieLeafFields(node)
<1>1. /\ lists \in Seq(Seq(Nat)) /\ Len(lists) = node.elemCount
      /\ ListOffsets(lists) \in Seq(Nat) /\ Len(ListOffsets(lists)) = node.elemCount
  BY LeafListsAre
<1>2. all = header \o body
  BY DEF TrieLeafFields, ListParts
<1> HIDE DEF lists
<1>3. header \in Seq(Nat) /\ Len(header) = HeaderSize(node)
  BY <1>1, HeaderIs
<1>4. /\ ListParts(lists) \in Seq(Seq(Nat)) /\ Len(ListParts(lists)) = Len(lists)
      /\ ListSizes(lists) = Starts(ListParts(lists))
  BY <1>1, ListSizesAre
<1>5. body \in Seq(Nat) /\ Len(body) = Starts(ListParts(lists))[Len(ListParts(lists))]
  BY <1>4, JoinedAt
<1>6. Len(body) = ListsSize(lists)
  BY <1>4, <1>5 DEF ListsSize
<1>7. TrieNodeSize(node) = HeaderSize(node) + ListsSize(lists)
  BY DEF TrieNodeSize, lists
<1> HIDE DEF header, body, all
<1>8. all \in Seq(Nat) /\ Len(all) = Len(header) + Len(body)
  <2>1. header \in Seq(Nat) /\ body \in Seq(Nat)
    BY <1>3, <1>5
  <2>2. header \o body \in Seq(Nat) /\ Len(header \o body) = Len(header) + Len(body)
    BY <2>1, ConcatProperties
  <2> QED BY <1>2, <2>2
<1>9. Len(all) = TrieNodeSize(node)
  BY <1>3, <1>6, <1>7, <1>8
<1> QED BY <1>2, <1>3, <1>5, <1>6, <1>8, <1>9 DEF all, header, body, lists

\* What a node writes has the size it announced.
OffsetsOK(node, offsets) == ~node.isLeaf => offsets \in Seq(Nat) /\ Len(offsets) = node.elemCount

LEMMA FieldsAre ==
    ASSUME NEW node, NodeOK(node), node.isLeaf => HoldsLists(node),
           NEW offsets, OffsetsOK(node, offsets)
    PROVE  /\ TrieFields(node, offsets) \in Seq(Nat)
           /\ Len(TrieFields(node, offsets)) = TrieNodeSize(node)
           /\ TrieNodeSize(node) \in Nat /\ TrieNodeSize(node) >= 1
<1> DEFINE f == TrieFields(node, offsets)
<1>1. node.elemCount \in Nat /\ Bits \in Nat
  BY NewBitmapIs DEF NodeOK, TrieNode
<1>2. CASE node.isLeaf
  <2>1. f \in Seq(Nat) /\ Len(f) = TrieNodeSize(node)
    BY <1>2, LeafFieldsAre DEF TrieFields
  <2>2. TrieNodeSize(node) \in Nat
    BY <2>1, LenProperties
  <2>3. HeaderSize(node) \in Nat /\ HeaderSize(node) >= 3
    BY <1>1 DEF HeaderSize, NodeOK
  <2> DEFINE lists == Targets(node)
  <2>4. Len(Joined(ListParts(lists))) = ListsSize(lists) /\ Joined(ListParts(lists)) \in Seq(Nat)
    BY <1>2, LeafFieldsAre
  <2>5. ListsSize(lists) \in Nat
    BY <2>4, LenProperties
  <2>6. TrieNodeSize(node) = HeaderSize(node) + ListsSize(lists)
    BY <1>2 DEF TrieNodeSize
  <2> HIDE DEF f, lists
  <2>7. TrieNodeSize(node) >= 1
    BY <2>3, <2>5, <2>6
  <2> QED BY <2>1, <2>2, <2>7 DEF f
<1>3. CASE ~node.isLeaf
  <2>1. offsets \in Seq(Nat) /\ Len(offsets) = node.elemCount /\ f = Header(node, offsets)
    BY <1>3 DEF OffsetsOK, TrieFields
  <2>2. /\ f \in Seq(Nat) /\ Len(f) = HeaderSize(node)
        /\ HeaderSize(node) = 3 + Bits + node.elemCount /\ HeaderSize(node) \in Nat
    BY <2>1, HeaderIs
  <2> HIDE DEF f
  <2>3. TrieNodeSize(node) = HeaderSize(node) + 0
    BY <1>3 DEF TrieNodeSize
  <2>4. HeaderSize(node) >= 1
    BY <1>1, <2>2
  <2> QED BY <2>2, <2>3, <2>4 DEF f
<1> QED BY <1>2, <1>3

\* The place of a position among those of a node, and the node as it is when fresh:
\* its children are numbered from due on.
Place(node, p) ==
    LET pos == OnePositions(node.bitmap)
    IN  CHOOSE j \in DOMAIN pos : pos[j] = p
LoadedPtr(node, due) ==
    [p \in DOMAIN node.ptr |-> IF node.isLeaf THEN node.ptr[p] ELSE due + Place(node, p)]
Loaded(node, due) ==
    [isLeaf |-> node.isLeaf, elemCount |-> node.elemCount, bitmap |-> node.bitmap,
     ptr |-> LoadedPtr(node, due)]

LEMMA PlaceIs ==
    ASSUME NEW node, NodeOK(node), NEW p \in DOMAIN node.ptr
    PROVE  /\ Place(node, p) \in 1 .. node.elemCount
           /\ OnePositions(node.bitmap)[Place(node, p)] = p
           /\ \A j \in 1 .. node.elemCount : OnePositions(node.bitmap)[j] = p => j = Place(node, p)
<1> DEFINE pos == OnePositions(node.bitmap)
           c == node.elemCount
<1>1. /\ pos \in Seq(DOMAIN node.ptr) /\ Len(pos) = c /\ c \in Nat
      /\ \A j, k \in 1 .. c : pos[j] = pos[k] => j = k
      /\ \E j \in 1 .. c : pos[j] = p
  BY TargetsAre
<1>2. Place(node, p) = CHOOSE j \in DOMAIN pos : pos[j] = p
  BY DEF Place
<1> HIDE DEF pos, c
<1>3. DOMAIN pos = 1 .. c
  BY <1>1
<1>4. Place(node, p) \in 1 .. c /\ pos[Place(node, p)] = p
  BY <1>1, <1>2, <1>3
<1>5. \A j \in 1 .. c : pos[j] = p => j = Place(node, p)
  BY <1>1, <1>4
<1> QED BY <1>4, <1>5 DEF pos, c

\* readFromFile gets the node that was written.
LEMMA NodeRead ==
    ASSUME NEW node, NodeOK(node), node.isLeaf => HoldsLists(node),
           NEW offsets, OffsetsOK(node, offsets), NEW due \in Nat,
           NEW data, Len(data) \in Nat, NEW at \in Nat, Holds(data, at, TrieFields(node, offsets))
    PROVE  LoadNode(data, at, due) = [node |-> Loaded(node, due), end |-> at + TrieNodeSize(node)]
<1> DEFINE pos == OnePositions(node.bitmap)
           c == node.elemCount
           end == at + HeaderSize(node)
           read == ReadLists(data, end, c)
           D == {pos[j] : j \in DOMAIN pos}
<1>1. /\ pos \in Seq(DOMAIN node.ptr) /\ Len(pos) = c /\ c \in Nat
      /\ \A p \in DOMAIN node.ptr : \E j \in 1 .. c : pos[j] = p
      /\ Targets(node) = [i \in 1 .. c |-> node.ptr[pos[i]]]
  BY TargetsAre
<1>2. D = DOMAIN node.ptr
  <2> HIDE DEF pos
  <2>1. DOMAIN pos = 1 .. c /\ \A j \in 1 .. c : pos[j] \in DOMAIN node.ptr
    BY <1>1, ElementOfSeq
  <2> QED BY <1>1, <2>1
<1>3. \E offs : ReadNode(data, at) =
         [isLeaf |-> node.isLeaf, elemCount |-> node.elemCount, bitmap |-> node.bitmap,
          fileOffArray |-> offs, end |-> end]
  <2>1. CASE node.isLeaf
    <3> DEFINE offs == ListOffsets(Targets(node))
               body == Joined(ListParts(Targets(node)))
    <3>1. /\ TrieLeafFields(node) = Header(node, offs) \o body
          /\ Header(node, offs) \in Seq(Nat) /\ body \in Seq(Nat)
      BY <2>1, LeafFieldsAre
    <3>2. offs \in Seq(Nat) /\ Len(offs) = node.elemCount
      BY <2>1, LeafListsAre
    <3> HIDE DEF offs, body
    <3>3. Holds(data, at, Header(node, offs))
      BY <2>1, <3>1, HoldsConcat DEF TrieFields
    <3> QED BY <3>2, <3>3, HeaderRead
  <2>2. CASE ~node.isLeaf
    <3>1. offsets \in Seq(Nat) /\ Len(offsets) = node.elemCount /\ Holds(data, at, Header(node, offsets))
      BY <2>2 DEF OffsetsOK, TrieFields
    <3> QED BY <3>1, HeaderRead
  <2> QED BY <2>1, <2>2
<1>4. LoadNode(data, at, due) =
        [node |-> [isLeaf |-> node.isLeaf, elemCount |-> c, bitmap |-> node.bitmap,
                   ptr |-> [p \in D |-> IF node.isLeaf THEN read.lists[Place(node, p)]
                                                       ELSE due + Place(node, p)]],
         end |-> IF node.isLeaf THEN read.at ELSE end]
  BY <1>3 DEF LoadNode, Place, ChildNumber
<1>5. ASSUME node.isLeaf
      PROVE  read = [at |-> end + ListsSize(Targets(node)), lists |-> Targets(node)]
  <2> DEFINE lists == Targets(node)
             header == Header(node, ListOffsets(lists))
             parts == ListParts(lists)
  <2>1. lists \in Seq(Seq(Nat)) /\ Len(lists) = c /\ Len(ListOffsets(lists)) = c
        /\ ListOffsets(lists) \in Seq(Nat)
    BY <1>5, LeafListsAre
  <2>2. /\ TrieLeafFields(node) = header \o Joined(parts)
        /\ header \in Seq(Nat) /\ Joined(parts) \in Seq(Nat)
    BY <1>5, LeafFieldsAre
  <2>3. Len(header) = HeaderSize(node) /\ HeaderSize(node) \in Nat
    BY <2>1, HeaderIs
  <2>4. parts \in Seq(Seq(Nat)) /\ Len(parts) = Len(lists) /\ ListSizes(lists) = Starts(parts)
        /\ ListSizes(lists)[0] = 0 /\ \A h \in 1 .. Len(lists) : parts[h] = ListFields(lists[h])
    <3> HIDE DEF lists
    <3>1. parts \in Seq(Seq(Nat)) /\ Len(parts) = Len(lists) /\ ListSizes(lists) = Starts(parts)
          /\ ListSizes(lists)[0] = 0
      BY <2>1, ListSizesAre
    <3>2. \A h \in 1 .. Len(lists) : parts[h] = ListFields(lists[h])
      BY <2>1 DEF ListParts
    <3> QED BY <3>1, <3>2
  <2> HIDE DEF lists, header, parts
  <2>5. Holds(data, end, Joined(parts))
    BY <1>5, <2>2, <2>3, HoldsConcat DEF TrieFields
  <2> HIDE DEF end
  <2>6. \A h \in 1 .. Len(parts) : Holds(data, end + Starts(parts)[h - 1], parts[h])
    BY <2>4, <2>5, HoldsJoined
  <2>7. \A h \in 1 .. Len(lists) : Holds(data, end + ListSizes(lists)[h - 1], ListFields(lists[h]))
    BY <2>4, <2>6
  <2>8. 0 \in 0 .. Len(lists) /\ c \in 0 .. Len(lists) - 0 /\ end \in Nat /\ end + 0 = end /\ 0 + c = c
    BY <1>1, <2>1, <2>3 DEF end
  <2>9. ReadLists(data, end + ListSizes(lists)[0], c) =
          [at |-> end + ListSizes(lists)[0 + c], lists |-> Piece(lists, 0, c)]
    BY <2>1, <2>7, <2>8, ReadListsAt
  <2>10. Piece(lists, 0, c) = lists
    <3>1. \A h \in 1 .. c : 0 + h = h
      BY <1>1
    <3> QED BY <1>1, <2>1, <3>1 DEF Piece
  <2> QED BY <2>1, <2>4, <2>8, <2>9, <2>10 DEF lists, ListsSize
<1>6. ASSUME NEW p \in DOMAIN node.ptr, node.isLeaf
      PROVE  Targets(node)[Place(node, p)] = node.ptr[p]
  <2> HIDE DEF pos, c
  <2>1. Place(node, p) \in 1 .. c /\ pos[Place(node, p)] = p
    BY PlaceIs DEF pos, c
  <2> QED BY <1>1, <2>1
<1>7. [p \in D |-> IF node.isLeaf THEN read.lists[Place(node, p)] ELSE due + Place(node, p)]
        = LoadedPtr(node, due)
  <2> HIDE DEF D, read
  <2>1. \A p \in D : node.isLeaf => read.lists[Place(node, p)] = node.ptr[p]
    BY <1>2, <1>5, <1>6
  <2> QED BY <1>2, <2>1 DEF LoadedPtr
<1>8. (IF node.isLeaf THEN read.at ELSE end) = at + TrieNodeSize(node)
  <2>0. node.isLeaf \in BOOLEAN /\ HeaderSize(node) \in Nat
    BY <1>1, NewBitmapIs DEF NodeOK, TrieNode, HeaderSize
  <2>1. CASE node.isLeaf
    <3> DEFINE m == ListsSize(Targets(node))
    <3>1. read.at = end + m /\ TrieNodeSize(node) = HeaderSize(node) + m
      BY <1>5, <2>1 DEF TrieNodeSize
    <3>2. m \in Nat
      <4>1. Joined(ListParts(Targets(node))) \in Seq(Nat) /\ Len(Joined(ListParts(Targets(node)))) = m
        BY <2>1, LeafFieldsAre
      <4> QED BY <4>1, LenProperties
    <3> HIDE DEF m, read
    <3> QED BY <2>0, <2>1, <3>1, <3>2
  <2>2. CASE ~node.isLeaf
    BY <2>0, <2>2 DEF TrieNodeSize
  <2> QED BY <2>1, <2>2
<1> QED BY <1>4, <1>7, <1>8 DEF Loaded

LEMMA LoadedOK ==
    ASSUME NEW node, NodeOK(node), node.isLeaf => HoldsLists(node), NEW due \in Nat
    PROVE  LET new == Loaded(node, due)
           IN  /\ NodeOK(new) /\ new.isLeaf = node.isLeaf /\ new.elemCount = node.elemCount
               /\ new.bitmap = node.bitmap /\ DOMAIN new.ptr = DOMAIN node.ptr
               /\ new.isLeaf => new = node
               /\ ~new.isLeaf => \A p \in DOMAIN node.ptr : new.ptr[p] = due + Place(node, p)
<1> DEFINE new == Loaded(node, due)
           D == DOMAIN node.ptr
           f == LoadedPtr(node, due)
<1>1. /\ node \in TrieNode /\ node.isLeaf \in BOOLEAN /\ node.elemCount \in Nat
      /\ node.ptr \in [D -> Nat \cup Seq(Nat)] /\ D \in SUBSET Positions /\ node.bitmap \in Seq({0, 1})
  BY DEF NodeOK, TrieNode
<1>2. \A p \in D : Place(node, p) \in Nat
  <2>1. \A p \in D : Place(node, p) \in 1 .. node.elemCount
    BY PlaceIs
  <2> QED BY <1>1, <2>1
<1>3. f \in [D -> Nat \cup Seq(Nat)] /\ DOMAIN f = D
  BY <1>1, <1>2 DEF LoadedPtr
<1>4. node.isLeaf => f = node.ptr
  BY <1>1 DEF LoadedPtr
<1>5. ~node.isLeaf => \A p \in D : f[p] = due + Place(node, p)
  BY DEF LoadedPtr
<1> HIDE DEF f
<1>6. new = [isLeaf |-> node.isLeaf, elemCount |-> node.elemCount, bitmap |-> node.bitmap, ptr |-> f]
  BY DEF Loaded, f
<1>7. /\ new.isLeaf = node.isLeaf /\ new.elemCount = node.elemCount /\ new.bitmap = node.bitmap
      /\ new.ptr = f
  BY <1>6
<1>8. f \in UNION {[I -> Nat \cup Seq(Nat)] : I \in SUBSET Positions}
  BY <1>1, <1>3
<1>9. new \in TrieNode
  BY <1>1, <1>6, <1>8 DEF TrieNode
<1>10. node.isLeaf => new = node
  BY <1>1, <1>4, <1>6 DEF TrieNode
<1> HIDE DEF new
<1>11. NodeOK(new)
  BY <1>3, <1>7, <1>9 DEF NodeOK
<1> QED BY <1>3, <1>5, <1>7, <1>10, <1>11 DEF new

-----------------------------------------------------------------------------
(* The file *)

\* The nodes in the order in which they go to the file; how many are in the queue or
\* written when i of them were written; where each of them starts.
Pushed(t) == BreadthFirst(TrieChildren(t), Root)
OrderOf(t) == Pushed(t)[Len(t.node)]
DueOf(t) == [i \in 0 .. Len(t.node) |-> Len(Pushed(t)[i])]
SizesOf(t) == [i \in 1 .. Len(t.node) |-> TrieNodeSize(t.node[OrderOf(t)[i]])]
OffsetsOf(t, i) == [j \in DOMAIN TrieChildren(t)[OrderOf(t)[i]] |-> Sums(SizesOf(t))[DueOf(t)[i - 1] + j - 1]]
TrieParts(t) == [i \in 1 .. Len(t.node) |-> TrieFields(t.node[OrderOf(t)[i]], OffsetsOf(t, i))]

LEMMA OrderIs ==
    ASSUME NEW t, NEW lv, NEW pf, TrieOK(t, lv, pf)
    PROVE  /\ IsOrder(TrieChildren(t), Root, OrderOf(t), DueOf(t))
           /\ OrderOf(t) \in Seq(1 .. Len(t.node)) /\ Len(OrderOf(t)) = Len(t.node)
           /\ \A i \in 1 .. Len(t.node) :
                /\ OrderOf(t)[i] \in 1 .. Len(t.node) /\ NodeOK(t.node[OrderOf(t)[i]])
                /\ t.node[OrderOf(t)[i]].isLeaf => HoldsLists(t.node[OrderOf(t)[i]])
<1>1. IsOrder(TrieChildren(t), Root, OrderOf(t), DueOf(t))
  BY TrieOrder DEF Pushed, OrderOf, DueOf
<1>2. Len(TrieChildren(t)) = Len(t.node)
  BY ChildrenAre DEF ChildrenOf
<1>3. OrderOf(t) \in Seq(1 .. Len(t.node)) /\ Len(OrderOf(t)) = Len(t.node)
  BY <1>1, <1>2 DEF IsOrder
<1>4. \A n \in 1 .. Len(t.node) : NodeOK(t.node[n]) /\ (t.node[n].isLeaf => HoldsLists(t.node[n]))
  BY DEF TrieOK, NodesOK, HoldsLists
<1>5. \A i \in 1 .. Len(t.node) : OrderOf(t)[i] \in 1 .. Len(t.node)
  BY <1>3, ElementOfSeq
<1> QED BY <1>1, <1>3, <1>4, <1>5

\* A child is promised before its parent's part ends, and comes at its number.
LEMMA DueIs ==
    ASSUME NEW t, NEW lv, NEW pf, TrieOK(t, lv, pf)
    PROVE  /\ Len(t.node) \in Nat /\ DueOf(t) \in [0 .. Len(t.node) -> 1 .. Len(t.node)]
           /\ DueOf(t)[0] = 1 /\ DueOf(t)[Len(t.node)] = Len(t.node)
           /\ OrderOf(t)[1] = Root
           /\ \A k, l \in 1 .. Len(t.node) : OrderOf(t)[k] = OrderOf(t)[l] => k = l
           /\ \A n \in 1 .. Len(t.node) : \E k \in 1 .. Len(t.node) : OrderOf(t)[k] = n
           /\ \A i \in 1 .. Len(t.node) :
                /\ i <= DueOf(t)[i - 1]
                /\ DueOf(t)[i] = DueOf(t)[i - 1] + Len(TrieChildren(t)[OrderOf(t)[i]])
           /\ \A i \in 1 .. Len(t.node) : \A k \in 1 .. Len(TrieChildren(t)[OrderOf(t)[i]]) :
                /\ DueOf(t)[i - 1] + k \in 1 .. Len(t.node)
                /\ OrderOf(t)[DueOf(t)[i - 1] + k] = TrieChildren(t)[OrderOf(t)[i]][k]
<1> DEFINE N == Len(TrieChildren(t))
<1>1. IsOrder(TrieChildren(t), Root, OrderOf(t), DueOf(t))
  BY OrderIs
<1>2. N = Len(t.node) /\ Len(t.node) \in Nat
  <2>1. N = Len(t.node)
    BY ChildrenAre DEF ChildrenOf
  <2>2. Len(t.node) \in Nat
    BY DEF TrieOK
  <2> QED BY <2>1, <2>2
<1> HIDE DEF N
<1>3. /\ DueOf(t) \in [0 .. N -> 1 .. N]
      /\ DueOf(t)[0] = 1 /\ DueOf(t)[N] = N
      /\ OrderOf(t)[1] = Root
      /\ \A k, l \in 1 .. N : OrderOf(t)[k] = OrderOf(t)[l] => k = l
      /\ \A n \in 1 .. N : \E k \in 1 .. N : OrderOf(t)[k] = n
      /\ \A i \in 1 .. N :
           /\ i <= DueOf(t)[i - 1]
           /\ DueOf(t)[i] = DueOf(t)[i - 1] + Len(TrieChildren(t)[OrderOf(t)[i]])
      /\ \A i \in 1 .. N : \A k \in 1 .. Len(TrieChildren(t)[OrderOf(t)[i]]) :
           /\ DueOf(t)[i - 1] + k \in 1 .. N
           /\ OrderOf(t)[DueOf(t)[i - 1] + k] = TrieChildren(t)[OrderOf(t)[i]][k]
  BY <1>1 DEF IsOrder, N
<1> QED BY <1>2, <1>3

LEMMA TrieWriteIs ==
    ASSUME NEW t, NEW lv, NEW pf, TrieOK(t, lv, pf)
    PROVE  TrieWrite(t) = Joined(TrieParts(t))
<1> DEFINE children == TrieChildren(t)
           order == OrderOf(t)
           N == Len(t.node)
           size == [n \in DOMAIN t.node |-> TrieNodeSize(t.node[n])]
           start == Sums([i \in DOMAIN order |-> size[order[i]]])
           offsetArray(i) == [j \in DOMAIN children[order[i]] |-> start[Len(Pushed(t)[i - 1]) + j - 1]]
<1>1. Len(children) = N /\ N \in Nat /\ DOMAIN t.node = 1 .. N
  <2>1. Len(children) = N
    BY ChildrenAre DEF ChildrenOf
  <2>2. t.node \in Seq(TrieNode)
    BY DEF TrieOK
  <2> QED BY <2>1, <2>2
<1>2. DOMAIN order = 1 .. N /\ \A i \in 1 .. N : order[i] \in 1 .. N
  BY OrderIs
<1>3. TrieWrite(t) = Joined([i \in DOMAIN order |-> TrieFields(t.node[order[i]], offsetArray(i))])
  <2>1. BreadthFirst(children, Root)[Len(children)] = order
    BY <1>1 DEF OrderOf, Pushed
  <2> QED BY <2>1 DEF TrieWrite, WriteNodes, Pushed
<1> HIDE DEF order, N, children
<1>4. [i \in DOMAIN order |-> size[order[i]]] = SizesOf(t)
  <2>1. \A i \in 1 .. N : size[order[i]] = TrieNodeSize(t.node[order[i]])
    BY <1>1, <1>2
  <2> QED BY <1>2, <2>1 DEF SizesOf, order, N
<1>5. \A i \in 1 .. N : DueOf(t)[i - 1] = Len(Pushed(t)[i - 1])
  <2>1. \A i \in 1 .. N : i - 1 \in 0 .. N
    BY <1>1
  <2> QED BY <2>1 DEF DueOf, N
<1>6. \A i \in 1 .. N : offsetArray(i) = OffsetsOf(t, i)
  BY <1>4, <1>5 DEF OffsetsOf, order, children
<1> HIDE DEF offsetArray
<1>7. [i \in DOMAIN order |-> TrieFields(t.node[order[i]], offsetArray(i))] = TrieParts(t)
  BY <1>2, <1>6 DEF TrieParts, order, N
<1> QED BY <1>3, <1>7

\* The first n elements of a sequence.
First(s, n) == [h \in 1 .. n |-> s[h]]

LEMMA FirstGrows ==
    ASSUME NEW S, NEW N \in Nat, NEW s \in [1 .. N -> S], NEW n \in 1 .. N
    PROVE  Append(First(s, n - 1), s[n]) = First(s, n)
<1> DEFINE p == First(s, n - 1)
           q == First(s, n)
           m == n - 1
<1>0. m \in Nat /\ n = m + 1 /\ n \in Nat /\ s[n] \in S
  OBVIOUS
<1>1. /\ p \in [1 .. m -> S] /\ q \in [1 .. n -> S]
      /\ \A h \in 1 .. m : p[h] = s[h]
      /\ \A h \in 1 .. n : q[h] = s[h]
  <2>1. /\ p = [h \in 1 .. m |-> s[h]] /\ q = [h \in 1 .. n |-> s[h]]
        /\ \A h \in 1 .. n : s[h] \in S
    BY DEF First
  <2>2. \A h \in 1 .. m : h \in 1 .. n
    BY <1>0
  <2> HIDE DEF p, q, m
  <2> QED BY <2>1, <2>2
<1> HIDE DEF p, q, m
<1>2. p \in Seq(S) /\ Len(p) = m /\ q \in Seq(S) /\ Len(q) = n
  BY <1>0, <1>1
<1>3. /\ Append(p, s[n]) \in Seq(S) /\ Len(Append(p, s[n])) = Len(p) + 1
      /\ \A h \in 1 .. Len(p) : Append(p, s[n])[h] = p[h]
      /\ Append(p, s[n])[Len(p) + 1] = s[n]
  BY <1>0, <1>2, AppendProperties
<1> DEFINE r == Append(p, s[n])
<1>4. r \in Seq(S) /\ Len(r) = n /\ (\A h \in 1 .. m : r[h] = p[h]) /\ r[n] = s[n]
  BY <1>0, <1>2, <1>3
<1> HIDE DEF r
<1>5. \A h \in 1 .. n : r[h] = q[h]
  <2> TAKE h \in 1 .. n
  <2>1. q[h] = s[h]
    BY <1>1
  <2>2. CASE h = n
    BY <1>4, <2>1, <2>2
  <2>3. CASE h # n
    <3>1. h \in 1 .. m
      BY <1>0, <2>3
    <3> QED BY <1>1, <1>4, <2>1, <3>1
  <2> QED BY <2>2, <2>3
<1>6. r = q
  BY <1>2, <1>4, <1>5, SeqEqual
<1> QED BY <1>6 DEF r, p, q

LEMMA TriePartsAre ==
    ASSUME NEW t, NEW lv, NEW pf, TrieOK(t, lv, pf)
    PROVE  /\ TrieParts(t) \in Seq(Seq(Nat)) /\ Len(TrieParts(t)) = Len(t.node)
           /\ \A i \in 1 .. Len(t.node) :
                /\ TrieParts(t)[i] = TrieFields(t.node[OrderOf(t)[i]], OffsetsOf(t, i))
                /\ OffsetsOK(t.node[OrderOf(t)[i]], OffsetsOf(t, i))
                /\ Len(TrieParts(t)[i]) = TrieNodeSize(t.node[OrderOf(t)[i]])
                /\ Len(TrieParts(t)[i]) >= 1
<1> DEFINE N == Len(t.node)
           order == OrderOf(t)
           parts == TrieParts(t)
           s == SizesOf(t)
<1>1. N \in Nat /\ \A i \in 1 .. N : /\ order[i] \in 1 .. N /\ NodeOK(t.node[order[i]])
                                     /\ t.node[order[i]].isLeaf => HoldsLists(t.node[order[i]])
  BY OrderIs, DueIs
<1>2. s \in Seq(Nat) /\ Len(s) = N
  <2>1. s = [i \in 1 .. N |-> TrieNodeSize(t.node[order[i]])]
    BY DEF SizesOf
  <2>2. ASSUME NEW i \in 1 .. N PROVE TrieNodeSize(t.node[order[i]]) \in Nat
    <3> DEFINE node == t.node[order[i]]
               offs == [j \in 1 .. node.elemCount |-> 0]
    <3>1. node.elemCount \in Nat
      BY <1>1 DEF NodeOK, TrieNode
    <3>2. OffsetsOK(node, offs)
      BY <3>1 DEF OffsetsOK
    <3>3. NodeOK(node) /\ (node.isLeaf => HoldsLists(node))
      BY <1>1
    <3> HIDE DEF node, offs
    <3>4. TrieNodeSize(node) \in Nat
      BY <3>2, <3>3, FieldsAre
    <3> QED BY <3>4 DEF node
  <2> HIDE DEF s, N, order
  <2> QED BY <1>1, <2>1, <2>2
<1>3. Sums(s) \in [0 .. N -> Nat]
  <2> HIDE DEF s, N
  <2> QED BY <1>2, SumsStep
<1>4. ASSUME NEW i \in 1 .. N PROVE OffsetsOK(t.node[order[i]], OffsetsOf(t, i))
  <2> DEFINE node == t.node[order[i]]
             kids == TrieChildren(t)[order[i]]
             c == node.elemCount
  <2>0. NodeOK(node) /\ c \in Nat /\ node.isLeaf \in BOOLEAN
    BY <1>1 DEF NodeOK, TrieNode
  <2>1. SUFFICES ASSUME ~node.isLeaf
                 PROVE  OffsetsOf(t, i) \in Seq(Nat) /\ Len(OffsetsOf(t, i)) = c
    <3> DEFINE f == OffsetsOf(t, i)
    <3>1. ~node.isLeaf => f \in Seq(Nat) /\ Len(f) = node.elemCount
      BY <2>0
    <3> HIDE DEF node, f
    <3>2. OffsetsOK(node, f)
      BY <3>1 DEF OffsetsOK
    <3> QED BY <3>2 DEF node, f
  <2>2. Len(kids) = c /\ kids \in Seq(1 .. N)
    <3>1. order[i] \in 1 .. Len(t.node)
      BY <1>1
    <3>2. ChildrenOf(t, TrieChildren(t))
      BY ChildrenAre
    <3> QED BY <2>1, <3>1, <3>2 DEF ChildrenOf
  <2>3. \A k \in 1 .. Len(kids) : DueOf(t)[i - 1] + k \in 1 .. N
    BY DueIs
  <2>4. DueOf(t)[i - 1] \in Nat
    <3>1. i - 1 \in 0 .. N /\ 1 .. N \subseteq Nat
      BY <1>1
    <3>2. DueOf(t) \in [0 .. N -> 1 .. N]
      BY DueIs
    <3> QED BY <3>1, <3>2
  <2>5. OffsetsOf(t, i) = [j \in DOMAIN kids |-> Sums(s)[DueOf(t)[i - 1] + j - 1]]
    BY DEF OffsetsOf
  <2> HIDE DEF s, N, kids, node, c, order
  <2>6. DOMAIN kids = 1 .. c
    BY <2>2
  <2>7. ASSUME NEW j \in 1 .. c PROVE Sums(s)[DueOf(t)[i - 1] + j - 1] \in Nat
    <3> DEFINE m == DueOf(t)[i - 1] + j - 1
    <3>1. m \in 0 .. N
      BY <1>1, <2>0, <2>2, <2>3, <2>4
    <3> HIDE DEF m
    <3>2. Sums(s)[m] \in Nat
      BY <1>3, <3>1
    <3> QED BY <3>2 DEF m
  <2> DEFINE f == OffsetsOf(t, i)
  <2>8. f = [j \in 1 .. c |-> Sums(s)[DueOf(t)[i - 1] + j - 1]]
    BY <2>5, <2>6
  <2> HIDE DEF f
  <2>9. f \in Seq(Nat) /\ Len(f) = c
    BY <2>0, <2>7, <2>8
  <2> QED BY <2>9 DEF f
<1>5. ASSUME NEW i \in 1 .. N
      PROVE  LET f == TrieFields(t.node[order[i]], OffsetsOf(t, i))
             IN  f \in Seq(Nat) /\ Len(f) = TrieNodeSize(t.node[order[i]]) /\ Len(f) >= 1
  <2> DEFINE node == t.node[order[i]]
             offs == OffsetsOf(t, i)
  <2>1. NodeOK(node) /\ (node.isLeaf => HoldsLists(node)) /\ OffsetsOK(node, offs)
    BY <1>1, <1>4
  <2> HIDE DEF node, offs
  <2>2. /\ TrieFields(node, offs) \in Seq(Nat)
        /\ Len(TrieFields(node, offs)) = TrieNodeSize(node) /\ TrieNodeSize(node) >= 1
    BY <2>1, FieldsAre
  <2> QED BY <2>2 DEF node, offs
<1>6. parts = [i \in 1 .. N |-> TrieFields(t.node[order[i]], OffsetsOf(t, i))]
  BY DEF TrieParts
<1> HIDE DEF parts, N, order
<1>7. parts \in Seq(Seq(Nat)) /\ Len(parts) = N
  BY <1>1, <1>5, <1>6
<1>8. ASSUME NEW i \in 1 .. N
      PROVE  /\ parts[i] = TrieFields(t.node[order[i]], OffsetsOf(t, i))
             /\ Len(parts[i]) = TrieNodeSize(t.node[order[i]]) /\ Len(parts[i]) >= 1
  BY <1>5, <1>6
<1> QED BY <1>4, <1>7, <1>8 DEF parts, N, order

\* The trie that is loaded: its nodes are those of t in the order of the file.
Renumbered(t) ==
    [node |-> [i \in 1 .. Len(t.node) |-> Loaded(t.node[OrderOf(t)[i]], DueOf(t)[i - 1])],
     nodeCount |-> Len(t.node)]

\* readFromFile when m nodes were read.
NodesRead(t, m) ==
    [at |-> Starts(TrieParts(t))[m], node |-> First(Renumbered(t).node, m), due |-> DueOf(t)[m]]

\* Reading one more node, unless all of them were read.
NextRead(data, x) ==
    IF Len(x.node) = x.due THEN x
    ELSE LET next == LoadNode(data, x.at, x.due)
         IN  [at |-> next.end, node |-> Append(x.node, next.node),
              due |-> x.due + IF next.node.isLeaf THEN 0 ELSE next.node.elemCount]

LEMMA NextReadIs ==
    ASSUME NEW t, NEW lv, NEW pf, TrieOK(t, lv, pf), NEW i \in 1 .. Len(t.node)
    PROVE  /\ NextRead(TrieWrite(t), NodesRead(t, i - 1)) = NodesRead(t, i)
           /\ NextRead(TrieWrite(t), NodesRead(t, Len(t.node))) = NodesRead(t, Len(t.node))
           /\ NodesRead(t, 0) = [at |-> 0, node |-> <<>>, due |-> 1]
           /\ Len(TrieWrite(t)) \in Nat /\ Len(TrieWrite(t)) >= Len(t.node)
           /\ TrieWrite(t) \in Seq(Nat)
<1> DEFINE N == Len(t.node)
           data == TrieWrite(t)
           parts == TrieParts(t)
           order == OrderOf(t)
           due == DueOf(t)
           new == Renumbered(t).node
           s == Starts(parts)
<1>1. /\ parts \in Seq(Seq(Nat)) /\ Len(parts) = N
      /\ \A k \in 1 .. N :
           /\ parts[k] = TrieFields(t.node[order[k]], OffsetsOf(t, k))
           /\ OffsetsOK(t.node[order[k]], OffsetsOf(t, k))
           /\ Len(parts[k]) = TrieNodeSize(t.node[order[k]]) /\ Len(parts[k]) >= 1
  BY TriePartsAre
<1>2. /\ N \in Nat /\ due \in [0 .. N -> 1 .. N] /\ due[0] = 1 /\ due[N] = N
      /\ \A k \in 1 .. N : k <= due[k - 1] /\ due[k] = due[k - 1] + Len(TrieChildren(t)[order[k]])
  BY DueIs
<1>3. \A k \in 1 .. N : /\ order[k] \in 1 .. N /\ NodeOK(t.node[order[k]])
                        /\ t.node[order[k]].isLeaf => HoldsLists(t.node[order[k]])
  BY OrderIs
<1>4. data = Joined(parts)
  BY TrieWriteIs
<1>5. new = [k \in 1 .. N |-> Loaded(t.node[order[k]], due[k - 1])]
  BY DEF Renumbered
<1>6. /\ data \in Seq(Nat) /\ Len(data) = s[N] /\ Len(data) \in Nat
      /\ \A h \in 1 .. N : Holds(data, s[h - 1], parts[h])
      /\ s \in [0 .. N -> Nat] /\ s[0] = 0
      /\ \A k \in 1 .. N : s[k] = s[k - 1] + Len(parts[k])
  <2> HIDE DEF data, parts, N
  <2>1. /\ s \in [0 .. Len(parts) -> Nat] /\ s[0] = 0
        /\ \A k \in 1 .. Len(parts) : s[k] = s[k - 1] + Len(parts[k])
    BY <1>1, StartsStep
  <2>2. Joined(parts) \in Seq(Nat) /\ Len(Joined(parts)) = s[Len(parts)]
    BY <1>1, JoinedAt
  <2>3. \A j \in 0 .. Len(parts) : \A h \in 0 .. j : s[h] <= s[j]
    BY <1>1, StartsStep
  <2>4. ASSUME NEW h \in 1 .. N PROVE Holds(data, s[h - 1], parts[h])
    <3>1. Len(data) \in Nat
      BY <1>4, <2>2, LenProperties
    <3>2. Holds(data, 0, Joined(parts))
      BY <1>4, <3>1 DEF Holds
    <3>3. Holds(data, 0 + Starts(parts)[h - 1], parts[h])
      BY <1>1, <3>1, <3>2, HoldsJoined
    <3>4. s[h - 1] \in Nat
      <4>1. h - 1 \in 0 .. N
        BY <1>2
      <4> QED BY <1>1, <2>1, <4>1
    <3>5. 0 + s[h - 1] = s[h - 1]
      BY <3>4
    <3> QED BY <3>3, <3>5
  <2>5. Len(data) \in Nat
    BY <1>4, <2>2, LenProperties
  <2> HIDE DEF s
  <2> QED BY <1>1, <1>4, <2>1, <2>2, <2>4, <2>5
<1> HIDE DEF data, parts, new, due, s, order, N
<1>7. new \in [1 .. N -> TrieNode] /\ Len(new) = N /\ DOMAIN new = 1 .. N
  <2>1. ASSUME NEW k \in 1 .. N PROVE Loaded(t.node[order[k]], due[k - 1]) \in TrieNode
    <3>1. due[k - 1] \in Nat
      <4>1. k - 1 \in 0 .. N /\ 1 .. N \subseteq Nat
        BY <1>2
      <4> QED BY <1>2, <4>1
    <3>2. NodeOK(Loaded(t.node[order[k]], due[k - 1]))
      BY <1>3, <3>1, LoadedOK
    <3> QED BY <3>2 DEF NodeOK
  <2> DEFINE F(k) == Loaded(t.node[order[k]], due[k - 1])
  <2>2. new = [k \in 1 .. N |-> F(k)] /\ \A k \in 1 .. N : F(k) \in TrieNode
    BY <1>5, <2>1
  <2> HIDE DEF F
  <2>3. new \in [1 .. N -> TrieNode]
    BY <2>2
  <2>4. Len(new) = N
    BY <1>2, <2>2
  <2> QED BY <2>2, <2>3, <2>4
<1>8. \A m \in 0 .. N : NodesRead(t, m) = [at |-> s[m], node |-> First(new, m), due |-> due[m]]
                        /\ Len(First(new, m)) = m
  <2>1. \A m \in 0 .. N : m \in Nat
    BY <1>2
  <2> QED BY <2>1 DEF NodesRead, s, new, due, parts, First
<1>9. NextRead(data, NodesRead(t, N)) = NodesRead(t, N)
  <2>1. N \in 0 .. N
    BY <1>2
  <2>2. Len(NodesRead(t, N).node) = NodesRead(t, N).due
    BY <1>2, <1>8, <2>1
  <2> QED BY <2>2 DEF NextRead
<1>10. NodesRead(t, 0) = [at |-> 0, node |-> <<>>, due |-> 1]
  <2>1. 0 \in 0 .. N /\ First(new, 0) = <<>>
    BY <1>2 DEF First
  <2> QED BY <1>2, <1>6, <1>8, <2>1
<1>11. NextRead(data, NodesRead(t, i - 1)) = NodesRead(t, i)
  <2> DEFINE node == t.node[order[i]]
             x == NodesRead(t, i - 1)
             c == IF node.isLeaf THEN 0 ELSE node.elemCount
             fresh == Loaded(node, due[i - 1])
  <2>1. i \in 1 .. N /\ i \in 0 .. N /\ i - 1 \in 0 .. N /\ i \in Nat /\ i # 0 /\ 0 + i = i
    BY <1>2 DEF N
  <2>2. x = [at |-> s[i - 1], node |-> First(new, i - 1), due |-> due[i - 1]]
        /\ Len(First(new, i - 1)) = i - 1
    BY <1>8, <2>1
  <2>3. x.at = s[i - 1] /\ x.node = First(new, i - 1) /\ x.due = due[i - 1] /\ Len(x.node) = i - 1
    BY <2>2
  <2>4. due[i - 1] \in Nat /\ s[i - 1] \in Nat /\ Len(x.node) # x.due
    <3>1. 1 .. N \subseteq Nat
      OBVIOUS
    <3>2. due[i - 1] \in Nat /\ s[i - 1] \in Nat
      BY <1>2, <1>6, <2>1, <3>1
    <3>3. i <= due[i - 1]
      BY <1>2, <2>1
    <3> HIDE DEF x
    <3> QED BY <2>1, <2>3, <3>2, <3>3
  <2>5. NodeOK(node) /\ (node.isLeaf => HoldsLists(node)) /\ OffsetsOK(node, OffsetsOf(t, i))
        /\ Holds(data, s[i - 1], TrieFields(node, OffsetsOf(t, i)))
    BY <1>1, <1>3, <1>6, <2>1
  <2> HIDE DEF node, x
  <2>6. LoadNode(data, x.at, x.due) = [node |-> fresh, end |-> s[i - 1] + TrieNodeSize(node)]
    BY <1>6, <2>3, <2>4, <2>5, NodeRead
  <2>7. fresh.isLeaf = node.isLeaf /\ fresh.elemCount = node.elemCount
    BY <2>4, <2>5, LoadedOK
  <2> HIDE DEF fresh
  <2>8. NextRead(data, x) = [at |-> s[i - 1] + TrieNodeSize(node), node |-> Append(x.node, fresh),
                             due |-> x.due + c]
    <3> DEFINE next == LoadNode(data, x.at, x.due)
    <3>1. next.node = fresh /\ next.end = s[i - 1] + TrieNodeSize(node)
      BY <2>6
    <3>2. NextRead(data, x) = [at |-> next.end, node |-> Append(x.node, next.node),
                               due |-> x.due + IF next.node.isLeaf THEN 0 ELSE next.node.elemCount]
      BY <2>4 DEF NextRead
    <3> HIDE DEF next
    <3> QED BY <2>7, <3>1, <3>2
  <2>9. Append(x.node, fresh) = First(new, i)
    <3>1. new[i] = fresh
      BY <1>5, <2>1 DEF fresh, node
    <3> QED BY <1>2, <1>7, <2>1, <2>3, <3>1, FirstGrows
  <2>10. s[i] = s[i - 1] + TrieNodeSize(node)
    BY <1>1, <1>6, <2>1 DEF node
  <2>11. due[i] = x.due + c
    <3>1. due[i] = due[i - 1] + Len(TrieChildren(t)[order[i]])
      BY <1>2, <2>1
    <3>2. Len(TrieChildren(t)[order[i]]) = c
      <4>1. order[i] \in 1 .. Len(t.node)
        BY <1>3, <2>1 DEF N
      <4>2. ChildrenOf(t, TrieChildren(t)) /\ node.isLeaf \in BOOLEAN
        BY <2>5, ChildrenAre DEF NodeOK, TrieNode
      <4>3. CASE node.isLeaf
        BY <4>1, <4>2, <4>3 DEF ChildrenOf, node
      <4>4. CASE ~node.isLeaf
        BY <4>1, <4>2, <4>4 DEF ChildrenOf, node
      <4> QED BY <4>3, <4>4
    <3> QED BY <2>3, <3>1, <3>2
  <2>12. NodesRead(t, i) = [at |-> s[i], node |-> First(new, i), due |-> due[i]]
    BY <1>8, <2>1
  <2> QED BY <2>8, <2>9, <2>10, <2>11, <2>12 DEF x
<1>12. Len(data) >= N
  <2> DEFINE good == [k \in 0 .. N |-> {m \in Nat : k <= m}]
  <2>1. s[0] \in good[0]
    BY <1>2, <1>6
  <2>2. ASSUME NEW k \in 1 .. N, s[k - 1] \in good[k - 1] PROVE s[k] \in good[k]
    <3>1. k \in 0 .. N /\ k - 1 \in 0 .. N /\ k \in Nat
      BY <1>2
    <3>2. s[k] \in Nat /\ s[k - 1] \in Nat /\ k - 1 <= s[k - 1]
      BY <1>6, <2>2, <3>1
    <3>3. s[k] = s[k - 1] + Len(parts[k]) /\ Len(parts[k]) >= 1 /\ parts[k] \in Seq(Nat)
      BY <1>1, <1>6
    <3>4. Len(parts[k]) \in Nat
      BY <3>3, LenProperties
    <3>5. k <= s[k]
      BY <3>1, <3>2, <3>3, <3>4
    <3> QED BY <3>1, <3>2, <3>5
  <2> HIDE DEF good
  <2>3. \A k \in 0 .. N : s[k] \in good[k]
    BY <1>2, <2>1, <2>2, LoopKeeps
  <2>4. N \in 0 .. N
    BY <1>2
  <2>5. s[N] \in good[N]
    BY <2>3, <2>4
  <2> QED BY <1>2, <1>6, <2>4, <2>5 DEF good
<1> QED BY <1>6, <1>9, <1>10, <1>11, <1>12 DEF data, N

\* What is saved and loaded is the same trie with its nodes renumbered.
LEMMA TrieReadIs ==
    ASSUME NEW t, NEW lv, NEW pf, TrieOK(t, lv, pf)
    PROVE  TrieRead(TrieWrite(t)) = Renumbered(t)
<1> DEFINE N == Len(TrieWrite(t))
           U == {NodesRead(t, m) : m \in 0 .. Len(t.node)}
           start == [at |-> 0, node |-> <<>>, due |-> 1]
           Turn(i, x) == NextRead(TrieWrite(t), x)
           Good(i, x) ==
             x = NodesRead(t, IF i <= Len(t.node) THEN i ELSE Len(t.node))
           Solves(f) == f = [i \in 0 .. N |-> IF i = 0 THEN start ELSE Turn(i, f[i - 1])]
           read == CHOOSE f : Solves(f)
<1> DEFINE M == Len(t.node)
<1>0. /\ N \in Nat /\ N >= M /\ M \in Nat /\ M >= 1
      /\ NodesRead(t, 0) = start /\ Turn(1, NodesRead(t, M)) = NodesRead(t, M)
      /\ \A i \in 1 .. M : Turn(i, NodesRead(t, i - 1)) = NodesRead(t, i)
  <2>1. 1 \in 1 .. M /\ M \in Nat /\ M >= 1
    <3>1. M \in Nat /\ 1 \in 1 .. M
      BY DEF TrieOK, NodesOK
    <3> QED BY <3>1
  <2> QED BY <2>1, NextReadIs
<1>1. N \in Nat /\ start \in U /\ Good(0, start)
  BY <1>0
<1>2. ASSUME NEW i \in 1 .. N, NEW x \in U, Good(i - 1, x)
      PROVE  Turn(i, x) \in U /\ Good(i, Turn(i, x))
  <2> HIDE DEF N, M, start
  <2>0. i \in Nat /\ i - 1 \in Nat /\ i >= 1
    BY <1>0
  <2>1. CASE i <= M
    <3>1. i - 1 <= M /\ i \in 1 .. M /\ i \in 0 .. M
      BY <1>0, <2>0, <2>1
    <3>2. x = NodesRead(t, i - 1)
      BY <1>2, <3>1 DEF M
    <3>3. Turn(i, x) = NodesRead(t, i)
      BY <1>0, <3>1, <3>2
    <3> HIDE DEF Turn
    <3> QED BY <2>1, <3>1, <3>3 DEF M
  <2>2. CASE ~(i <= M)
    <3>1. i - 1 <= M => i - 1 = M
      BY <1>0, <2>0, <2>2
    <3>2. x = NodesRead(t, M)
      BY <1>2, <3>1 DEF M
    <3>3. Turn(i, x) = NodesRead(t, M) /\ M \in 0 .. M
      BY <1>0, <3>2
    <3> HIDE DEF Turn
    <3> QED BY <2>2, <3>3 DEF M
  <2> QED BY <2>1, <2>2
<1> HIDE DEF N, U, start, Good, Turn, M
<1>3. \E f : Solves(f)
  <2> DEFINE good == [i \in 0 .. N |-> {x \in U : Good(i, x)}]
             step == [i \in 1 .. N |-> [x \in good[i - 1] |-> Turn(i, x)]]
  <2>1. good \in [0 .. N -> SUBSET U] /\ start \in good[0]
    BY <1>1
  <2>2. ASSUME NEW i \in 1 .. N, NEW x \in good[i - 1]
        PROVE  step[i][x] = Turn(i, x) /\ Turn(i, x) \in good[i]
    <3>1. i \in 0 .. N /\ i - 1 \in 0 .. N
      BY <1>1
    <3>2. x \in U /\ Good(i - 1, x)
      BY <3>1
    <3>3. Turn(i, x) \in U /\ Good(i, Turn(i, x))
      BY <1>2, <3>2
    <3> QED BY <3>1, <3>3
  <2> HIDE DEF good, step
  <2>3. PICK f : Runs(f, N, U, good, start, step)
    <3>1. Loop(N, U, good, start, step)
      BY <1>1, <2>1, <2>2 DEF Loop
    <3> QED BY <3>1, LoopSolved
  <2>4. ASSUME NEW i \in 0 .. N
        PROVE  f[i] = IF i = 0 THEN start ELSE Turn(i, f[i - 1])
    <3>1. CASE i = 0
      BY <2>3, <3>1 DEF Runs
    <3>2. CASE i # 0
      <4>1. i \in 1 .. N
        BY <1>1, <3>2
      <4> QED BY <2>2, <2>3, <3>2, <4>1 DEF Runs
    <3> QED BY <3>1, <3>2
  <2>5. f = [i \in 0 .. N |-> f[i]]
    BY <2>3 DEF Runs
  <2>6. Solves(f)
    BY <2>4, <2>5
  <2> QED BY <2>6
<1>4. Solves(read)
  BY <1>3
<1> HIDE DEF read
<1>5. read[0] = start /\ \A i \in 1 .. N : read[i] = Turn(i, read[i - 1])
  BY <1>1, <1>4
<1>6. \A i \in 0 .. N : read[i] \in U /\ Good(i, read[i])
  <2> DEFINE good == [i \in 0 .. N |-> {x \in U : Good(i, x)}]
  <2>1. read[0] \in good[0]
    BY <1>1, <1>5
  <2>2. ASSUME NEW i \in 1 .. N, read[i - 1] \in good[i - 1] PROVE read[i] \in good[i]
    <3>1. i \in 0 .. N /\ i - 1 \in 0 .. N
      BY <1>1
    <3>2. read[i - 1] \in U /\ Good(i - 1, read[i - 1])
      BY <2>2, <3>1
    <3>3. read[i] \in U /\ Good(i, read[i])
      BY <1>2, <1>5, <3>2
    <3> QED BY <3>1, <3>3
  <2>3. \A i \in 0 .. N : read[i] \in good[i]
    <3> HIDE DEF good
    <3> QED BY <1>1, <2>1, <2>2, LoopKeeps
  <2> QED BY <2>3
<1>7. read[N] = NodesRead(t, M)
  <2>1. N \in 0 .. N /\ (N <= M => N = M)
    BY <1>0, <1>1
  <2> QED BY <1>6, <2>1 DEF Good, M
<1>8. read[N].node = Renumbered(t).node
  <2>1. read[N].node = First(Renumbered(t).node, M)
    BY <1>7 DEF NodesRead
  <2>2. First(Renumbered(t).node, M) = Renumbered(t).node
    BY DEF First, Renumbered, M
  <2> QED BY <2>1, <2>2
<1>9. Len(Renumbered(t).node) = M
  <2> DEFINE F(i) == Loaded(t.node[OrderOf(t)[i]], DueOf(t)[i - 1])
  <2>1. Renumbered(t).node = [i \in 1 .. M |-> F(i)]
    BY DEF Renumbered, M
  <2> HIDE DEF F
  <2> QED BY <1>0, <2>1
<1>10. TrieRead(TrieWrite(t)) = LoadedTrie(read[N].node)
  BY DEF TrieRead, ReadNodes, read, Turn, NextRead, N, start
<1> QED BY <1>8, <1>9, <1>10 DEF LoadedTrie, Renumbered, M

\* How a node of the loaded trie corresponds to one of the trie that was saved.
LEMMA RenumberedNode ==
    ASSUME NEW t, NEW lv, NEW pf, TrieOK(t, lv, pf), NEW i \in 1 .. Len(t.node)
    PROVE  LET old == t.node[OrderOf(t)[i]]
               new == Renumbered(t).node[i]
           IN  /\ NodeOK(new) /\ new.isLeaf = old.isLeaf /\ new.elemCount = old.elemCount
               /\ new.bitmap = old.bitmap /\ DOMAIN new.ptr = DOMAIN old.ptr
               /\ new.isLeaf => new = old
               /\ ~new.isLeaf => \A p \in DOMAIN old.ptr :
                    /\ new.ptr[p] = DueOf(t)[i - 1] + Place(old, p)
                    /\ new.ptr[p] \in 1 .. Len(t.node)
                    /\ OrderOf(t)[new.ptr[p]] = old.ptr[p]
<1> DEFINE old == t.node[OrderOf(t)[i]]
           new == Renumbered(t).node[i]
           due == DueOf(t)[i - 1]
           kids == TrieChildren(t)[OrderOf(t)[i]]
<1>1. NodeOK(old) /\ (old.isLeaf => HoldsLists(old)) /\ OrderOf(t)[i] \in 1 .. Len(t.node)
  BY OrderIs
<1>2. new = Loaded(old, due)
  BY DEF Renumbered
<1>3. due \in Nat
  <2>1. i - 1 \in 0 .. Len(t.node) /\ 1 .. Len(t.node) \subseteq Nat
    BY DueIs
  <2>2. DueOf(t) \in [0 .. Len(t.node) -> 1 .. Len(t.node)]
    BY DueIs
  <2> QED BY <2>1, <2>2
<1>4. \A k \in 1 .. Len(kids) : due + k \in 1 .. Len(t.node) /\ OrderOf(t)[due + k] = kids[k]
  <2> USE DEF kids, due
  <2>1. \A j \in 1 .. Len(t.node) : \A k \in 1 .. Len(TrieChildren(t)[OrderOf(t)[j]]) :
          /\ DueOf(t)[j - 1] + k \in 1 .. Len(t.node)
          /\ OrderOf(t)[DueOf(t)[j - 1] + k] = TrieChildren(t)[OrderOf(t)[j]][k]
    BY DueIs, Zenon
  <2> QED BY <2>1, Zenon
<1>5. ChildrenOf(t, TrieChildren(t))
  BY ChildrenAre
<1>6. ~old.isLeaf => kids = Targets(old) /\ Len(kids) = old.elemCount
  BY <1>1, <1>5 DEF ChildrenOf
<1> HIDE DEF old, due, kids, new
<1>7. /\ NodeOK(new) /\ new.isLeaf = old.isLeaf /\ new.elemCount = old.elemCount
      /\ new.bitmap = old.bitmap /\ DOMAIN new.ptr = DOMAIN old.ptr
      /\ new.isLeaf => new = old
      /\ ~new.isLeaf => \A p \in DOMAIN old.ptr : new.ptr[p] = due + Place(old, p)
  BY <1>1, <1>2, <1>3, LoadedOK
<1>8. ASSUME ~old.isLeaf, NEW p \in DOMAIN old.ptr
      PROVE  due + Place(old, p) \in 1 .. Len(t.node) /\ OrderOf(t)[due + Place(old, p)] = old.ptr[p]
  <2> DEFINE k == Place(old, p)
             pos == OnePositions(old.bitmap)
  <2>1. k \in 1 .. old.elemCount /\ pos[k] = p
    BY <1>1, PlaceIs
  <2>2. Targets(old) = [j \in 1 .. old.elemCount |-> old.ptr[pos[j]]]
    BY <1>1, TargetsAre
  <2> HIDE DEF k, pos
  <2>3. Targets(old)[k] = old.ptr[p]
    BY <2>1, <2>2
  <2>4. k \in 1 .. Len(kids) /\ kids[k] = old.ptr[p]
    BY <1>6, <1>8, <2>1, <2>3
  <2>5. due + k \in 1 .. Len(t.node) /\ OrderOf(t)[due + k] = kids[k]
    BY <1>4, <2>4
  <2> QED BY <2>4, <2>5 DEF k
<1> QED BY <1>7, <1>8 DEF old, new, due

LEMMA RenumberedOK ==
    ASSUME NEW t, NEW lv, NEW pf, TrieOK(t, lv, pf)
    PROVE  TrieOK(Renumbered(t), [i \in 1 .. Len(t.node) |-> lv[OrderOf(t)[i]]],
                                 [i \in 1 .. Len(t.node) |-> pf[OrderOf(t)[i]]])
<1> DEFINE N == Len(t.node)
           Nodes == 1 .. N
           order == OrderOf(t)
           r == Renumbered(t).node
           lv2 == [i \in Nodes |-> lv[order[i]]]
           pf2 == [i \in Nodes |-> pf[order[i]]]
<1>1. /\ N \in Nat /\ 1 \in Nodes
      /\ lv \in [Nodes -> 0 .. Depth - 1] /\ pf \in [Nodes -> Nat] /\ lv[1] = 0 /\ pf[1] = 0
      /\ \A n \in Nodes : NodeOK(t.node[n]) /\ t.node[n].isLeaf = (lv[n] = Depth - 1)
  BY DEF TrieOK, NodesOK
<1>2. \A n \in Nodes : lv[n] = Depth - 1 =>
        \A p \in DOMAIN t.node[n].ptr : t.node[n].ptr[p] \in Seq(Nat)
  BY DEF TrieOK, NodesOK
<1>3. \A n \in Nodes : lv[n] # Depth - 1 =>
        \A p \in DOMAIN t.node[n].ptr :
          /\ t.node[n].ptr[p] \in Nodes
          /\ lv[t.node[n].ptr[p]] = lv[n] + 1
          /\ pf[t.node[n].ptr[p]] = pf[n] * TriePerNode + p
  BY DEF TrieOK, NodesOK
<1>4. \A m, n \in Nodes : lv[m] = lv[n] /\ pf[m] = pf[n] => m = n
  BY DEF TrieOK, NodesOK
<1>5. \A n \in Nodes \ {1} : \E m \in Nodes : \E p \in DOMAIN t.node[m].ptr :
        lv[m] # Depth - 1 /\ t.node[m].ptr[p] = n
  BY DEF TrieOK, NodesOK
<1>6. /\ \A i \in Nodes : order[i] \in Nodes
      /\ order[1] = 1
      /\ \A k, l \in Nodes : order[k] = order[l] => k = l
      /\ \A n \in Nodes : \E k \in Nodes : order[k] = n
  BY OrderIs, DueIs DEF Root
<1>7. ASSUME NEW i \in Nodes
      PROVE  /\ NodeOK(r[i]) /\ r[i].isLeaf = t.node[order[i]].isLeaf
             /\ DOMAIN r[i].ptr = DOMAIN t.node[order[i]].ptr
             /\ r[i].isLeaf => r[i] = t.node[order[i]]
             /\ ~r[i].isLeaf => \A p \in DOMAIN r[i].ptr :
                  r[i].ptr[p] \in Nodes /\ order[r[i].ptr[p]] = t.node[order[i]].ptr[p]
  BY RenumberedNode
<1>8. /\ lv2 \in [Nodes -> 0 .. Depth - 1] /\ pf2 \in [Nodes -> Nat] /\ lv2[1] = 0 /\ pf2[1] = 0
      /\ \A i \in Nodes : lv2[i] = lv[order[i]] /\ pf2[i] = pf[order[i]]
  <2> HIDE DEF Nodes, order
  <2> QED BY <1>1, <1>6
<1>9. r = [i \in Nodes |-> r[i]]
  BY DEF Renumbered
<1>10. Renumbered(t) = [node |-> r, nodeCount |-> N]
  BY DEF Renumbered
<1> HIDE DEF lv2, pf2, r, order, Nodes
<1>11. \A i \in Nodes : r[i] \in TrieNode
  BY <1>7 DEF NodeOK
<1>12. r \in Seq(TrieNode) /\ Len(r) = N
  <2> DEFINE F(k) == r[k]
  <2>1. r = [k \in 1 .. N |-> F(k)] /\ \A k \in 1 .. N : F(k) \in TrieNode
    BY <1>9, <1>11 DEF Nodes
  <2> HIDE DEF F, N
  <2> QED BY <1>1, <2>1
<1> HIDE DEF N
<1>13. \A i \in Nodes : NodeOK(r[i]) /\ r[i].isLeaf = (lv2[i] = Depth - 1)
  BY <1>1, <1>6, <1>7, <1>8
<1>14. \A i \in Nodes : lv2[i] = Depth - 1 => \A p \in DOMAIN r[i].ptr : r[i].ptr[p] \in Seq(Nat)
  <2>1. SUFFICES ASSUME NEW i \in Nodes, lv2[i] = Depth - 1, NEW p \in DOMAIN r[i].ptr
                 PROVE  r[i].ptr[p] \in Seq(Nat)
    OBVIOUS
  <2>2. r[i] = t.node[order[i]]
    BY <1>7, <1>13, <2>1
  <2> DEFINE n == order[i]
  <2>3. n \in Nodes /\ lv[n] = Depth - 1
    BY <1>6, <1>8, <2>1
  <2> HIDE DEF n
  <2>4. \A q \in DOMAIN t.node[n].ptr : t.node[n].ptr[q] \in Seq(Nat)
    BY <1>2, <2>3 DEF Nodes, N
  <2>5. r[i] = t.node[n]
    BY <2>2 DEF n
  <2> QED BY <2>1, <2>4, <2>5
<1>15. \A i \in Nodes : lv2[i] # Depth - 1 => \A p \in DOMAIN r[i].ptr :
         /\ r[i].ptr[p] \in Nodes
         /\ lv2[r[i].ptr[p]] = lv2[i] + 1
         /\ pf2[r[i].ptr[p]] = pf2[i] * TriePerNode + p
  <2>1. SUFFICES ASSUME NEW i \in Nodes, lv2[i] # Depth - 1, NEW p \in DOMAIN r[i].ptr
                 PROVE  /\ r[i].ptr[p] \in Nodes
                        /\ lv2[r[i].ptr[p]] = lv2[i] + 1
                        /\ pf2[r[i].ptr[p]] = pf2[i] * TriePerNode + p
    OBVIOUS
  <2> DEFINE c == r[i].ptr[p]
             n == order[i]
  <2>2. ~r[i].isLeaf
    BY <1>13, <2>1
  <2>3. c \in Nodes /\ order[c] = t.node[n].ptr[p] /\ p \in DOMAIN t.node[n].ptr
    BY <1>7, <2>1, <2>2
  <2>4. n \in Nodes /\ lv2[i] = lv[n] /\ pf2[i] = pf[n]
    BY <1>6, <1>8
  <2> HIDE DEF c, n
  <2>5. lv[order[c]] = lv[n] + 1 /\ pf[order[c]] = pf[n] * TriePerNode + p
    BY <1>3, <2>1, <2>3, <2>4
  <2>6. lv2[c] = lv[order[c]] /\ pf2[c] = pf[order[c]]
    BY <1>8, <2>3
  <2> QED BY <2>3, <2>4, <2>5, <2>6 DEF c
<1>16. \A m, n \in Nodes : lv2[m] = lv2[n] /\ pf2[m] = pf2[n] => m = n
  BY <1>4, <1>6, <1>8
<1>17. \A i \in Nodes \ {1} : \E j \in Nodes : \E p \in DOMAIN r[j].ptr :
         lv2[j] # Depth - 1 /\ r[j].ptr[p] = i
  <2>1. SUFFICES ASSUME NEW i \in Nodes \ {1}
                 PROVE  \E j \in Nodes : \E p \in DOMAIN r[j].ptr : lv2[j] # Depth - 1 /\ r[j].ptr[p] = i
    OBVIOUS
  <2>2. order[i] \in Nodes \ {1}
    BY <1>1, <1>6
  <2>3. PICK m \in Nodes : \E p \in DOMAIN t.node[m].ptr :
          lv[m] # Depth - 1 /\ t.node[m].ptr[p] = order[i]
    BY <1>5, <2>2
  <2>4. PICK p \in DOMAIN t.node[m].ptr : lv[m] # Depth - 1 /\ t.node[m].ptr[p] = order[i]
    BY <2>3
  <2>5. PICK j \in Nodes : order[j] = m
    BY <1>6
  <2>6. lv2[j] # Depth - 1 /\ p \in DOMAIN r[j].ptr
    BY <1>7, <1>8, <2>4, <2>5
  <2>7. ~r[j].isLeaf
    BY <1>13, <2>6
  <2>8. r[j].ptr[p] \in Nodes /\ order[r[j].ptr[p]] = order[i]
    BY <1>7, <2>4, <2>5, <2>6, <2>7
  <2>9. r[j].ptr[p] = i
    BY <1>6, <2>8
  <2> QED BY <2>6, <2>9
<1>18. NodesOK(r, lv2, pf2)
  <2> DEFINE I == 1 .. Len(r)
  <2>1. I = Nodes
    BY <1>12 DEF Nodes
  <2> HIDE DEF I
  <2>2. /\ 1 \in I /\ lv2 \in [I -> 0 .. Depth - 1] /\ pf2 \in [I -> Nat] /\ lv2[1] = 0 /\ pf2[1] = 0
        /\ \A n \in I : NodeOK(r[n]) /\ r[n].isLeaf = (lv2[n] = Depth - 1)
    BY <1>1, <1>8, <1>13, <2>1
  <2>3. /\ \A n \in I : lv2[n] = Depth - 1 => \A p \in DOMAIN r[n].ptr : r[n].ptr[p] \in Seq(Nat)
        /\ \A n \in I : lv2[n] # Depth - 1 => \A p \in DOMAIN r[n].ptr :
             /\ r[n].ptr[p] \in I
             /\ lv2[r[n].ptr[p]] = lv2[n] + 1
             /\ pf2[r[n].ptr[p]] = pf2[n] * TriePerNode + p
    BY <1>14, <1>15, <2>1
  <2>4. /\ \A m, n \in I : lv2[m] = lv2[n] /\ pf2[m] = pf2[n] => m = n
        /\ \A n \in I \ {1} : \E m \in I : \E p \in DOMAIN r[m].ptr :
             lv2[m] # Depth - 1 /\ r[m].ptr[p] = n
    BY <1>16, <1>17, <2>1
  <2> QED BY <1>12, <2>2, <2>3, <2>4 DEF NodesOK, I
<1>19. TrieOK(Renumbered(t), lv2, pf2)
  <2>1. Renumbered(t).node = r /\ Renumbered(t).nodeCount = Len(r)
        /\ Renumbered(t) \in [node : Seq(TrieNode), nodeCount : Nat]
    BY <1>1, <1>10, <1>12
  <2> QED BY <1>18, <2>1 DEF TrieOK
<1> QED BY <1>19 DEF lv2, pf2, order, Nodes, N

\* The loaded trie has the lists of the one that was saved, and as many nodes.
LEMMA RenumberedLists ==
    ASSUME NEW t, NEW lv, NEW pf, TrieOK(t, lv, pf)
    PROVE  /\ Len(Renumbered(t).node) = Len(t.node) /\ Renumbered(t).nodeCount = Len(t.node)
           /\ \A k : IsKey(k) => TrieList(Renumbered(t), k) = TrieList(t, k)
<1> DEFINE N == Len(t.node)
           order == OrderOf(t)
           r == Renumbered(t)
           lv2 == [i \in 1 .. N |-> lv[order[i]]]
           pf2 == [i \in 1 .. N |-> pf[order[i]]]
<1>1. N \in Nat /\ r.nodeCount = N
  BY DEF TrieOK, Renumbered
<1>2. TrieOK(r, lv2, pf2)
  BY RenumberedOK
<1>3. Len(r.node) = N
  <2>1. r.nodeCount = Len(r.node)
    BY <1>2 DEF TrieOK
  <2> QED BY <1>1, <2>1
<1>4. /\ \A i \in 1 .. N : order[i] \in 1 .. N
      /\ \A n \in 1 .. N : \E i \in 1 .. N : order[i] = n
  <2>1. \A i \in 1 .. Len(t.node) : OrderOf(t)[i] \in 1 .. Len(t.node)
    BY OrderIs
  <2>2. \A n \in 1 .. Len(t.node) : \E k \in 1 .. Len(t.node) : OrderOf(t)[k] = n
    BY DueIs
  <2> QED BY <2>1, <2>2
<1>5. \A i \in 1 .. N : lv2[i] = lv[order[i]] /\ pf2[i] = pf[order[i]]
  OBVIOUS
<1>6. \A n \in 1 .. N : t.node[n].isLeaf = (lv[n] = Depth - 1)
  BY DEF TrieOK, NodesOK
<1>7. ASSUME NEW i \in 1 .. N, t.node[order[i]].isLeaf PROVE r.node[i] = t.node[order[i]]
  <2>1. /\ Renumbered(t).node[i].isLeaf = t.node[OrderOf(t)[i]].isLeaf
        /\ Renumbered(t).node[i].isLeaf => Renumbered(t).node[i] = t.node[OrderOf(t)[i]]
    BY RenumberedNode
  <2> QED BY <1>7, <2>1
<1> HIDE DEF N, order, r, lv2, pf2
<1>8. ASSUME NEW k, IsKey(k) PROVE TrieList(r, k) = TrieList(t, k)
  <2>1. CASE \E n \in 1 .. N : lv[n] = Depth - 1 /\ pf[n] = Prefix(k, Depth - 1)
    <3>1. PICK n \in 1 .. N : lv[n] = Depth - 1 /\ pf[n] = Prefix(k, Depth - 1)
      BY <2>1
    <3>2. PICK i \in 1 .. N : order[i] = n
      BY <1>4
    <3>3. lv2[i] = Depth - 1 /\ pf2[i] = Prefix(k, Depth - 1) /\ r.node[i] = t.node[n]
      BY <1>5, <1>6, <1>7, <3>1, <3>2
    <3>4. TrieList(t, k) = IF Digit(k, Depth) \in DOMAIN t.node[n].ptr
                           THEN t.node[n].ptr[Digit(k, Depth)] ELSE <<>>
      BY <1>8, <3>1, FiledAt DEF N
    <3>5. TrieList(r, k) = IF Digit(k, Depth) \in DOMAIN r.node[i].ptr
                           THEN r.node[i].ptr[Digit(k, Depth)] ELSE <<>>
      BY <1>2, <1>3, <1>8, <3>3, FiledAt
    <3> QED BY <3>3, <3>4, <3>5
  <2>2. CASE ~ \E n \in 1 .. N : lv[n] = Depth - 1 /\ pf[n] = Prefix(k, Depth - 1)
    <3>1. TrieList(t, k) = <<>>
      BY <1>8, <2>2, FiledNone DEF N
    <3>2. ~ \E i \in 1 .. Len(r.node) : lv2[i] = Depth - 1 /\ pf2[i] = Prefix(k, Depth - 1)
      <4>1. ASSUME NEW i \in 1 .. N, lv2[i] = Depth - 1, pf2[i] = Prefix(k, Depth - 1) PROVE FALSE
        <5>1. order[i] \in 1 .. N
          BY <1>4
        <5>2. lv[order[i]] = Depth - 1 /\ pf[order[i]] = Prefix(k, Depth - 1)
          BY <1>5, <4>1
        <5> QED BY <2>2, <5>1, <5>2
      <4> QED BY <1>3, <4>1
    <3>3. TrieList(r, k) = <<>>
      BY <1>2, <1>8, <3>2, FiledNone
    <3> QED BY <3>1, <3>3
  <2> QED BY <2>1, <2>2
<1> QED BY <1>1, <1>3, <1>8 DEF r, N

\* The children of a loaded node are numbered one after the other.
LEMMA RenumberedChildren ==
    ASSUME NEW t, NEW lv, NEW pf, TrieOK(t, lv, pf), NEW i \in 1 .. Len(t.node)
    PROVE  /\ Len(TrieChildren(Renumbered(t))[i]) = Len(TrieChildren(t)[OrderOf(t)[i]])
           /\ DOMAIN TrieChildren(Renumbered(t))[i] = DOMAIN TrieChildren(t)[OrderOf(t)[i]]
           /\ \A k \in 1 .. Len(TrieChildren(Renumbered(t))[i]) :
                TrieChildren(Renumbered(t))[i][k] = DueOf(t)[i - 1] + k
<1> DEFINE N == Len(t.node)
           r == Renumbered(t)
           old == t.node[OrderOf(t)[i]]
           new == r.node[i]
           old_kids == TrieChildren(t)[OrderOf(t)[i]]
           new_kids == TrieChildren(r)[i]
           due == DueOf(t)[i - 1]
           pos == OnePositions(old.bitmap)
<1>1. OrderOf(t)[i] \in 1 .. N /\ NodeOK(old)
  BY OrderIs
<1>2. PICK lv2, pf2 : TrieOK(r, lv2, pf2)
  BY RenumberedOK
<1>3. Len(r.node) = N
  BY RenumberedLists
<1>4. ChildrenOf(t, TrieChildren(t)) /\ ChildrenOf(r, TrieChildren(r))
  BY <1>2, ChildrenAre
<1>5. /\ old.isLeaf => old_kids = <<>> /\ Len(old_kids) = 0
      /\ ~old.isLeaf => old_kids = Targets(old) /\ Len(old_kids) = old.elemCount
  BY <1>1, <1>4 DEF ChildrenOf
<1>6. /\ new.isLeaf => new_kids = <<>> /\ Len(new_kids) = 0
      /\ ~new.isLeaf => new_kids = Targets(new) /\ Len(new_kids) = new.elemCount
  BY <1>3, <1>4 DEF ChildrenOf
<1>7. /\ NodeOK(new) /\ new.isLeaf = old.isLeaf /\ new.elemCount = old.elemCount
      /\ new.bitmap = old.bitmap /\ DOMAIN new.ptr = DOMAIN old.ptr
      /\ ~new.isLeaf => \A p \in DOMAIN old.ptr : new.ptr[p] = due + Place(old, p)
  BY RenumberedNode
<1>8. old_kids \in Seq(1 .. N) /\ new_kids \in Seq(1 .. N)
  <2>1. TrieChildren(t) \in Seq(Seq(1 .. N)) /\ Len(TrieChildren(t)) = N
    BY <1>4 DEF ChildrenOf
  <2>2. TrieChildren(r) \in Seq(Seq(1 .. N)) /\ Len(TrieChildren(r)) = N
    BY <1>3, <1>4 DEF ChildrenOf
  <2> QED BY <1>1, <2>1, <2>2, ElementOfSeq
<1> HIDE DEF old, new, old_kids, new_kids, due, N, r
<1>9. Len(new_kids) = Len(old_kids)
  BY <1>5, <1>6, <1>7
<1>10. DOMAIN new_kids = DOMAIN old_kids
  <2>1. DOMAIN new_kids = 1 .. Len(new_kids) /\ DOMAIN old_kids = 1 .. Len(old_kids)
    BY <1>8
  <2> QED BY <1>9, <2>1
<1>11. ASSUME NEW k \in 1 .. Len(new_kids) PROVE new_kids[k] = due + k
  <2>1. CASE new.isLeaf
    <3>1. Len(new_kids) = 0
      BY <1>6, <2>1
    <3> QED BY <3>1
  <2>2. CASE ~new.isLeaf
    <3>1. new_kids = Targets(new) /\ k \in 1 .. old.elemCount
      BY <1>6, <1>7, <2>2
    <3>2. Targets(new) = [j \in 1 .. old.elemCount |-> new.ptr[pos[j]]]
      BY <1>7, TargetsAre
    <3>3. pos \in Seq(DOMAIN old.ptr) /\ Len(pos) = old.elemCount
      BY <1>1, TargetsAre
    <3> HIDE DEF pos
    <3>4. pos[k] \in DOMAIN old.ptr
      BY <3>1, <3>3, ElementOfSeq
    <3>5. k = Place(old, pos[k])
      BY <1>1, <3>1, <3>4, PlaceIs DEF pos
    <3>6. new_kids[k] = new.ptr[pos[k]]
      BY <3>1, <3>2
    <3>7. new.ptr[pos[k]] = due + Place(old, pos[k])
      BY <1>7, <2>2, <3>4
    <3> QED BY <3>5, <3>6, <3>7
  <2> QED BY <2>1, <2>2
<1> QED BY <1>9, <1>10, <1>11 DEF new_kids, old_kids, due, r

\* The loaded trie is written in the order in which its nodes are numbered.
LEMMA RenumberedOrder ==
    ASSUME NEW t, NEW lv, NEW pf, TrieOK(t, lv, pf)
    PROVE  /\ \A i \in 0 .. Len(t.node) : DueOf(Renumbered(t))[i] = DueOf(t)[i]
           /\ \A j \in 1 .. Len(t.node) : OrderOf(Renumbered(t))[j] = j
<1> DEFINE N == Len(t.node)
           r == Renumbered(t)
           due == DueOf(t)
           due2 == DueOf(r)
           order2 == OrderOf(r)
           new == TrieChildren(r)
           Same(i) == due2[i] = due[i] /\ \A j \in 1 .. due[i] : order2[j] = j
           good == [i \in 0 .. N |-> {x \in {0} : Same(i)}]
           f == [i \in 0 .. N |-> 0]
<1>1. PICK lv2, pf2 : TrieOK(r, lv2, pf2)
  BY RenumberedOK
<1>2. Len(r.node) = N /\ N \in Nat
  BY RenumberedLists DEF TrieOK
<1>3. /\ due \in [0 .. N -> 1 .. N] /\ due[0] = 1 /\ due[N] = N
      /\ \A i \in 1 .. N : i <= due[i - 1] /\ due[i] = due[i - 1] + Len(TrieChildren(t)[OrderOf(t)[i]])
  BY DueIs
<1>4. /\ due2[0] = 1 /\ order2[1] = 1
      /\ \A i \in 1 .. N : due2[i] = due2[i - 1] + Len(new[order2[i]])
      /\ \A i \in 1 .. N : \A k \in 1 .. Len(new[order2[i]]) :
           order2[due2[i - 1] + k] = new[order2[i]][k]
  <2>1. /\ DueOf(r)[0] = 1 /\ OrderOf(r)[1] = Root
        /\ \A i \in 1 .. Len(r.node) :
             DueOf(r)[i] = DueOf(r)[i - 1] + Len(TrieChildren(r)[OrderOf(r)[i]])
        /\ \A i \in 1 .. Len(r.node) : \A k \in 1 .. Len(TrieChildren(r)[OrderOf(r)[i]]) :
             OrderOf(r)[DueOf(r)[i - 1] + k] = TrieChildren(r)[OrderOf(r)[i]][k]
    <3> HIDE DEF r
    <3>1. \A i \in 1 .. Len(r.node) :
            DueOf(r)[i] = DueOf(r)[i - 1] + Len(TrieChildren(r)[OrderOf(r)[i]])
      BY <1>1, DueIs
    <3>2. \A i \in 1 .. Len(r.node) : \A k \in 1 .. Len(TrieChildren(r)[OrderOf(r)[i]]) :
            OrderOf(r)[DueOf(r)[i - 1] + k] = TrieChildren(r)[OrderOf(r)[i]][k]
      <4>1. \A i \in 1 .. Len(r.node) : \A k \in 1 .. Len(TrieChildren(r)[OrderOf(r)[i]]) :
              /\ DueOf(r)[i - 1] + k \in 1 .. Len(r.node)
              /\ OrderOf(r)[DueOf(r)[i - 1] + k] = TrieChildren(r)[OrderOf(r)[i]][k]
        BY <1>1, DueIs, Zenon
      <4> QED BY <4>1, Zenon
    <3>3. DueOf(r)[0] = 1 /\ OrderOf(r)[1] = Root
      BY <1>1, DueIs
    <3> QED BY <3>1, <3>2, <3>3
  <2> QED BY <1>2, <2>1 DEF Root, due2, order2, new
<1>5. \A i \in 1 .. N : /\ Len(new[i]) = Len(TrieChildren(t)[OrderOf(t)[i]])
                        /\ \A k \in 1 .. Len(new[i]) : new[i][k] = due[i - 1] + k
  BY RenumberedChildren
<1> HIDE DEF N, r, due, due2, order2, new
<1>6. Same(0)
  BY <1>3, <1>4
<1>7. ASSUME NEW i \in 1 .. N, Same(i - 1) PROVE Same(i)
  <2>0. i - 1 \in 0 .. N /\ i \in 0 .. N
    BY <1>2
  <2>a. i <= due[i - 1] /\ due[i - 1] \in 1 .. N /\ due[i] \in 1 .. N
    BY <1>3, <2>0
  <2>1. due[i - 1] \in Nat /\ due[i] \in Nat /\ i \in 1 .. due[i - 1]
    BY <1>2, <2>a
  <2>2. order2[i] = i
    BY <1>7, <2>1
  <2>3. due2[i] = due[i] /\ due[i] = due[i - 1] + Len(new[i])
    BY <1>3, <1>4, <1>5, <1>7, <2>2
  <2>4. ASSUME NEW j \in 1 .. due[i] PROVE order2[j] = j
    <3>1. CASE j <= due[i - 1]
      BY <1>7, <2>1, <3>1
    <3>2. CASE ~(j <= due[i - 1])
      <4> DEFINE k == j - due[i - 1]
      <4>1. Len(new[i]) = due[i] - due[i - 1] /\ Len(new[i]) \in Int
        <5>1. Len(new[i]) = Len(TrieChildren(t)[OrderOf(t)[i]])
          BY <1>5
        <5>2. Len(TrieChildren(t)[OrderOf(t)[i]]) \in Nat
          <6>1. TrieChildren(t) \in Seq(Seq(1 .. N)) /\ Len(TrieChildren(t)) = N
            BY ChildrenAre DEF ChildrenOf, N
          <6>2. OrderOf(t)[i] \in 1 .. N
            BY OrderIs DEF N
          <6>3. TrieChildren(t)[OrderOf(t)[i]] \in Seq(1 .. N)
            BY <6>1, <6>2, ElementOfSeq
          <6> QED BY <6>3, LenProperties
        <5> QED BY <2>1, <2>3, <5>1, <5>2
      <4>2. k \in 1 .. Len(new[i]) /\ due[i - 1] + k = j
        BY <2>1, <3>2, <4>1
      <4> HIDE DEF k
      <4>3. order2[due2[i - 1] + k] = new[i][k]
        BY <1>4, <2>2, <4>2
      <4>4. new[i][k] = due[i - 1] + k
        BY <1>5, <4>2
      <4> QED BY <1>7, <4>2, <4>3, <4>4
    <3> QED BY <3>1, <3>2
  <2> QED BY <2>3, <2>4
<1> HIDE DEF Same
<1>8. f[0] \in good[0] /\ \A i \in 1 .. N : f[i - 1] \in good[i - 1] => f[i] \in good[i]
  <2>1. 0 \in 0 .. N /\ \A i \in 1 .. N : i - 1 \in 0 .. N /\ i \in 0 .. N
    BY <1>2
  <2> QED BY <1>6, <1>7, <2>1
<1>9. \A i \in 0 .. N : f[i] \in good[i]
  <2> HIDE DEF f, good
  <2> QED BY <1>2, <1>8, LoopKeeps
<1>10. \A i \in 0 .. N : Same(i)
  BY <1>9
<1>11. Same(N)
  BY <1>2, <1>10
<1> QED BY <1>3, <1>10, <1>11 DEF Same, N, r, due, due2, order2

\* Written again, a loaded trie gives the file it was loaded from.
LEMMA RenumberedSame ==
    ASSUME NEW t, NEW lv, NEW pf, TrieOK(t, lv, pf)
    PROVE  TrieWrite(Renumbered(t)) = TrieWrite(t)
<1> DEFINE N == Len(t.node)
           r == Renumbered(t)
           order == OrderOf(t)
           Part(i) == TrieFields(t.node[order[i]], OffsetsOf(t, i))
           NewPart(i) == TrieFields(r.node[OrderOf(r)[i]], OffsetsOf(r, i))
<1>1. PICK lv2, pf2 : TrieOK(r, lv2, pf2)
  BY RenumberedOK
<1>2. Len(r.node) = N /\ N \in Nat
  BY RenumberedLists DEF TrieOK
<1>3. /\ \A i \in 1 .. N : OrderOf(r)[i] = i
      /\ \A i \in 0 .. N : DueOf(r)[i] = DueOf(t)[i]
  BY RenumberedOrder
<1>4. \A i \in 1 .. N :
        /\ r.node[i].isLeaf = t.node[order[i]].isLeaf
        /\ r.node[i].elemCount = t.node[order[i]].elemCount
        /\ r.node[i].bitmap = t.node[order[i]].bitmap
        /\ r.node[i].isLeaf => r.node[i] = t.node[order[i]]
  BY RenumberedNode
<1>5. \A i \in 1 .. N : DOMAIN TrieChildren(r)[i] = DOMAIN TrieChildren(t)[order[i]]
  BY RenumberedChildren
<1>6. SizesOf(r) = [i \in 1 .. N |-> TrieNodeSize(r.node[OrderOf(r)[i]])]
  BY <1>2 DEF SizesOf
<1>7. SizesOf(t) = [i \in 1 .. N |-> TrieNodeSize(t.node[order[i]])]
  BY DEF SizesOf
<1> HIDE DEF N, r, order
<1>8. SizesOf(r) = SizesOf(t)
  <2>1. ASSUME NEW i \in 1 .. N
        PROVE  TrieNodeSize(r.node[OrderOf(r)[i]]) = TrieNodeSize(t.node[order[i]])
    <3>1. OrderOf(r)[i] = i
      BY <1>3
    <3>2. CASE r.node[i].isLeaf
      BY <1>4, <3>1, <3>2
    <3>3. CASE ~r.node[i].isLeaf
      <4>1. HeaderSize(r.node[i]) = HeaderSize(t.node[order[i]])
        BY <1>4 DEF HeaderSize
      <4> QED BY <1>4, <3>1, <3>3, <4>1 DEF TrieNodeSize
    <3> QED BY <3>2, <3>3
  <2> QED BY <1>6, <1>7, <2>1
<1>9. \A i \in 1 .. N : OffsetsOf(r, i) = OffsetsOf(t, i)
  <2> TAKE i \in 1 .. N
  <2> DEFINE D == DOMAIN TrieChildren(t)[order[i]]
  <2>1. OrderOf(r)[i] = i /\ DOMAIN TrieChildren(r)[i] = D /\ DueOf(r)[i - 1] = DueOf(t)[i - 1]
    BY <1>2, <1>3, <1>5
  <2>2. OffsetsOf(t, i) = [j \in D |-> Sums(SizesOf(t))[DueOf(t)[i - 1] + j - 1]]
    BY DEF OffsetsOf, order
  <2>3. OffsetsOf(r, i) = [j \in D |-> Sums(SizesOf(r))[DueOf(r)[i - 1] + j - 1]]
    BY <2>1 DEF OffsetsOf
  <2> QED BY <1>8, <2>1, <2>2, <2>3
<1>10. ASSUME NEW i \in 1 .. N PROVE NewPart(i) = Part(i)
  <2> DEFINE o == OffsetsOf(t, i)
  <2>1. OrderOf(r)[i] = i /\ OffsetsOf(r, i) = o
    BY <1>3, <1>9
  <2> HIDE DEF o
  <2>2. CASE r.node[i].isLeaf
    BY <1>4, <2>1, <2>2 DEF o
  <2>3. CASE ~r.node[i].isLeaf
    <3>1. Header(r.node[i], o) = Header(t.node[order[i]], o)
      BY <1>4 DEF Header
    <3> QED BY <1>4, <2>1, <2>3, <3>1 DEF TrieFields, o
  <2> QED BY <2>2, <2>3
<1>11. TrieParts(r) = [i \in 1 .. N |-> NewPart(i)] /\ TrieParts(t) = [i \in 1 .. N |-> Part(i)]
  BY <1>2 DEF TrieParts, N, order
<1> HIDE DEF Part, NewPart
<1>12. TrieParts(r) = TrieParts(t)
  BY <1>10, <1>11
<1> QED BY <1>1, <1>12, TrieWriteIs DEF r

-----------------------------------------------------------------------------
(* One index and its file *)

Lists(t) == [k \in Keys |-> TrieList(t, k)]

\* The inductive invariant of a program built with the trie: the index is a trie, the
\* file what some trie wrote, and both have the lists of the map under its keys.
SavedTrie == \E t : IsTrie(t) /\ file = TrieWrite(t) /\ saved = Lists(t)
TrieInv ==
    /\ IsTrie(index) /\ pending = Lists(index)
    /\ \/ file = NoFile /\ saved = NoFile /\ ~loaded
       \/ file # NoFile /\ file \in Seq(Nat) /\ SavedTrie
    /\ loaded => index = TrieRead(file)

\* What holds whichever index it was built with.
BaseInv == kind \in Kinds /\ loaded \in BOOLEAN /\ value \in 0 .. MaxAdds[kind]

Inv == BaseInv /\ (kind = "trie" => TrieInv)

\* Any saved trie can be loaded, has the lists it had, and is saved as it was.
LEMMA SavedAndLoaded ==
    ASSUME NEW t, IsTrie(t)
    PROVE  /\ TrieWrite(t) \in Seq(Nat) /\ TrieWrite(t) # NoFile
           /\ IsTrie(TrieRead(TrieWrite(t))) /\ Lists(TrieRead(TrieWrite(t))) = Lists(t)
           /\ TrieWrite(TrieRead(TrieWrite(t))) = TrieWrite(t)
<1>1. PICK lv, pf : TrieOK(t, lv, pf)
  BY DEF IsTrie
<1>2. TrieRead(TrieWrite(t)) = Renumbered(t)
  BY <1>1, TrieReadIs
<1>3. IsTrie(Renumbered(t))
  BY <1>1, RenumberedOK DEF IsTrie
<1>4. \A k \in Keys : TrieList(Renumbered(t), k) = TrieList(t, k)
  BY <1>1, RenumberedLists, KeysAssumption DEF IsKey
<1>5. TrieWrite(Renumbered(t)) = TrieWrite(t)
  BY <1>1, RenumberedSame
<1>6. TrieWrite(t) \in Seq(Nat)
  BY <1>1, NextReadIs DEF TrieOK, NodesOK
<1> QED BY <1>2, <1>3, <1>4, <1>5, <1>6, NoFileAssumption DEF Lists

\* A new trie has no lists.
LEMMA NewLists == IsTrie(NewTrie) /\ Lists(NewTrie) = [k \in Keys |-> <<>>]
  BY NewTrieOK, KeysAssumption DEF Lists, IsKey

\* The invariant holds at the start.
LEMMA InitInv == Init => Inv
<1> SUFFICES ASSUME Init PROVE Inv
  OBVIOUS
<1>1. BaseInv
  <2>1. kind \in Kinds /\ value = 0 /\ loaded = FALSE
    BY DEF Init
  <2>2. MaxAdds[kind] \in Nat
    BY <2>1, BoundsAssumption
  <2>3. value \in 0 .. MaxAdds[kind]
    BY <2>1, <2>2
  <2> QED BY <2>1, <2>3, Zenon DEF BaseInv
<1>2. ASSUME kind = "trie" PROVE TrieInv
  BY <1>2, NewLists DEF Init, TrieInv, NewIndex, Map!Init, Map!Nothing
<1> QED BY <1>1, <1>2 DEF Inv

\* Every step keeps it.
LEMMA NextInv == Inv /\ [Next]_vars => Inv'
<1> SUFFICES ASSUME Inv, [Next]_vars PROVE Inv'
  OBVIOUS
<1>1. ASSUME NEW k \in Keys, AddItem(k) PROVE Inv'
  <2>1. BaseInv'
    BY <1>1, BoundsAssumption DEF Inv, BaseInv, AddItem
  <2>2. ASSUME kind' = "trie" PROVE TrieInv'
    <3>1. kind = "trie" /\ TrieInv /\ ~loaded /\ value + 1 \in Nat
      BY <1>1, <2>2 DEF AddItem, Inv, BaseInv
    <3> DEFINE new == TrieAdd(index, k, value + 1)
    <3>2. index' = new /\ pending' = [pending EXCEPT ![k] = Append(@, value + 1)]
      BY <1>1, <3>1 DEF AddItem, Map!Add
    <3>3. \A j \in Keys : IsKey(j)
      BY KeysAssumption DEF IsKey
    <3>4. IsTrie(index) /\ pending = Lists(index)
      BY <3>1 DEF TrieInv
    <3>5. /\ IsTrie(new) /\ TrieList(new, k) = Append(TrieList(index, k), value + 1)
          /\ \A j \in Keys : j # k => TrieList(new, j) = TrieList(index, j)
      <4>1. value + 1 \in Nat /\ IsTrie(index) /\ IsKey(k)
        BY <3>1, <3>3, <3>4
      <4>2. /\ IsTrie(new) /\ TrieList(new, k) = Append(TrieList(index, k), value + 1)
            /\ \A j : IsKey(j) /\ j # k => TrieList(new, j) = TrieList(index, j)
        <5>1. IsTrie(new) /\ TrieList(new, k) = Append(TrieList(index, k), value + 1)
          BY <4>1, TrieAddOK
        <5>2. ASSUME NEW j, IsKey(j), j # k PROVE TrieList(new, j) = TrieList(index, j)
          BY <4>1, <5>2, TrieAddOK, SMT
        <5> QED BY <5>1, <5>2
      <4> QED BY <3>3, <4>2
    <3> HIDE DEF new
    <3>6. pending' = Lists(new)
      BY <3>2, <3>4, <3>5 DEF Lists
    <3>7. UNCHANGED <<file, saved, loaded>>
      BY <1>1 DEF AddItem, Map!Add
    <3> QED BY <3>1, <3>2, <3>5, <3>6, <3>7 DEF TrieInv, SavedTrie, Lists
  <2> QED BY <2>1, <2>2 DEF Inv
<1>2. ASSUME Write PROVE Inv'
  <2>1. BaseInv'
    BY <1>2 DEF Inv, BaseInv, Write
  <2>2. ASSUME kind' = "trie" PROVE TrieInv'
    <3>1. kind = "trie" /\ IsTrie(index) /\ pending = Lists(index)
      BY <1>2, <2>2 DEF Write, Inv, TrieInv
    <3>2. /\ file' = TrieWrite(index) /\ index' = NewTrie /\ ~loaded'
          /\ saved' = pending /\ pending' = [k \in Keys |-> <<>>]
      BY <1>2, <3>1 DEF Write, NewIndex, Map!Write, Map!Nothing
    <3>3. file' \in Seq(Nat) /\ file' # NoFile
      BY <3>1, <3>2, SavedAndLoaded
    <3>4. SavedTrie'
      BY <3>1, <3>2 DEF SavedTrie, Lists
    <3>5. IsTrie(index') /\ pending' = Lists(index')
      BY <3>2, NewLists
    <3> QED BY <3>2, <3>3, <3>4, <3>5 DEF TrieInv, Lists
  <2> QED BY <2>1, <2>2 DEF Inv
<1>3. ASSUME Read PROVE Inv'
  <2>1. BaseInv'
    BY <1>3 DEF Inv, BaseInv, Read
  <2>2. ASSUME kind' = "trie" PROVE TrieInv'
    <3>1. kind = "trie" /\ TrieInv
      BY <1>3, <2>2 DEF Read, Inv
    <3>2. /\ file # NoFile /\ index' = TrieRead(file) /\ loaded' /\ pending' = saved
          /\ UNCHANGED <<file, saved>>
      BY <1>3, <3>1 DEF Read, Load, Map!Read
    <3>3. file \in Seq(Nat) /\ SavedTrie
      BY <3>1, <3>2 DEF TrieInv
    <3>4. PICK t : IsTrie(t) /\ file = TrieWrite(t) /\ saved = Lists(t)
      BY <3>3 DEF SavedTrie
    <3>5. IsTrie(index') /\ pending' = Lists(index')
      BY <3>2, <3>4, SavedAndLoaded
    <3>6. SavedTrie'
      BY <3>2, <3>3 DEF SavedTrie, Lists
    <3> QED BY <3>2, <3>3, <3>5, <3>6 DEF TrieInv, Lists
  <2> QED BY <2>1, <2>2 DEF Inv
<1>4. CASE UNCHANGED vars
  BY <1>4 DEF Inv, BaseInv, TrieInv, SavedTrie, Lists, vars
<1> QED BY <1>1, <1>2, <1>3, <1>4 DEF Next

LEMMA AlwaysInv == Spec => []Inv
  BY InitInv, NextInv, PTL DEF Spec

\* The types of the index, its file and the values, for the trie.
LEMMA TrieTypeOK == Spec => [](kind = "trie" => TypeOK)
<1>1. Inv => (kind = "trie" => TypeOK)
  <2> SUFFICES ASSUME Inv, kind = "trie" PROVE TypeOK
    OBVIOUS
  <2>1. BaseInv /\ TrieInv
    BY DEF Inv
  <2>2. index.nodeCount \in Nat
    BY <2>1 DEF TrieInv, IsTrie, TrieOK
  <2>3. file = NoFile \/ \A i \in DOMAIN file : file[i] \in Nat
    <3>1. file = NoFile \/ file \in Seq(Nat)
      BY <2>1 DEF TrieInv
    <3> QED BY <3>1
  <2>4. ~(kind = "btree")
    OBVIOUS
  <2> QED BY <2>1, <2>2, <2>3, <2>4 DEF TypeOK, BaseInv
<1> QED BY <1>1, AlwaysInv, PTL

\* ~Trie counts every node down and meets none twice, however the trie was built.
LEMMA TrieNodesCounted == Spec => [](kind = "trie" => NodesCounted)
<1>1. Inv => (kind = "trie" => NodesCounted)
  <2> SUFFICES ASSUME Inv, kind = "trie" PROVE NodesCounted
    OBVIOUS
  <2>1. PICK lv, pf : TrieOK(index, lv, pf)
    BY DEF Inv, TrieInv, IsTrie
  <2>2. Len(OrderOf(index)) = Len(index.node)
    BY <2>1, OrderIs
  <2>3. Visited(index) = OrderOf(index)
    BY DEF Visited, OrderOf, Pushed
  <2> QED BY <2>1, <2>2, <2>3 DEF NodesCounted, TrieOK
<1> QED BY <1>1, AlwaysInv, PTL

\* A trie, in memory, saved or loaded again, has every key's values in the order
\* in which they were added.
THEOREM TrieHoldsMap == Spec => [](kind = "trie" => HoldsMap)
<1>1. Inv => (kind = "trie" => HoldsMap)
  <2> SUFFICES ASSUME Inv, kind = "trie" PROVE HoldsMap
    OBVIOUS
  <2>1. TrieInv
    BY DEF Inv
  <2>2. Contents(index) = pending
    BY <2>1 DEF TrieInv, Contents, Lists
  <2>3. CASE file = NoFile
    BY <2>1, <2>2, <2>3 DEF TrieInv, HoldsMap, FileContents
  <2>4. CASE file # NoFile
    <3>1. PICK t : IsTrie(t) /\ file = TrieWrite(t) /\ saved = Lists(t)
      BY <2>1, <2>4 DEF TrieInv, SavedTrie
    <3>2. FileContents = Lists(TrieRead(file))
      BY <2>4 DEF FileContents, Contents, Load, Lists
    <3> QED BY <2>2, <3>1, <3>2, SavedAndLoaded DEF HoldsMap
  <2> QED BY <2>3, <2>4
<1> QED BY <1>1, AlwaysInv, PTL

\* A trie loaded from a file, written again, gives the same file.
LEMMA TrieReloadedSame == Spec => [](kind = "trie" => ReloadedSame)
<1>1. Inv => (kind = "trie" => ReloadedSame)
  <2> SUFFICES ASSUME Inv, kind = "trie", loaded PROVE file = TrieWrite(index)
    BY DEF ReloadedSame
  <2>1. TrieInv
    BY DEF Inv
  <2>2. PICK t : IsTrie(t) /\ file = TrieWrite(t)
    BY <2>1 DEF TrieInv, SavedTrie
  <2>3. index = TrieRead(file)
    BY <2>1 DEF TrieInv
  <2> QED BY <2>2, <2>3, SavedAndLoaded
<1> QED BY <1>1, AlwaysInv, PTL

-----------------------------------------------------------------------------
(* Sequences in ascending order *)

IsAscending(s) == \A i, j \in 1 .. Len(s) : i < j => s[i] < s[j]

\* An ascending sequence stays one when a greater number is appended.
LEMMA AscendingGrows ==
    ASSUME NEW x \in Seq(Nat), IsAscending(x), NEW v \in Nat, \A j \in 1 .. Len(x) : x[j] < v
    PROVE  IsAscending(Append(x, v))
<1> DEFINE y == Append(x, v)
<1>1. y \in Seq(Nat) /\ Len(y) = Len(x) + 1 /\ y[Len(x) + 1] = v /\ \A j \in 1 .. Len(x) : y[j] = x[j]
  BY AppendProperties
<1>2. Len(x) \in Nat
  OBVIOUS
<1> HIDE DEF y
<1>3. ASSUME NEW i \in 1 .. Len(y), NEW j \in 1 .. Len(y), i < j PROVE y[i] < y[j]
  <2>1. i \in 1 .. Len(x)
    BY <1>1, <1>2, <1>3
  <2>2. CASE j = Len(x) + 1
    BY <1>1, <2>1, <2>2
  <2>3. CASE j # Len(x) + 1
    <3>1. j \in 1 .. Len(x)
      BY <1>1, <1>2, <2>3
    <3> QED BY <1>1, <1>3, <2>1, <3>1 DEF IsAscending
  <2> QED BY <2>2, <2>3
<1>4. IsAscending(y)
  BY <1>3 DEF IsAscending
<1> QED BY <1>4 DEF y

\* Selected lists the members of a set up to n, each once and the least first.
LEMMA SelectedAre ==
    ASSUME NEW n \in Nat, NEW I
    PROVE  /\ Selected(n, I) \in Seq(Nat) /\ IsAscending(Selected(n, I))
           /\ \A j \in 1 .. Len(Selected(n, I)) : Selected(n, I)[j] \in 1 .. n /\ Selected(n, I)[j] \in I
           /\ \A p \in 1 .. n : p \in I => \E j \in 1 .. Len(Selected(n, I)) : Selected(n, I)[j] = p
<1> DEFINE N == n
           U == Seq(Nat)
           start == <<>>
           Turn(i, x) == IF i \in I THEN Append(x, i) ELSE x
           Good(i, x) ==
             /\ IsAscending(x)
             /\ \A j \in 1 .. Len(x) : x[j] \in 1 .. i /\ x[j] \in I
             /\ \A p \in 1 .. i : p \in I => \E j \in 1 .. Len(x) : x[j] = p
           Solves(f) == f = [i \in 0 .. N |-> IF i = 0 THEN start ELSE Turn(i, f[i - 1])]
           selected == CHOOSE f : Solves(f)
<1>0. n \in Nat
  OBVIOUS
<1>1. N \in Nat /\ start \in U /\ Good(0, start)
  BY DEF IsAscending
<1>2. ASSUME NEW i \in 1 .. N, NEW x \in U, Good(i - 1, x)
      PROVE  Turn(i, x) \in U /\ Good(i, Turn(i, x))
  <2> HIDE DEF Turn, Good, U, N
  <2>1. /\ x \in Seq(Nat) /\ IsAscending(x)
        /\ \A j \in 1 .. Len(x) : x[j] \in 1 .. (i - 1) /\ x[j] \in I
        /\ \A p \in 1 .. (i - 1) : p \in I => \E j \in 1 .. Len(x) : x[j] = p
    BY <1>2 DEF U, Good
  <2>2. i \in Nat /\ i >= 1 /\ Len(x) \in Nat
    BY <1>0, <2>1 DEF N
  <2>3. CASE i \in I
    <3> DEFINE y == Append(x, i)
    <3>1. y \in Seq(Nat) /\ Len(y) = Len(x) + 1 /\ y[Len(x) + 1] = i /\ \A j \in 1 .. Len(x) : y[j] = x[j]
      BY <2>1, <2>2, AppendProperties
    <3>2. IsAscending(y)
      <4>1. \A j \in 1 .. Len(x) : x[j] < i
        BY <2>1, <2>2
      <4> QED BY <2>1, <2>2, <4>1, AscendingGrows
    <3> HIDE DEF y
    <3>3. ASSUME NEW j \in 1 .. Len(y) PROVE y[j] \in 1 .. i /\ y[j] \in I
      <4>1. CASE j = Len(x) + 1
        BY <2>2, <2>3, <3>1, <4>1
      <4>2. CASE j # Len(x) + 1
        <5>1. j \in 1 .. Len(x)
          BY <2>2, <3>1, <4>2
        <5>2. y[j] = x[j] /\ x[j] \in 1 .. (i - 1) /\ x[j] \in I
          BY <2>1, <3>1, <5>1
        <5> QED BY <2>2, <5>2
      <4> QED BY <4>1, <4>2
    <3>4. ASSUME NEW p \in 1 .. i, p \in I PROVE \E j \in 1 .. Len(y) : y[j] = p
      <4>1. CASE p = i
        <5>1. Len(x) + 1 \in 1 .. Len(y)
          BY <2>2, <3>1
        <5> QED BY <3>1, <4>1, <5>1
      <4>2. CASE p # i
        <5>1. p \in 1 .. (i - 1)
          BY <2>2, <4>2
        <5>2. PICK j \in 1 .. Len(x) : x[j] = p
          BY <2>1, <3>4, <5>1
        <5>3. j \in 1 .. Len(y) /\ y[j] = p
          BY <2>2, <3>1, <5>2
        <5> QED BY <5>3
      <4> QED BY <4>1, <4>2
    <3>5. y \in U /\ Good(i, y)
      BY <3>1, <3>2, <3>3, <3>4 DEF U, Good
    <3> QED BY <2>3, <3>5 DEF y, Turn
  <2>4. CASE i \notin I
    <3>1. \A p \in 1 .. i : p \in I => p \in 1 .. (i - 1)
      BY <2>2, <2>4
    <3>2. \A j \in 1 .. Len(x) : x[j] \in 1 .. i /\ x[j] \in I
      BY <2>1, <2>2
    <3>3. x \in U /\ Good(i, x)
      BY <2>1, <3>1, <3>2 DEF U, Good
    <3> QED BY <2>4, <3>3 DEF Turn
  <2> QED BY <2>3, <2>4
<1> HIDE DEF N, U, start, Good, Turn
<1>3. \E f : Solves(f)
  <2> DEFINE good == [i \in 0 .. N |-> {x \in U : Good(i, x)}]
             step == [i \in 1 .. N |-> [x \in good[i - 1] |-> Turn(i, x)]]
  <2>1. good \in [0 .. N -> SUBSET U] /\ start \in good[0]
    BY <1>1
  <2>2. ASSUME NEW i \in 1 .. N, NEW x \in good[i - 1]
        PROVE  step[i][x] = Turn(i, x) /\ Turn(i, x) \in good[i]
    <3>1. i \in 0 .. N /\ i - 1 \in 0 .. N
      BY <1>1
    <3>2. x \in U /\ Good(i - 1, x)
      BY <3>1
    <3>3. Turn(i, x) \in U /\ Good(i, Turn(i, x))
      BY <1>2, <3>2
    <3> QED BY <3>1, <3>3
  <2> HIDE DEF good, step
  <2>3. PICK f : Runs(f, N, U, good, start, step)
    <3>1. Loop(N, U, good, start, step)
      BY <1>1, <2>1, <2>2 DEF Loop
    <3> QED BY <3>1, LoopSolved
  <2>4. ASSUME NEW i \in 0 .. N
        PROVE  f[i] = IF i = 0 THEN start ELSE Turn(i, f[i - 1])
    <3>1. CASE i = 0
      BY <2>3, <3>1 DEF Runs
    <3>2. CASE i # 0
      <4>1. i \in 1 .. N
        BY <1>1, <3>2
      <4> QED BY <2>2, <2>3, <3>2, <4>1 DEF Runs
    <3> QED BY <3>1, <3>2
  <2>5. f = [i \in 0 .. N |-> f[i]]
    BY <2>3 DEF Runs
  <2>6. Solves(f)
    BY <2>4, <2>5
  <2> QED BY <2>6
<1>4. Solves(selected)
  BY <1>3
<1> HIDE DEF selected
<1>5. selected[0] = start /\ \A i \in 1 .. N : selected[i] = Turn(i, selected[i - 1])
  BY <1>1, <1>4
<1>6. \A i \in 0 .. N : selected[i] \in U /\ Good(i, selected[i])
  <2> DEFINE good == [i \in 0 .. N |-> {x \in U : Good(i, x)}]
  <2>1. selected[0] \in good[0]
    BY <1>1, <1>5
  <2>2. ASSUME NEW i \in 1 .. N, selected[i - 1] \in good[i - 1] PROVE selected[i] \in good[i]
    <3>1. i \in 0 .. N /\ i - 1 \in 0 .. N
      BY <1>1
    <3>2. selected[i - 1] \in U /\ Good(i - 1, selected[i - 1])
      BY <2>2, <3>1
    <3>3. selected[i] \in U /\ Good(i, selected[i])
      BY <1>2, <1>5, <3>2
    <3> QED BY <3>1, <3>3
  <2>3. \A i \in 0 .. N : selected[i] \in good[i]
    <3> HIDE DEF good
    <3> QED BY <1>1, <2>1, <2>2, LoopKeeps
  <2> QED BY <2>3

<1>7. Selected(n, I) = selected[N]
  BY DEF Selected, selected, Turn, N, start
<1>8. selected[N] \in U /\ Good(N, selected[N])
  <2>1. N \in 0 .. N
    BY <1>1
  <2> QED BY <1>6, <2>1
<1>9. /\ selected[N] \in Seq(Nat) /\ IsAscending(selected[N])
      /\ \A j \in 1 .. Len(selected[N]) : selected[N][j] \in 1 .. n /\ selected[N][j] \in I
      /\ \A p \in 1 .. n : p \in I => \E j \in 1 .. Len(selected[N]) : selected[N][j] = p
  BY <1>8 DEF U, Good, N
<1> QED BY <1>7, <1>9

\* Every element of Joined comes from one of the parts.
LEMMA JoinedFrom ==
    ASSUME NEW D, NEW parts \in Seq(Seq(D)), NEW k \in 1 .. Len(Joined(parts))
    PROVE  \E h \in 1 .. Len(parts) : \E j \in 1 .. Len(parts[h]) :
             k = Starts(parts)[h - 1] + j /\ Joined(parts)[k] = parts[h][j]
<1> DEFINE s == Starts(parts)
           N == Len(parts)
           S == {h \in 0 .. N : k <= s[h]}
<1>1. /\ N \in Nat /\ s \in [0 .. N -> Nat] /\ s[0] = 0
      /\ \A i \in 1 .. N : s[i] = s[i - 1] + Len(parts[i]) /\ Len(parts[i]) \in Nat
  <2>1. \A i \in 1 .. N : parts[i] \in Seq(D)
    OBVIOUS
  <2>2. \A i \in 1 .. N : Len(parts[i]) \in Nat
    BY <2>1
  <2> QED BY <2>2, StartsStep
<1>2. /\ Len(Joined(parts)) = s[N]
      /\ \A h \in 1 .. N : \A j \in 1 .. Len(parts[h]) : Joined(parts)[s[h - 1] + j] = parts[h][j]
  BY JoinedAt
<1> HIDE DEF s, N
<1>3. N \in S /\ S \subseteq Nat
  BY <1>1, <1>2
<1>4. PICK h \in S : \A i \in S : h <= i
  BY <1>3, LeastNatural
<1>5. h \in 0 .. N /\ k <= s[h] /\ h # 0 /\ k \in Nat /\ k >= 1
  BY <1>1, <1>2
<1>6. h \in 1 .. N /\ h - 1 \in 0 .. N /\ h - 1 \notin S
  BY <1>1, <1>4, <1>5
<1>7. s[h - 1] < k /\ s[h] = s[h - 1] + Len(parts[h]) /\ Len(parts[h]) \in Nat /\ s[h - 1] \in Nat
  BY <1>1, <1>5, <1>6
<1> DEFINE j == k - s[h - 1]
<1>8. j \in 1 .. Len(parts[h]) /\ k = s[h - 1] + j
  BY <1>5, <1>7
<1> HIDE DEF j
<1>9. Joined(parts)[k] = parts[h][j]
  BY <1>2, <1>6, <1>8
<1> QED BY <1>6, <1>8, <1>9 DEF s, N

\* The parts of Joined in step with those of a second sequence of parts, whose elements
\* ascend from part to part: keys, when the first has what is found under them.
InStep(parts, keys) ==
    /\ Len(keys) = Len(parts)
    /\ \A h \in 1 .. Len(parts) : Len(keys[h]) = Len(parts[h]) /\ IsAscending(keys[h])
    /\ \A g, h \in 1 .. Len(parts) : g < h =>
         \A i \in 1 .. Len(keys[g]) : \A j \in 1 .. Len(keys[h]) : keys[g][i] < keys[h][j]

Together(D, parts, keys, v, c) ==
    /\ v \in Seq(D) /\ c \in Seq(Nat) /\ Len(c) = Len(v) /\ IsAscending(c)
    /\ \A k \in 1 .. Len(v) : \E h \in 1 .. Len(parts) : \E j \in 1 .. Len(parts[h]) :
         v[k] = parts[h][j] /\ c[k] = keys[h][j]
    /\ \A h \in 1 .. Len(parts) : \A j \in 1 .. Len(parts[h]) : \E k \in 1 .. Len(v) :
         v[k] = parts[h][j] /\ c[k] = keys[h][j]

\* Parts and keys in step stay so when both are joined, and the keys ascend.
LEMMA JoinedInStep ==
    ASSUME NEW D, NEW parts \in Seq(Seq(D)), NEW keys \in Seq(Seq(Nat)), InStep(parts, keys)
    PROVE  Together(D, parts, keys, Joined(parts), Joined(keys))
<1> DEFINE N == Len(parts)
           s == Starts(parts)
           v == Joined(parts)
           c == Joined(keys)
<1>1. /\ Len(keys) = N /\ N \in Nat
      /\ \A h \in 1 .. N : Len(keys[h]) = Len(parts[h]) /\ IsAscending(keys[h])
      /\ \A g, h \in 1 .. N : g < h =>
           \A i \in 1 .. Len(keys[g]) : \A j \in 1 .. Len(keys[h]) : keys[g][i] < keys[h][j]
  <2>1. N \in Nat
    OBVIOUS
  <2> QED BY <2>1, Zenon DEF InStep
<1>2. Lengths(keys) = Lengths(parts)
  BY <1>1 DEF Lengths
<1>3. /\ s \in [0 .. N -> Nat] /\ s[0] = 0
      /\ \A i \in 1 .. N : s[i] = s[i - 1] + Len(parts[i])
      /\ \A j \in 0 .. N : \A i \in 0 .. j : s[i] <= s[j]
  BY StartsStep
<1>4. \A h \in 1 .. N : parts[h] \in Seq(D) /\ Len(parts[h]) \in Nat
  <2>1. \A h \in 1 .. N : parts[h] \in Seq(D)
    OBVIOUS
  <2> QED BY <2>1
<1>5. /\ v \in Seq(D) /\ Len(v) = s[N]
      /\ \A h \in 1 .. N : \A k \in 1 .. Len(parts[h]) : v[s[h - 1] + k] = parts[h][k]
  BY JoinedAt
<1>6. /\ c \in Seq(Nat) /\ Len(c) = s[N]
      /\ \A h \in 1 .. N : \A k \in 1 .. Len(parts[h]) : c[s[h - 1] + k] = keys[h][k]
  <2>1. /\ c \in Seq(Nat) /\ Len(c) = Starts(keys)[Len(keys)]
        /\ \A h \in 1 .. Len(keys) : \A k \in 1 .. Len(keys[h]) : c[Starts(keys)[h - 1] + k] = keys[h][k]
    BY JoinedAt
  <2>2. Starts(keys) = s
    BY <1>2 DEF Starts
  <2> HIDE DEF c, s, N
  <2> QED BY <1>1, <2>1, <2>2
<1>7. \A k \in 1 .. Len(v) : \E h \in 1 .. N : \E j \in 1 .. Len(parts[h]) :
        k = s[h - 1] + j /\ v[k] = parts[h][j]
  BY JoinedFrom
<1> HIDE DEF N, s, v, c
<1>8. ASSUME NEW k \in 1 .. Len(v)
      PROVE  \E h \in 1 .. N : \E j \in 1 .. Len(parts[h]) :
               k = s[h - 1] + j /\ v[k] = parts[h][j] /\ c[k] = keys[h][j]
  <2>1. PICK h \in 1 .. N : \E j \in 1 .. Len(parts[h]) : k = s[h - 1] + j /\ v[k] = parts[h][j]
    BY <1>7
  <2>2. PICK j \in 1 .. Len(parts[h]) : k = s[h - 1] + j /\ v[k] = parts[h][j]
    BY <2>1
  <2>3. c[k] = keys[h][j]
    BY <1>6, <2>2
  <2> QED BY <2>2, <2>3
<1>9. ASSUME NEW h \in 1 .. N, NEW j \in 1 .. Len(parts[h])
      PROVE  \E k \in 1 .. Len(v) : v[k] = parts[h][j] /\ c[k] = keys[h][j]
  <2>1. h - 1 \in 0 .. N /\ h \in 0 .. N /\ N \in 0 .. N /\ h \in 0 .. N
    BY <1>1
  <2>2. s[h - 1] \in Nat /\ s[h] = s[h - 1] + Len(parts[h]) /\ s[h] <= s[N] /\ s[N] \in Nat /\ Len(parts[h]) \in Nat
    BY <1>3, <1>4, <2>1
  <2>3. \A a, l, b \in Nat : a + l <= b => \A m \in 1 .. l : a + m \in 1 .. b
    OBVIOUS
  <2>4. s[h - 1] + j \in 1 .. s[N]
    BY <2>2, <2>3
  <2> QED BY <1>5, <1>6, <2>4
<1>10. ASSUME NEW k \in 1 .. Len(c), NEW l \in 1 .. Len(c), k < l PROVE c[k] < c[l]
  <2>0. k \in 1 .. Len(v) /\ l \in 1 .. Len(v)
    BY <1>5, <1>6
  <2>1. PICK g \in 1 .. N : \E i \in 1 .. Len(parts[g]) :
          k = s[g - 1] + i /\ v[k] = parts[g][i] /\ c[k] = keys[g][i]
    BY <1>8, <2>0
  <2>2. PICK i \in 1 .. Len(parts[g]) : k = s[g - 1] + i /\ c[k] = keys[g][i]
    BY <2>1
  <2>3. PICK h \in 1 .. N : \E j \in 1 .. Len(parts[h]) :
          l = s[h - 1] + j /\ v[l] = parts[h][j] /\ c[l] = keys[h][j]
    BY <1>8, <2>0
  <2>4. PICK j \in 1 .. Len(parts[h]) : l = s[h - 1] + j /\ c[l] = keys[h][j]
    BY <2>3
  <2>5. /\ Len(keys[g]) = Len(parts[g]) /\ Len(keys[h]) = Len(parts[h])
        /\ Len(parts[g]) \in Nat /\ Len(parts[h]) \in Nat
        /\ g \in Nat /\ h \in Nat /\ s[g - 1] \in Nat /\ s[h - 1] \in Nat
    <3>1. g - 1 \in 0 .. N /\ h - 1 \in 0 .. N /\ g \in Nat /\ h \in Nat
      BY <1>1
    <3> QED BY <1>1, <1>3, <1>4, <3>1
  <2>a. i \in Nat /\ i >= 1 /\ i <= Len(parts[g]) /\ j \in Nat /\ j >= 1 /\ j <= Len(parts[h])
    BY <2>2, <2>4, <2>5
  <2>b. k = s[g - 1] + i /\ l = s[h - 1] + j /\ k < l
    BY <1>10, <2>2, <2>4
  <2>6. CASE g = h
    <3>0. \A a, x, y \in Nat : a + x < a + y => x < y
      OBVIOUS
    <3>1. i < j
      BY <2>5, <2>6, <2>a, <2>b, <3>0
    <3>2. IsAscending(keys[g]) /\ i \in 1 .. Len(keys[g]) /\ j \in 1 .. Len(keys[g])
      BY <1>1, <2>5, <2>6
    <3>3. keys[g][i] < keys[g][j]
      BY <3>1, <3>2 DEF IsAscending
    <3> QED BY <2>2, <2>4, <2>6, <3>3
  <2>7. CASE g < h
    BY <1>1, <2>2, <2>4, <2>5, <2>7
  <2>8. CASE h < g
    <3>a. \A m \in Nat : \A x, y \in 1 .. m :
            y < x => y \in 0 .. (x - 1) /\ x - 1 \in 0 .. m /\ y \in 0 .. m
      OBVIOUS
    <3>1. h \in 0 .. g - 1 /\ g - 1 \in 0 .. N /\ h \in 0 .. N
      BY <1>1, <2>8, <3>a
    <3>2. s[h] <= s[g - 1] /\ s[h] = s[h - 1] + Len(parts[h]) /\ s[h] \in Nat
      BY <1>3, <3>1
    <3>0. \A a, x, y, b, z \in Nat : a + x < b + y /\ z >= y /\ b + z <= a => FALSE
      OBVIOUS
    <3>3. s[h - 1] + Len(parts[h]) <= s[g - 1]
      BY <3>2
    <3> QED BY <2>5, <2>a, <2>b, <3>0, <3>3
  <2> QED BY <2>5, <2>6, <2>7, <2>8
<1>11. IsAscending(c)
  BY <1>10 DEF IsAscending
<1>12. \A k \in 1 .. Len(v) : \E h \in 1 .. N : \E j \in 1 .. Len(parts[h]) :
         v[k] = parts[h][j] /\ c[k] = keys[h][j]
  BY <1>8
<1>13. Together(D, parts, keys, v, c)
  BY <1>5, <1>6, <1>9, <1>11, <1>12 DEF Together, N
<1> QED BY <1>13 DEF v, c

\* merge finds a place for a value: before the first that is not less.
LEMMA InsertAtIs ==
    ASSUME NEW x \in Seq(Nat), NEW v \in Nat
    PROVE  /\ InsertAt(x, v) \in 1 .. Len(x) + 1
           /\ InsertAt(x, v) <= Len(x) => v <= x[InsertAt(x, v)]
           /\ \A i \in 1 .. InsertAt(x, v) - 1 : x[i] < v
<1> DEFINE S == {p \in 1 .. Len(x) + 1 : p <= Len(x) => v <= x[p]}
           Fits(p) == (p <= Len(x) => v <= x[p]) /\ \A i \in 1 .. p - 1 : x[i] < v
<1>1. Len(x) \in Nat /\ \A i \in 1 .. Len(x) : x[i] \in Nat
  OBVIOUS
<1>2. Len(x) + 1 \in S /\ S \subseteq Nat
  BY <1>1
<1>3. PICK p \in S : \A i \in S : p <= i
  BY <1>2, LeastNatural
<1>4. ASSUME NEW i \in 1 .. p - 1 PROVE x[i] < v
  <2>1. p \in 1 .. Len(x) + 1
    BY <1>3
  <2>2. i \in 1 .. Len(x) /\ i < p
    BY <1>1, <2>1
  <2>3. i \notin S
    BY <1>3, <2>1, <2>2
  <2> QED BY <1>1, <2>2, <2>3
<1>5. p \in 1 .. Len(x) + 1 /\ Fits(p)
  BY <1>3, <1>4
<1>6. InsertAt(x, v) = CHOOSE q \in 1 .. Len(x) + 1 : Fits(q)
  BY DEF InsertAt
<1> HIDE DEF Fits
<1>7. InsertAt(x, v) \in 1 .. Len(x) + 1 /\ Fits(InsertAt(x, v))
  BY <1>5, <1>6
<1> QED BY <1>7 DEF Fits

\* A value put into an ascending list that does not have it yet.
Inserted(x, v) ==
    LET at == InsertAt(x, v)
    IN  [i \in 1 .. Len(x) + 1 |-> IF i < at THEN x[i] ELSE IF i = at THEN v ELSE x[i - 1]]

LEMMA InsertedIs ==
    ASSUME NEW x \in Seq(Nat), IsAscending(x), NEW v \in Nat, \A i \in 1 .. Len(x) : x[i] # v
    PROVE  /\ Inserted(x, v) \in Seq(Nat) /\ Len(Inserted(x, v)) = Len(x) + 1
           /\ IsAscending(Inserted(x, v))
           /\ \A i \in 1 .. Len(x) + 1 : Inserted(x, v)[i] = v \/ \E j \in 1 .. Len(x) : Inserted(x, v)[i] = x[j]
           /\ \E i \in 1 .. Len(x) + 1 : Inserted(x, v)[i] = v
           /\ \A j \in 1 .. Len(x) : \E i \in 1 .. Len(x) + 1 : Inserted(x, v)[i] = x[j]
<1> DEFINE at == InsertAt(x, v)
           n == Len(x)
           y == Inserted(x, v)
<1>1. n \in Nat /\ \A i \in 1 .. n : x[i] \in Nat
  OBVIOUS
<1>2. at \in 1 .. n + 1 /\ (at <= n => v <= x[at]) /\ \A i \in 1 .. at - 1 : x[i] < v
  BY InsertAtIs
<1>3. y = [i \in 1 .. n + 1 |-> IF i < at THEN x[i] ELSE IF i = at THEN v ELSE x[i - 1]]
  BY DEF Inserted
<1>a. (\A i, j \in 1 .. n : i < j => x[i] < x[j]) /\ \A i \in 1 .. n : x[i] # v
  BY DEF IsAscending
<1> HIDE DEF at, n, y
<1>4. /\ \A i \in 1 .. n + 1 : i < at => i \in 1 .. n /\ i \in 1 .. at - 1 /\ y[i] = x[i]
      /\ y[at] = v
      /\ \A i \in 1 .. n + 1 : i > at => i - 1 \in 1 .. n /\ i - 1 >= at /\ y[i] = x[i - 1]
  BY <1>1, <1>2, <1>3
<1>5. \A i \in 1 .. n + 1 : y[i] \in Nat
  <2> TAKE i \in 1 .. n + 1
  <2>1. i < at \/ i = at \/ i > at
    BY <1>1, <1>2
  <2> QED BY <1>1, <1>4, <2>1
<1>6. y \in Seq(Nat) /\ Len(y) = n + 1
  <2> DEFINE F(i) == IF i < at THEN x[i] ELSE IF i = at THEN v ELSE x[i - 1]
             m == n + 1
  <2>1. y = [i \in 1 .. m |-> F(i)] /\ m \in Nat
    BY <1>1, <1>3
  <2> HIDE DEF F
  <2>2. \A i \in 1 .. m : F(i) \in Nat
    BY <1>5, <2>1
  <2>3. y \in Seq(Nat) /\ Len(y) = m
    <3> HIDE DEF m
    <3> QED BY <2>1, <2>2
  <2> QED BY <2>3
<1>7. \A i \in 1 .. n : at <= i => v < x[i]
  <2> TAKE i \in 1 .. n
  <2> HAVE at <= i
  <2>1. at \in 1 .. n /\ v <= x[at] /\ v # x[at]
    BY <1>1, <1>2, <1>a
  <2>2. v < x[at]
    BY <1>1, <2>1
  <2>3. CASE i = at
    BY <2>2, <2>3
  <2>4. CASE i # at
    <3>1. x[at] < x[i]
      BY <1>a, <2>1, <2>4
    <3> QED BY <1>1, <2>1, <2>2, <3>1
  <2> QED BY <2>3, <2>4
<1>8. ASSUME NEW i \in 1 .. n + 1, NEW j \in 1 .. n + 1, i < j PROVE y[i] < y[j]
  <2>0. (i < at \/ i = at \/ i > at) /\ (j < at \/ j = at \/ j > at) /\ i \in Nat /\ j \in Nat /\ at \in Nat
    BY <1>1, <1>2
  <2>1. CASE j < at
    <3>1. i < at
      BY <1>8, <2>0, <2>1
    <3> QED BY <1>4, <1>8, <1>a, <2>1, <3>1
  <2>2. CASE j = at
    <3>1. i < at
      BY <1>8, <2>0, <2>2
    <3> QED BY <1>2, <1>4, <2>2, <3>1
  <2>3. CASE j > at /\ i < at
    <3>1. y[i] = x[i] /\ i \in 1 .. n /\ y[j] = x[j - 1] /\ j - 1 \in 1 .. n /\ i < j - 1
      BY <1>4, <2>0, <2>3
    <3> QED BY <1>a, <3>1
  <2>4. CASE j > at /\ i = at
    BY <1>4, <1>7, <2>4
  <2>5. CASE j > at /\ i > at
    <3>1. y[i] = x[i - 1] /\ i - 1 \in 1 .. n /\ y[j] = x[j - 1] /\ j - 1 \in 1 .. n /\ i - 1 < j - 1
      BY <1>4, <1>8, <2>0, <2>5
    <3> QED BY <1>a, <3>1
  <2> QED BY <2>0, <2>1, <2>2, <2>3, <2>4, <2>5
<1>9. IsAscending(y)
  BY <1>6, <1>8 DEF IsAscending
<1>10. \A i \in 1 .. n + 1 : y[i] = v \/ \E j \in 1 .. n : y[i] = x[j]
  <2> TAKE i \in 1 .. n + 1
  <2>1. i < at \/ i = at \/ i > at
    BY <1>1, <1>2
  <2> QED BY <1>4, <2>1
<1>11. \A j \in 1 .. n : \E i \in 1 .. n + 1 : y[i] = x[j]
  <2> TAKE j \in 1 .. n
  <2>1. CASE j < at
    <3>1. j \in 1 .. n + 1
      BY <1>1
    <3> QED BY <1>4, <2>1, <3>1
  <2>2. CASE ~(j < at)
    <3>1. j + 1 \in 1 .. n + 1 /\ j + 1 > at /\ j + 1 - 1 = j
      BY <1>1, <1>2, <2>2
    <3>2. y[j + 1] = x[j + 1 - 1]
      BY <1>4, <3>1
    <3> QED BY <3>1, <3>2
  <2> QED BY <2>1, <2>2
<1> QED BY <1>2, <1>4, <1>6, <1>9, <1>10, <1>11 DEF y, n

Elements(s) == {s[i] : i \in DOMAIN s}

\* Lists without a value twice are merged to one ascending list of their values.
LEMMA MergedIs ==
    ASSUME NEW lists \in Seq(Seq(Nat)),
           \A k, l \in 1 .. Len(Joined(lists)) : Joined(lists)[k] = Joined(lists)[l] => k = l
    PROVE  /\ Merged(lists) \in Seq(Nat) /\ IsAscending(Merged(lists))
           /\ Elements(Merged(lists)) = Elements(Joined(lists))

<1> DEFINE N == Len(Joined(lists))
           U == Seq(Nat)
           start == <<>>
           Turn(k, x) == 
             LET at == InsertAt(x, Joined(lists)[k])
             IN  [i \in 1 .. k |-> IF i < at THEN x[i] ELSE IF i = at THEN Joined(lists)[k] ELSE x[i - 1]]
           Good(k, x) ==
             /\ Len(x) = k /\ IsAscending(x)
             /\ \A i \in 1 .. Len(x) : \E l \in 1 .. k : x[i] = Joined(lists)[l]
             /\ \A l \in 1 .. k : \E i \in 1 .. Len(x) : x[i] = Joined(lists)[l]
           Solves(f) == f = [k \in 0 .. N |-> IF k = 0 THEN start ELSE Turn(k, f[k - 1])]
           merged == CHOOSE f : Solves(f)
<1>0. /\ N \in Nat /\ Joined(lists) \in Seq(Nat)
      /\ \A k \in 1 .. N : Joined(lists)[k] \in Nat
      /\ \A k, l \in 1 .. N : Joined(lists)[k] = Joined(lists)[l] => k = l
  <2>1. Joined(lists) \in Seq(Nat)
    BY JoinedAt
  <2> QED BY <2>1
<1>1. N \in Nat /\ start \in U /\ Good(0, start)
  BY <1>0 DEF IsAscending
<1>2. ASSUME NEW k \in 1 .. N, NEW x \in U, Good(k - 1, x)
      PROVE  Turn(k, x) \in U /\ Good(k, Turn(k, x))
  <2> DEFINE v == Joined(lists)
             y == Inserted(x, v[k])
  <2>1. /\ x \in Seq(Nat) /\ Len(x) = k - 1 /\ IsAscending(x)
        /\ \A i \in 1 .. Len(x) : \E l \in 1 .. k - 1 : x[i] = v[l]
        /\ \A l \in 1 .. k - 1 : \E i \in 1 .. Len(x) : x[i] = v[l]
    BY <1>2
  <2>2. k \in Nat /\ k >= 1 /\ Len(x) + 1 = k /\ v[k] \in Nat
    BY <1>0, <2>1
  <2>3. Turn(k, x) = y
    BY <2>2 DEF Inserted
  <2> HIDE DEF N, Turn, v
  <2>4. \A i \in 1 .. Len(x) : x[i] # v[k]
    <3> TAKE i \in 1 .. Len(x)
    <3>1. PICK l \in 1 .. k - 1 : x[i] = v[l]
      BY <2>1
    <3>2. l \in 1 .. N /\ l # k
      BY <1>0, <2>2
    <3> QED BY <1>0, <3>1, <3>2 DEF v
  <2>5. /\ y \in Seq(Nat) /\ Len(y) = k /\ IsAscending(y)
        /\ \A i \in 1 .. k : y[i] = v[k] \/ \E j \in 1 .. Len(x) : y[i] = x[j]
        /\ \E i \in 1 .. k : y[i] = v[k]
        /\ \A j \in 1 .. Len(x) : \E i \in 1 .. k : y[i] = x[j]
    <3>1. /\ y \in Seq(Nat) /\ Len(y) = Len(x) + 1 /\ IsAscending(y)
          /\ \A i \in 1 .. Len(x) + 1 : y[i] = v[k] \/ \E j \in 1 .. Len(x) : y[i] = x[j]
          /\ \E i \in 1 .. Len(x) + 1 : y[i] = v[k]
          /\ \A j \in 1 .. Len(x) : \E i \in 1 .. Len(x) + 1 : y[i] = x[j]
      BY <2>1, <2>2, <2>4, InsertedIs
    <3> QED BY <2>2, <3>1
  <2> HIDE DEF y
  <2>6. \A i \in 1 .. Len(y) : \E l \in 1 .. k : y[i] = v[l]
    <3> TAKE i \in 1 .. Len(y)
    <3>1. CASE y[i] = v[k]
      BY <2>2, <3>1
    <3>2. CASE \E j \in 1 .. Len(x) : y[i] = x[j]
      <4>1. PICK j \in 1 .. Len(x) : y[i] = x[j]
        BY <3>2
      <4>2. PICK l \in 1 .. k - 1 : x[j] = v[l]
        BY <2>1
      <4>3. l \in 1 .. k
        BY <2>2
      <4> QED BY <4>1, <4>2, <4>3
    <3> QED BY <2>5, <3>1, <3>2
  <2>7. \A l \in 1 .. k : \E i \in 1 .. Len(y) : y[i] = v[l]
    <3> TAKE l \in 1 .. k
    <3>1. CASE l = k
      BY <2>5, <3>1
    <3>2. CASE l # k
      <4>1. l \in 1 .. k - 1
        BY <2>2, <3>2
      <4>2. PICK j \in 1 .. Len(x) : x[j] = v[l]
        BY <2>1, <4>1
      <4>3. \E i \in 1 .. k : y[i] = x[j]
        BY <2>5
      <4> QED BY <2>5, <4>2, <4>3
    <3> QED BY <3>1, <3>2
  <2> QED BY <2>3, <2>5, <2>6, <2>7 DEF v
<1> HIDE DEF N, U, start, Good, Turn
<1>3. \E f : Solves(f)
  <2> DEFINE good == [k \in 0 .. N |-> {x \in U : Good(k, x)}]
             step == [k \in 1 .. N |-> [x \in good[k - 1] |-> Turn(k, x)]]
  <2>1. good \in [0 .. N -> SUBSET U] /\ start \in good[0]
    BY <1>1
  <2>2. ASSUME NEW k \in 1 .. N, NEW x \in good[k - 1]
        PROVE  step[k][x] = Turn(k, x) /\ Turn(k, x) \in good[k]
    <3>1. k \in 0 .. N /\ k - 1 \in 0 .. N
      BY <1>1
    <3>2. x \in U /\ Good(k - 1, x)
      BY <3>1
    <3>3. Turn(k, x) \in U /\ Good(k, Turn(k, x))
      BY <1>2, <3>2
    <3> QED BY <3>1, <3>3
  <2> HIDE DEF good, step
  <2>3. PICK f : Runs(f, N, U, good, start, step)
    <3>1. Loop(N, U, good, start, step)
      BY <1>1, <2>1, <2>2 DEF Loop
    <3> QED BY <3>1, LoopSolved
  <2>4. ASSUME NEW k \in 0 .. N
        PROVE  f[k] = IF k = 0 THEN start ELSE Turn(k, f[k - 1])
    <3>1. CASE k = 0
      BY <2>3, <3>1 DEF Runs
    <3>2. CASE k # 0
      <4>1. k \in 1 .. N
        BY <1>1, <3>2
      <4> QED BY <2>2, <2>3, <3>2, <4>1 DEF Runs
    <3> QED BY <3>1, <3>2
  <2>5. f = [k \in 0 .. N |-> f[k]]
    BY <2>3 DEF Runs
  <2>6. Solves(f)
    BY <2>4, <2>5
  <2> QED BY <2>6
<1>4. Solves(merged)
  BY <1>3
<1> HIDE DEF merged
<1>5. merged[0] = start /\ \A k \in 1 .. N : merged[k] = Turn(k, merged[k - 1])
  BY <1>1, <1>4
<1>6. \A k \in 0 .. N : merged[k] \in U /\ Good(k, merged[k])
  <2> DEFINE good == [k \in 0 .. N |-> {x \in U : Good(k, x)}]
  <2>1. merged[0] \in good[0]
    BY <1>1, <1>5
  <2>2. ASSUME NEW k \in 1 .. N, merged[k - 1] \in good[k - 1] PROVE merged[k] \in good[k]
    <3>1. k \in 0 .. N /\ k - 1 \in 0 .. N
      BY <1>1
    <3>2. merged[k - 1] \in U /\ Good(k - 1, merged[k - 1])
      BY <2>2, <3>1
    <3>3. merged[k] \in U /\ Good(k, merged[k])
      BY <1>2, <1>5, <3>2
    <3> QED BY <3>1, <3>3
  <2>3. \A k \in 0 .. N : merged[k] \in good[k]
    <3> HIDE DEF good
    <3> QED BY <1>1, <2>1, <2>2, LoopKeeps
  <2> QED BY <2>3

<1>7. Merged(lists) = merged[N]
  BY DEF Merged, merged, Turn, N, start
<1>8. merged[N] \in U /\ Good(N, merged[N])
  <2>1. N \in 0 .. N
    BY <1>1
  <2> QED BY <1>6, <2>1
<1> DEFINE m == merged[N]
           v == Joined(lists)
<1>9. /\ m \in Seq(Nat) /\ IsAscending(m) /\ Len(m) = N
      /\ \A i \in 1 .. Len(m) : \E l \in 1 .. N : m[i] = v[l]
      /\ \A l \in 1 .. N : \E i \in 1 .. Len(m) : m[i] = v[l]
  BY <1>8 DEF U, Good
<1>10. DOMAIN v = 1 .. N
  BY <1>0 DEF N
<1> HIDE DEF m, v
<1>11. DOMAIN m = 1 .. Len(m)
  BY <1>9
<1>12. Elements(m) = Elements(v)
  <2>1. ASSUME NEW e \in Elements(m) PROVE e \in Elements(v)
    <3>1. PICK i \in 1 .. Len(m) : e = m[i]
      BY <1>11, <2>1 DEF Elements
    <3>2. PICK l \in 1 .. N : m[i] = v[l]
      BY <1>9
    <3> QED BY <1>10, <3>1, <3>2 DEF Elements
  <2>2. ASSUME NEW e \in Elements(v) PROVE e \in Elements(m)
    <3>1. PICK l \in 1 .. N : e = v[l]
      BY <1>10, <2>2 DEF Elements
    <3>2. PICK i \in 1 .. Len(m) : m[i] = v[l]
      BY <1>9
    <3> QED BY <1>11, <3>1, <3>2 DEF Elements
  <2> QED BY <2>1, <2>2
<1>13. m = Merged(lists) /\ v = Joined(lists)
  BY <1>7 DEF m, v
<1> QED BY <1>9, <1>12, <1>13

-----------------------------------------------------------------------------
(* Digits and order *)

\* A number is less when its first digits are, and not less when they are not.
LEMMA DigitsOrder ==
    /\ \A a, b \in Nat : a <= b => a \div TriePerNode <= b \div TriePerNode
    /\ \A a, b \in Nat : \A p, q \in Positions :
         a < b => a * TriePerNode + p < b * TriePerNode + q
<1> DEFINE d == TriePerNode
<1>1. d \in Nat /\ d > 0
  BY TriePerNodeAssumption
<1> HIDE DEF d
<1>2. \A c \in Nat : \A e \in Nat : (c + e) * d = c * d + e * d /\ c * d \in Nat /\ e * d \in Nat
  BY <1>1
<1>3. \A a, b \in Nat : a < b => a * d + d <= b * d
  <2> TAKE a, b \in Nat
  <2> HAVE a < b
  <2> DEFINE c == a + 1
             e == b - c
  <2>1. c \in Nat /\ e \in Nat /\ b = c + e
    OBVIOUS
  <2> HIDE DEF e
  <2>2. b * d = c * d + e * d /\ c * d \in Nat /\ e * d \in Nat
    BY <1>2, <2>1
  <2>3. c * d = a * d + 1 * d
    BY <1>2
  <2>4. 1 * d = d
    BY <1>1
  <2>5. a * d \in Nat
    BY <1>2
  <2> QED BY <1>1, <2>2, <2>3, <2>4, <2>5
<1>4. ASSUME NEW a \in Nat, NEW b \in Nat, NEW p \in 0 .. d - 1, NEW q \in 0 .. d - 1, a < b
      PROVE  a * d + p < b * d + q
  <2>1. a * d + d <= b * d /\ a * d \in Nat /\ b * d \in Nat
    BY <1>2, <1>3, <1>4
  <2> QED BY <1>1, <2>1
<1>5. ASSUME NEW a \in Nat, NEW b \in Nat, a <= b PROVE a \div d <= b \div d
  <2> DEFINE x == a \div d
             y == b \div d
             p == a % d
             q == b % d
  <2>1. x \in Nat /\ p \in 0 .. d - 1 /\ a = x * d + p
    BY <1>1, Division
  <2>2. y \in Nat /\ q \in 0 .. d - 1 /\ b = y * d + q
    BY <1>1, Division
  <2> HIDE DEF x, y, p, q
  <2>3. ASSUME y < x PROVE FALSE
    <3>1. y * d + q < x * d + p
      BY <1>4, <2>1, <2>2, <2>3
    <3> QED BY <1>5, <2>1, <2>2, <3>1
  <2>4. x <= y
    BY <2>1, <2>2, <2>3
  <2> QED BY <2>4 DEF x, y
<1>6. Positions = 0 .. d - 1
  BY DEF Positions, d
<1> QED BY <1>4, <1>5, <1>6 DEF d

\* What lies within two bounds has its first digits within the first digits of these.
LEMMA WithinPrefix ==
    ASSUME NEW b \in Nat, NEW e \in Nat, NEW i \in 1 .. Depth, NEW x \in Nat,
           Within(x, Prefix(b, i), Prefix(e, i))
    PROVE  Within(x \div TriePerNode, Prefix(b, i - 1), Prefix(e, i - 1))
<1>1. i \in 0 .. Depth /\ Prefix(b, i) \in Nat /\ Prefix(e, i) \in Nat
  <2>1. i \in 0 .. Depth
    BY DepthAssumption
  <2> QED BY <2>1, Digits
<1>2. Prefix(b, i) \div TriePerNode = Prefix(b, i - 1) /\ Prefix(e, i) \div TriePerNode = Prefix(e, i - 1)
  BY LastDigit
<1>3. Prefix(b, i) <= x /\ x <= Prefix(e, i)
  BY DEF Within
<1>4. /\ Prefix(b, i) \div TriePerNode <= x \div TriePerNode
      /\ x \div TriePerNode <= Prefix(e, i) \div TriePerNode
  BY <1>1, <1>3, DigitsOrder
<1> QED BY <1>2, <1>4 DEF Within

\* The first digits of a key between two bounds lie between those of the bounds.
LEMMA KeyWithin ==
    ASSUME NEW b \in Nat, NEW e \in Nat, NEW k \in Nat, b <= k, k <= e
    PROVE  \A i \in 0 .. Depth : Within(Prefix(k, i), Prefix(b, i), Prefix(e, i))
<1> DEFINE S == {j \in 0 .. Depth : Within(Prefix(k, Depth - j), Prefix(b, Depth - j), Prefix(e, Depth - j))}
<1>1. Depth \in Nat
  BY DepthAssumption
<1>2. 0 \in S
  <2>1. Prefix(k, Depth) = k /\ Prefix(b, Depth) = b /\ Prefix(e, Depth) = e
    BY Digits
  <2>2. Depth - 0 = Depth /\ 0 \in 0 .. Depth
    BY <1>1
  <2> QED BY <2>1, <2>2 DEF Within
<1>3. ASSUME NEW j \in 0 .. Depth - 1, j \in S PROVE j + 1 \in S
  <2> DEFINE i == Depth - j
  <2>1. i \in 1 .. Depth /\ i \in 0 .. Depth /\ Depth - (j + 1) = i - 1 /\ j + 1 \in 0 .. Depth
    BY <1>1
  <2>2. Within(Prefix(k, i), Prefix(b, i), Prefix(e, i))
    BY <1>3
  <2> HIDE DEF i
  <2>3. Prefix(k, i) \in Nat
    BY <2>1, Digits
  <2>4. Within(Prefix(k, i) \div TriePerNode, Prefix(b, i - 1), Prefix(e, i - 1))
    BY <2>1, <2>2, <2>3, WithinPrefix
  <2>5. Prefix(k, i) \div TriePerNode = Prefix(k, i - 1)
    BY <2>1, LastDigit
  <2> QED BY <2>1, <2>4, <2>5
<1> HIDE DEF S
<1>4. 0 .. Depth \subseteq S
  BY <1>1, <1>2, <1>3, InductionUpTo
<1>5. ASSUME NEW i \in 0 .. Depth PROVE Within(Prefix(k, i), Prefix(b, i), Prefix(e, i))
  <2>1. Depth - i \in 0 .. Depth /\ Depth - (Depth - i) = i
    BY <1>1
  <2>2. Depth - i \in S
    BY <1>4, <2>1
  <2> QED BY <2>1, <2>2 DEF S
<1> QED BY <1>5

\* On the way to a leaf there is a node with the key's first digits at every level.
LEMMA Ancestors ==
    ASSUME NEW t, NEW lv, NEW pf, TrieOK(t, lv, pf), NEW k \in Nat,
           NEW leaf \in 1 .. Len(t.node), lv[leaf] = Depth - 1, pf[leaf] = Prefix(k, Depth - 1)
    PROVE  \A i \in 0 .. Depth - 1 : \E m \in 1 .. Len(t.node) : lv[m] = i /\ pf[m] = Prefix(k, i)
<1> DEFINE N == Depth - 1
           There(i) == \E m \in 1 .. Len(t.node) : lv[m] = i /\ pf[m] = Prefix(k, i)
           S == {j \in 0 .. N : There(N - j)}
<1>1. N \in Nat /\ Depth \in Nat /\ Depth = N + 1
  BY DepthAssumption
<1>2. lv \in [1 .. Len(t.node) -> 0 .. N] /\ lv[1] = 0
  BY DEF TrieOK, NodesOK
<1>3. 0 \in S
  <2>1. N - 0 = N /\ 0 \in 0 .. N
    BY <1>1
  <2> QED BY <2>1
<1>4. ASSUME NEW j \in 0 .. N - 1, j \in S PROVE j + 1 \in S
  <2> DEFINE i == N - j
  <2>1. i \in 1 .. Depth /\ N - (j + 1) = i - 1 /\ j + 1 \in 0 .. N /\ i # 0
    BY <1>1
  <2>2. PICK m \in 1 .. Len(t.node) : lv[m] = i /\ pf[m] = Prefix(k, i)
    BY <1>4
  <2> HIDE DEF i, N
  <2>3. m # 1
    BY <1>2, <2>1, <2>2
  <2>4. PICK n \in 1 .. Len(t.node) : lv[m] = lv[n] + 1 /\ pf[n] = pf[m] \div TriePerNode
    BY <2>3, ParentOf
  <2>5. pf[n] = Prefix(k, i - 1)
    BY <2>1, <2>2, <2>4, LastDigit
  <2>6. lv[n] \in Nat /\ i \in Nat
    BY <1>2, <2>1
  <2>7. lv[n] = i - 1
    BY <2>2, <2>4, <2>6
  <2>8. There(N - (j + 1))
    BY <2>1, <2>5, <2>7
  <2> QED BY <2>1, <2>8
<1> HIDE DEF S
<1>5. 0 .. N \subseteq S
  BY <1>1, <1>3, <1>4, InductionUpTo
<1>6. ASSUME NEW i \in 0 .. N PROVE There(i)
  <2>1. N - i \in 0 .. N /\ N - (N - i) = i
    BY <1>1
  <2>2. N - i \in S
    BY <1>5, <2>1
  <2> QED BY <2>1, <2>2 DEF S
<1> QED BY <1>6

\* A leaf's digits and one of its positions are a key, under which the list there is filed.
LEMMA KeyOfLeaf ==
    ASSUME NEW t, NEW lv, NEW pf, TrieOK(t, lv, pf),
           NEW n \in 1 .. Len(t.node), lv[n] = Depth - 1, NEW p \in DOMAIN t.node[n].ptr
    PROVE  /\ IsKey(pf[n] * TriePerNode + p)
           /\ TrieList(t, pf[n] * TriePerNode + p) = t.node[n].ptr[p]
<1> DEFINE k == pf[n] * TriePerNode + p
<1>1. pf[n] \in Nat /\ NodeOK(t.node[n]) /\ lv \in [1 .. Len(t.node) -> 0 .. Depth - 1]
      /\ pf[1] = 0
  BY DEF TrieOK, NodesOK
<1>2. p \in Positions
  BY <1>1 DEF NodeOK, TrieNode
<1>3. k \in Nat
  <2>1. TriePerNode \in Nat /\ p \in Nat
    BY <1>2, TriePerNodeAssumption DEF Positions
  <2> QED BY <1>1, <2>1
<1>4. k \div TriePerNode = pf[n] /\ k % TriePerNode = p
  BY <1>1, <1>2, TrieDivision
<1> HIDE DEF k
<1>5. Depth \in 1 .. Depth /\ Prefix(k, Depth) = k /\ Depth \in Nat
  <2>1. Depth \in 1 .. Depth /\ Depth \in Nat
    BY DepthAssumption
  <2> QED BY <1>3, <2>1, Digits
<1>6. Prefix(k, Depth - 1) = pf[n] /\ Digit(k, Depth) = p
  BY <1>3, <1>4, <1>5, LastDigit
<1>7. PICK m \in 1 .. Len(t.node) : lv[m] = 0 /\ pf[m] = Prefix(k, 0)
  <2>1. \A i \in 0 .. Depth - 1 : \E m \in 1 .. Len(t.node) : lv[m] = i /\ pf[m] = Prefix(k, i)
    BY <1>3, <1>6, Ancestors
  <2>2. 0 \in 0 .. Depth - 1
    BY DepthAssumption
  <2> QED BY <2>1, <2>2
<1>8. m = 1
  <2>1. ASSUME m # 1 PROVE FALSE
    <3>1. PICK q \in 1 .. Len(t.node) : lv[m] = lv[q] + 1
      BY <2>1, ParentOf
    <3>2. lv[q] \in Nat
      BY <1>1, <1>5
    <3> QED BY <1>7, <3>1, <3>2
  <2> QED BY <2>1
<1>9. IsKey(k)
  BY <1>1, <1>3, <1>7, <1>8 DEF IsKey
<1>10. TrieList(t, k) = t.node[n].ptr[p]
  BY <1>6, <1>9, FiledAt
<1> QED BY <1>9, <1>10 DEF k

-----------------------------------------------------------------------------
(* What a query finds at one node *)

\* The keys or prefixes at a node that are within the bounds, in order.
MatchKeys(node, prefix, lo, hi) ==
    LET js == Matching(node, prefix, lo, hi)
    IN  [m \in DOMAIN js |-> prefix * TriePerNode + OnePositions(node.bitmap)[js[m]]]

Matched(node, prefix, lo, hi, pos, js, key) ==
    /\ js \in Seq(Nat) /\ IsAscending(js) /\ key \in Seq(Nat) /\ IsAscending(key)
    /\ Len(key) = Len(js) /\ node.elemCount \in Nat
    /\ \A m \in 1 .. Len(js) :
         /\ js[m] \in 1 .. node.elemCount /\ key[m] = prefix * TriePerNode + pos[js[m]]
         /\ pos[js[m]] \in DOMAIN node.ptr /\ Within(key[m], lo, hi)
    /\ \A j \in 1 .. node.elemCount : Within(prefix * TriePerNode + pos[j], lo, hi) =>
         \E m \in 1 .. Len(js) : js[m] = j
    /\ \A p \in DOMAIN node.ptr : Within(prefix * TriePerNode + p, lo, hi) =>
         \E m \in 1 .. Len(js) : pos[js[m]] = p /\ key[m] = prefix * TriePerNode + p

\* What Matching lists, and no other.
LEMMA MatchingAre ==
    ASSUME NEW node, NodeOK(node), NEW prefix \in Nat, NEW lo, NEW hi
    PROVE  Matched(node, prefix, lo, hi, OnePositions(node.bitmap), Matching(node, prefix, lo, hi),
                   MatchKeys(node, prefix, lo, hi))
<1> DEFINE pos == OnePositions(node.bitmap)
           c == node.elemCount
           js == Matching(node, prefix, lo, hi)
           key == MatchKeys(node, prefix, lo, hi)
           base == prefix * TriePerNode
           I == {j \in DOMAIN pos : Within(base + pos[j], lo, hi)}
<1>1. /\ pos \in Seq(DOMAIN node.ptr) /\ Len(pos) = c /\ c \in Nat
      /\ \A j, k \in 1 .. c : j < k => pos[j] < pos[k]
      /\ \A p \in DOMAIN node.ptr : \E j \in 1 .. c : pos[j] = p
  <2>1. /\ node.bitmap \in Seq({0, 1}) /\ Ones(node.bitmap) = DOMAIN node.ptr
        /\ c = Cardinality(DOMAIN node.ptr) /\ c \in Nat
    BY DEF NodeOK, TrieNode
  <2> HIDE DEF pos, c
  <2> QED BY <2>1, OnePositionsAre DEF pos
<1>2. DOMAIN node.ptr \subseteq Nat /\ base \in Nat
  <2>1. DOMAIN node.ptr \in SUBSET Positions /\ TriePerNode \in Nat
    BY TriePerNodeAssumption DEF NodeOK, TrieNode
  <2> QED BY <2>1 DEF Positions
<1>3. js = Selected(c, I)
  BY <1>1 DEF Matching
<1>4. key = [m \in DOMAIN js |-> base + pos[js[m]]]
  BY DEF MatchKeys
<1> HIDE DEF pos, c, js, key, base
<1>5. DOMAIN pos = 1 .. c /\ \A j \in 1 .. c : pos[j] \in DOMAIN node.ptr /\ pos[j] \in Nat
  <2>1. \A j \in 1 .. c : pos[j] \in DOMAIN node.ptr
    BY <1>1, ElementOfSeq
  <2> QED BY <1>1, <1>2, <2>1
<1>6. /\ js \in Seq(Nat) /\ IsAscending(js)
      /\ \A m \in 1 .. Len(js) : js[m] \in 1 .. c /\ js[m] \in I
      /\ \A j \in 1 .. c : j \in I => \E m \in 1 .. Len(js) : js[m] = j
  <2> HIDE DEF I
  <2>1. /\ Selected(c, I) \in Seq(Nat) /\ IsAscending(Selected(c, I))
        /\ \A j \in 1 .. Len(Selected(c, I)) : Selected(c, I)[j] \in 1 .. c /\ Selected(c, I)[j] \in I
        /\ \A p \in 1 .. c : p \in I => \E j \in 1 .. Len(Selected(c, I)) : Selected(c, I)[j] = p
    BY <1>1, SelectedAre
  <2> QED BY <1>3, <2>1, Zenon
<1>7. DOMAIN js = 1 .. Len(js) /\ Len(js) \in Nat
  BY <1>6
<1>8. ASSUME NEW m \in 1 .. Len(js)
      PROVE  /\ js[m] \in 1 .. c /\ key[m] = base + pos[js[m]] /\ key[m] \in Nat
             /\ pos[js[m]] \in DOMAIN node.ptr /\ Within(key[m], lo, hi)
  <2>1. js[m] \in 1 .. c /\ Within(base + pos[js[m]], lo, hi)
    BY <1>6
  <2>2. key[m] = base + pos[js[m]]
    BY <1>4, <1>7
  <2>3. pos[js[m]] \in DOMAIN node.ptr /\ pos[js[m]] \in Nat
    BY <1>5, <2>1
  <2> QED BY <1>2, <2>1, <2>2, <2>3
<1>9. key \in Seq(Nat) /\ Len(key) = Len(js)
  <2> DEFINE F(m) == base + pos[js[m]]
             n == Len(js)
  <2>1. key = [m \in 1 .. n |-> F(m)] /\ n \in Nat
    BY <1>4, <1>7
  <2>2. \A m \in 1 .. n : F(m) \in Nat
    BY <1>8
  <2> HIDE DEF F, n
  <2>3. key \in Seq(Nat) /\ Len(key) = n
    BY <2>1, <2>2
  <2> QED BY <2>3 DEF n
<1>10. IsAscending(key)
  <2>1. ASSUME NEW m \in 1 .. Len(key), NEW n \in 1 .. Len(key), m < n PROVE key[m] < key[n]
    <3>1. js[m] < js[n]
      BY <1>6, <1>9, <2>1 DEF IsAscending
    <3>2. /\ js[m] \in 1 .. c /\ js[n] \in 1 .. c /\ key[m] = base + pos[js[m]]
          /\ key[n] = base + pos[js[n]]
      BY <1>8, <1>9
    <3>3. pos[js[m]] < pos[js[n]] /\ pos[js[m]] \in Nat /\ pos[js[n]] \in Nat
      BY <1>1, <1>5, <3>1, <3>2
    <3> QED BY <1>2, <3>2, <3>3
  <2> QED BY <2>1 DEF IsAscending
<1>11. \A j \in 1 .. c : Within(base + pos[j], lo, hi) => \E m \in 1 .. Len(js) : js[m] = j
  BY <1>5, <1>6
<1>12. ASSUME NEW p \in DOMAIN node.ptr, Within(base + p, lo, hi)
       PROVE  \E m \in 1 .. Len(js) : pos[js[m]] = p /\ key[m] = base + p
  <2>1. PICK j \in 1 .. c : pos[j] = p
    BY <1>1
  <2>2. PICK m \in 1 .. Len(js) : js[m] = j
    BY <1>11, <1>12, <2>1
  <2>3. pos[js[m]] = p /\ key[m] = base + p
    BY <1>8, <2>1, <2>2
  <2> QED BY <2>3
<1>13. Matched(node, prefix, lo, hi, pos, js, key)
  BY <1>1, <1>6, <1>8, <1>9, <1>10, <1>11, <1>12 DEF Matched, c, base
<1> QED BY <1>13 DEF pos, js, key

\* Within an ascending list that has no gaps each element is its neighbour's successor.
LEMMA Consecutive ==
    ASSUME NEW js \in Seq(Nat), IsAscending(js), Len(js) > 0,
           \A a, b \in 1 .. Len(js) : \A j \in Nat :
             js[a] <= j /\ j <= js[b] => \E m \in 1 .. Len(js) : js[m] = j
    PROVE  \A m \in 1 .. Len(js) : js[m] = js[1] + m - 1
<1> DEFINE n == Len(js)
           S == {m \in 0 .. n - 1 : js[m + 1] = js[1] + m}
<1>1. n \in Nat /\ n > 0 /\ n - 1 \in Nat /\ \A m \in 1 .. n : js[m] \in Nat
  OBVIOUS
<1>2. \A i, j \in 1 .. n : i < j => js[i] < js[j]
  BY DEF IsAscending
<1>3. \A a, b \in 1 .. n : \A j \in Nat : js[a] <= j /\ j <= js[b] => \E m \in 1 .. n : js[m] = j
  OBVIOUS
<1> HIDE DEF n
<1>4. 0 \in S
  <2>1. 1 \in 1 .. n
    BY <1>1
  <2> QED BY <1>1, <2>1
<1>5. ASSUME NEW m \in 0 .. (n - 1) - 1, m \in S PROVE m + 1 \in S
  <2>1. m + 1 \in 1 .. n /\ m + 2 \in 1 .. n /\ m + 1 + 1 = m + 2 /\ m \in Nat /\ 1 \in 1 .. n
    BY <1>1
  <2>2. js[m + 1] = js[1] + m
    BY <1>5
  <2>3. js[m + 1] \in Nat /\ js[m + 2] \in Nat /\ js[1] \in Nat /\ js[m + 1] < js[m + 2]
    BY <1>1, <1>2, <2>1
  <2> DEFINE j == js[m + 1] + 1
  <2>4. j \in Nat /\ js[m + 1] <= j /\ j <= js[m + 2]
    BY <2>3
  <2>a. \A x \in Nat : js[m + 1] <= x /\ x <= js[m + 2] => \E q \in 1 .. n : js[q] = x
    BY <1>3, <2>1
  <2> HIDE DEF j
  <2>5. PICK q \in 1 .. n : js[q] = j
    BY <2>4, <2>a
  <2> USE DEF j
  <2>6. ~(q <= m + 1)
    <3>1. CASE q = m + 1
      BY <2>3, <2>5, <3>1
    <3>2. CASE q < m + 1
      <4>1. js[q] < js[m + 1]
        BY <1>2, <2>1, <3>2
      <4> QED BY <2>3, <2>5, <4>1
    <3> QED BY <2>1, <3>1, <3>2
  <2>7. ~(m + 2 < q)
    <3>1. ASSUME m + 2 < q PROVE FALSE
      <4>1. js[m + 2] < js[q]
        BY <1>2, <2>1, <3>1
      <4> QED BY <2>3, <2>4, <2>5, <4>1
    <3> QED BY <3>1
  <2>8. q = m + 2
    BY <2>1, <2>6, <2>7
  <2>9. js[m + 2] = js[1] + (m + 1)
    BY <2>1, <2>2, <2>3, <2>5, <2>8
  <2> QED BY <1>1, <2>1, <2>9
<1> HIDE DEF S
<1>6. 0 .. n - 1 \subseteq S
  BY <1>1, <1>4, <1>5, InductionUpTo
<1>7. ASSUME NEW m \in 1 .. n PROVE js[m] = js[1] + m - 1
  <2>1. m - 1 \in 0 .. n - 1 /\ m - 1 + 1 = m /\ 1 \in 1 .. n
    BY <1>1
  <2>2. js[m - 1 + 1] = js[1] + (m - 1)
    BY <1>6, <2>1 DEF S
  <2> QED BY <1>1, <2>1, <2>2
<1> QED BY <1>7 DEF n

-----------------------------------------------------------------------------
(* The nodes of a saved trie whose nodes are numbered in the order of the file *)

Ordered(t) == \A j \in 1 .. Len(t.node) : OrderOf(t)[j] = j

\* Where a node is, and the element of a query's queue that stands for it.
At(t, n) == Starts(TrieParts(t))[n - 1]
Entry(t, pf, n) == [at |-> At(t, n), prefix |-> pf[n]]

LEMMA NodeIsAt ==
    ASSUME NEW t, NEW lv, NEW pf, TrieOK(t, lv, pf), Ordered(t), NEW n \in 1 .. Len(t.node)
    PROVE  /\ Len(TrieWrite(t)) \in Nat /\ At(t, n) \in Nat /\ At(t, 1) = 0
           /\ Holds(TrieWrite(t), At(t, n), TrieFields(t.node[n], OffsetsOf(t, n)))
           /\ OffsetsOK(t.node[n], OffsetsOf(t, n))
<1> DEFINE parts == TrieParts(t)
           N == Len(t.node)
           data == TrieWrite(t)
           s == Starts(parts)
<1>1. /\ parts \in Seq(Seq(Nat)) /\ Len(parts) = N
      /\ parts[n] = TrieFields(t.node[OrderOf(t)[n]], OffsetsOf(t, n))
      /\ OffsetsOK(t.node[OrderOf(t)[n]], OffsetsOf(t, n))
  BY TriePartsAre
<1>2. OrderOf(t)[n] = n
  BY DEF Ordered
<1>3. data = Joined(parts)
  BY TrieWriteIs
<1>4. N \in Nat
  BY DueIs
<1> HIDE DEF parts, N, data
<1>5. Joined(parts) \in Seq(Nat) /\ Len(Joined(parts)) \in Nat
  <2>1. Joined(parts) \in Seq(Nat)
    BY <1>1, JoinedAt
  <2> QED BY <2>1
<1>6. /\ s \in [0 .. Len(parts) -> Nat] /\ s[0] = 0
  BY <1>1, StartsStep
<1>7. Holds(data, 0, Joined(parts))
  BY <1>3, <1>5 DEF Holds
<1>8. n \in 1 .. Len(parts)
  BY <1>1 DEF N
<1>9. Holds(data, 0 + Starts(parts)[n - 1], parts[n])
  BY <1>1, <1>3, <1>5, <1>7, <1>8, HoldsJoined
<1>10. n - 1 \in 0 .. Len(parts) /\ 1 - 1 = 0
  BY <1>1, <1>4, <1>8
<1>11. s[n - 1] \in Nat /\ 0 + s[n - 1] = s[n - 1]
  BY <1>6, <1>10
<1>12. At(t, n) = s[n - 1] /\ At(t, 1) = s[1 - 1]
  BY DEF At, parts
<1>13. Holds(data, s[n - 1], parts[n])
  BY <1>9, <1>11
<1>14. At(t, n) \in Nat /\ At(t, 1) = 0 /\ Holds(data, At(t, n), parts[n])
  BY <1>6, <1>10, <1>11, <1>12, <1>13
<1> QED BY <1>1, <1>2, <1>3, <1>5, <1>14 DEF data

\* An inner node says where its children are.
LEMMA InnerRead ==
    ASSUME NEW t, NEW lv, NEW pf, TrieOK(t, lv, pf), Ordered(t),
           NEW n \in 1 .. Len(t.node), lv[n] # Depth - 1
    PROVE  LET read == ReadNode(TrieWrite(t), At(t, n))
               pos == OnePositions(t.node[n].bitmap)
           IN  /\ read.bitmap = t.node[n].bitmap
               /\ \A j \in 1 .. t.node[n].elemCount : read.fileOffArray[j] = At(t, t.node[n].ptr[pos[j]])
<1> DEFINE node == t.node[n]
           offs == OffsetsOf(t, n)
           pos == OnePositions(node.bitmap)
           kids == TrieChildren(t)[n]
           due == DueOf(t)[n - 1]
           data == TrieWrite(t)
           N == Len(t.node)
<1>1. NodeOK(node) /\ ~node.isLeaf
  BY DEF TrieOK, NodesOK
<1>2. OrderOf(t)[n] = n /\ \A j \in 1 .. N : OrderOf(t)[j] = j
  BY DEF Ordered
<1>3. Len(data) \in Nat /\ At(t, n) \in Nat /\ Holds(data, At(t, n), TrieFields(node, offs)) /\ OffsetsOK(node, offs)
  BY NodeIsAt
<1>4. /\ N \in Nat /\ due \in Nat
      /\ \A k \in 1 .. Len(kids) : due + k \in 1 .. N /\ OrderOf(t)[due + k] = kids[k]
  <2>1. N \in Nat /\ DueOf(t) \in [0 .. N -> 1 .. N]
    BY DueIs
  <2>2. due \in Nat
    <3>1. n - 1 \in 0 .. N
      BY <2>1
    <3> QED BY <2>1, <3>1
  <2>3. \A i \in 1 .. N : \A k \in 1 .. Len(TrieChildren(t)[OrderOf(t)[i]]) :
          /\ DueOf(t)[i - 1] + k \in 1 .. N
          /\ OrderOf(t)[DueOf(t)[i - 1] + k] = TrieChildren(t)[OrderOf(t)[i]][k]
    BY DueIs, Zenon
  <2>4. \A k \in 1 .. Len(TrieChildren(t)[OrderOf(t)[n]]) :
          /\ DueOf(t)[n - 1] + k \in 1 .. N
          /\ OrderOf(t)[DueOf(t)[n - 1] + k] = TrieChildren(t)[OrderOf(t)[n]][k]
    BY <2>3, Zenon
  <2> QED BY <1>2, <2>1, <2>2, <2>4
<1>5. kids = Targets(node) /\ Len(kids) = node.elemCount /\ DOMAIN kids = 1 .. node.elemCount
  <2>1. ChildrenOf(t, TrieChildren(t))
    BY ChildrenAre
  <2>2. kids \in Seq(1 .. N) /\ kids = Targets(node) /\ Len(kids) = node.elemCount
    BY <1>1, <2>1 DEF ChildrenOf
  <2> QED BY <2>2
<1>6. /\ Len(pos) = node.elemCount /\ node.elemCount \in Nat
      /\ Targets(node) = [i \in 1 .. node.elemCount |-> node.ptr[pos[i]]]
  BY <1>1, TargetsAre
<1>7. offs = [j \in DOMAIN kids |-> Sums(SizesOf(t))[due + j - 1]]
  BY <1>2 DEF OffsetsOf
<1>8. Starts(TrieParts(t)) = Sums(SizesOf(t))
  <2>1. /\ TrieParts(t) \in Seq(Seq(Nat)) /\ Len(TrieParts(t)) = N
        /\ \A i \in 1 .. N : Len(TrieParts(t)[i]) = TrieNodeSize(t.node[OrderOf(t)[i]])
    BY TriePartsAre
  <2>2. DOMAIN TrieParts(t) = 1 .. N
    BY <2>1
  <2>3. Lengths(TrieParts(t)) = SizesOf(t)
    BY <2>1, <2>2 DEF Lengths, SizesOf
  <2> QED BY <2>3 DEF Starts
<1>9. ReadNode(data, At(t, n)).bitmap = node.bitmap /\ ReadNode(data, At(t, n)).fileOffArray = offs
  <2>1. offs \in Seq(Nat) /\ Len(offs) = node.elemCount /\ Holds(data, At(t, n), Header(node, offs))
    BY <1>1, <1>3 DEF OffsetsOK, TrieFields
  <2> HIDE DEF offs, node, data
  <2>2. ReadNode(data, At(t, n)) =
             [isLeaf |-> node.isLeaf, elemCount |-> node.elemCount, bitmap |-> node.bitmap,
              fileOffArray |-> offs, end |-> At(t, n) + HeaderSize(node)]
    BY <1>1, <1>3, <2>1, HeaderRead
  <2> QED BY <2>2
<1> HIDE DEF node, offs, pos, kids, due, data
<1>10. ASSUME NEW j \in 1 .. node.elemCount PROVE offs[j] = At(t, node.ptr[pos[j]])
  <2>1. due + j \in 1 .. N /\ OrderOf(t)[due + j] = kids[j]
    BY <1>4, <1>5
  <2>2. kids[j] = node.ptr[pos[j]]
    BY <1>5, <1>6
  <2>3. node.ptr[pos[j]] = due + j
    BY <1>2, <2>1, <2>2
  <2>4. offs[j] = Sums(SizesOf(t))[due + j - 1]
    BY <1>5, <1>7
  <2>5. \A a, b : a = b => At(t, a) = Starts(TrieParts(t))[b - 1]
    BY Zenon DEF At
  <2>6. At(t, node.ptr[pos[j]]) = Starts(TrieParts(t))[(due + j) - 1]
    BY <2>3, <2>5, Zenon
  <2>7. (due + j) - 1 = due + j - 1
    BY <1>4, <1>6
  <2> QED BY <1>8, <2>4, <2>6, <2>7, Zenon
<1> QED BY <1>9, <1>10 DEF node, pos, data

\* The lists of a leaf lie where its offsets say, one behind the other.
LEMMA LeafRead ==
    ASSUME NEW t, NEW lv, NEW pf, TrieOK(t, lv, pf), Ordered(t),
           NEW n \in 1 .. Len(t.node), lv[n] = Depth - 1
    PROVE  LET read == ReadNode(TrieWrite(t), At(t, n))
               lists == Targets(t.node[n])
           IN  /\ read.bitmap = t.node[n].bitmap
               /\ lists \in Seq(Seq(Nat)) /\ Len(lists) = t.node[n].elemCount
               /\ \A first \in 1 .. Len(lists) : \A m \in 0 .. Len(lists) - (first - 1) :
                    ReadLists(TrieWrite(t), read.end + read.fileOffArray[first], m).lists
                      = Piece(lists, first - 1, m)
<1> DEFINE node == t.node[n]
           lists == Targets(node)
           c == node.elemCount
           data == TrieWrite(t)
           at == At(t, n)
           offs == ListOffsets(lists)
           header == Header(node, offs)
           parts == ListParts(lists)
           end == at + HeaderSize(node)
<1>1. NodeOK(node) /\ node.isLeaf /\ HoldsLists(node)
  BY DEF TrieOK, NodesOK, HoldsLists
<1>2. Len(data) \in Nat /\ at \in Nat /\ Holds(data, at, TrieFields(node, OffsetsOf(t, n)))
  BY NodeIsAt
<1>3. Holds(data, at, TrieLeafFields(node))
  BY <1>1, <1>2 DEF TrieFields
<1> HIDE DEF node, data, at
<1>4. /\ lists \in Seq(Seq(Nat)) /\ Len(lists) = c /\ c \in Nat
      /\ offs \in Seq(Nat) /\ Len(offs) = c
      /\ \A i \in 1 .. c : offs[i] = ListSizes(lists)[i - 1]
  BY <1>1, LeafListsAre, TargetsAre
<1>5. /\ TrieLeafFields(node) = header \o Joined(parts)
      /\ header \in Seq(Nat) /\ Joined(parts) \in Seq(Nat)
  BY <1>1, LeafFieldsAre
<1>6. Len(header) = HeaderSize(node) /\ HeaderSize(node) \in Nat
  BY <1>1, <1>4, HeaderIs
<1> HIDE DEF lists, offs, header, c
<1>7. Holds(data, at, header) /\ Holds(data, end, Joined(parts))
  BY <1>2, <1>3, <1>5, <1>6, HoldsConcat
<1>8. ReadNode(data, at) =
             [isLeaf |-> node.isLeaf, elemCount |-> c, bitmap |-> node.bitmap,
              fileOffArray |-> offs, end |-> end]
  BY <1>1, <1>2, <1>4, <1>7, HeaderRead DEF header, c
<1>9. parts \in Seq(Seq(Nat)) /\ Len(parts) = Len(lists) /\ ListSizes(lists) = Starts(parts)
      /\ \A h \in 1 .. Len(lists) : parts[h] = ListFields(lists[h])
  <2>1. parts \in Seq(Seq(Nat)) /\ Len(parts) = Len(lists) /\ ListSizes(lists) = Starts(parts)
    BY <1>4, ListSizesAre
  <2>2. \A h \in 1 .. Len(lists) : parts[h] = ListFields(lists[h])
    BY <1>4 DEF ListParts
  <2> QED BY <2>1, <2>2
<1>10. end \in Nat
  BY <1>2, <1>6
<1> HIDE DEF parts, end
<1>11. \A h \in 1 .. Len(parts) : Holds(data, end + Starts(parts)[h - 1], parts[h])
  BY <1>2, <1>7, <1>9, HoldsJoined
<1>12. \A h \in 1 .. Len(lists) : Holds(data, end + ListSizes(lists)[h - 1], ListFields(lists[h]))
  BY <1>9, <1>11
<1>13. ASSUME NEW first \in 1 .. Len(lists), NEW m \in 0 .. Len(lists) - (first - 1)
       PROVE  ReadLists(data, end + offs[first], m).lists = Piece(lists, first - 1, m)
  <2>1. first - 1 \in 0 .. Len(lists)
    BY <1>4
  <2>2. ReadLists(data, end + ListSizes(lists)[first - 1], m) =
          [at |-> end + ListSizes(lists)[first - 1 + m], lists |-> Piece(lists, first - 1, m)]
    BY <1>2, <1>4, <1>10, <1>12, <2>1, ReadListsAt
  <2>3. offs[first] = ListSizes(lists)[first - 1]
    BY <1>4
  <2> QED BY <2>2, <2>3
<1>14. ReadNode(data, at).bitmap = node.bitmap /\ ReadNode(data, at).end = end
       /\ ReadNode(data, at).fileOffArray = offs
  BY <1>8
<1>15. /\ ReadNode(data, at).bitmap = node.bitmap
       /\ lists \in Seq(Seq(Nat)) /\ Len(lists) = c
       /\ \A first \in 1 .. Len(lists) : \A m \in 0 .. Len(lists) - (first - 1) :
            ReadLists(data, ReadNode(data, at).end + ReadNode(data, at).fileOffArray[first], m).lists
              = Piece(lists, first - 1, m)
  BY <1>4, <1>13, <1>14
<1> QED BY <1>15 DEF node, lists, c, data, at

\* A query's finds at one node: under each key within the bounds, in order, what the
\* node has there (a child for an inner node, a list for a leaf).
IsPart(node, prefix, lo, hi, what, part) ==
    LET key == MatchKeys(node, prefix, lo, hi)
    IN  /\ key \in Seq(Nat) /\ IsAscending(key) /\ Len(part) = Len(key)
        /\ \A m \in 1 .. Len(key) :
             /\ Within(key[m], lo, hi)
             /\ \E p \in DOMAIN node.ptr : key[m] = prefix * TriePerNode + p /\ part[m] = what[p]
        /\ \A p \in DOMAIN node.ptr : Within(prefix * TriePerNode + p, lo, hi) =>
             \E m \in 1 .. Len(key) : key[m] = prefix * TriePerNode + p /\ part[m] = what[p]


\* From the places that match to the finds there.
LEMMA PartOf ==
    ASSUME NEW node, NodeOK(node), NEW prefix \in Nat, NEW lo, NEW hi, NEW what, NEW part,
           Len(part) = Len(Matching(node, prefix, lo, hi)),
           \A m \in 1 .. Len(Matching(node, prefix, lo, hi)) :
             part[m] = what[OnePositions(node.bitmap)[Matching(node, prefix, lo, hi)[m]]]
    PROVE  IsPart(node, prefix, lo, hi, what, part)
<1> DEFINE pos == OnePositions(node.bitmap)
           js == Matching(node, prefix, lo, hi)
           key == MatchKeys(node, prefix, lo, hi)
<1>1. Matched(node, prefix, lo, hi, pos, js, key)
  BY MatchingAre
<1>2. Len(part) = Len(js) /\ \A m \in 1 .. Len(js) : part[m] = what[pos[js[m]]]
  OBVIOUS
<1> HIDE DEF pos, js, key
<1>3. ASSUME NEW m \in 1 .. Len(js)
      PROVE  /\ Within(key[m], lo, hi)
             /\ \E p \in DOMAIN node.ptr : key[m] = prefix * TriePerNode + p /\ part[m] = what[p]
  <2>1. key[m] = prefix * TriePerNode + pos[js[m]] /\ pos[js[m]] \in DOMAIN node.ptr
        /\ Within(key[m], lo, hi) /\ part[m] = what[pos[js[m]]]
    BY <1>1, <1>2 DEF Matched
  <2> QED BY <2>1
<1>4. ASSUME NEW p \in DOMAIN node.ptr, Within(prefix * TriePerNode + p, lo, hi)
      PROVE  \E m \in 1 .. Len(js) : key[m] = prefix * TriePerNode + p /\ part[m] = what[p]
  <2>1. PICK m \in 1 .. Len(js) : pos[js[m]] = p /\ key[m] = prefix * TriePerNode + p
    BY <1>1, <1>4 DEF Matched
  <2> QED BY <1>2, <2>1
<1>5. key \in Seq(Nat) /\ IsAscending(key) /\ Len(key) = Len(js)
  BY <1>1 DEF Matched
<1> QED BY <1>2, <1>3, <1>4, <1>5 DEF IsPart, key

\* One element of NextLevel, and what a child stands for there.
ChildEntries(t, pf, n) == [p \in DOMAIN t.node[n].ptr |-> Entry(t, pf, t.node[n].ptr[p])]
NextPart(data, entry, lo, hi) ==
    LET node == ReadNode(data, entry.at)
        pos == OnePositions(node.bitmap)
        js == Matching(node, entry.prefix, lo, hi)
    IN  [m \in DOMAIN js |-> [at |-> node.fileOffArray[js[m]],
                              prefix |-> entry.prefix * TriePerNode + pos[js[m]]]]

\* Matching only looks at the bitmap.
LEMMA MatchingSame ==
    ASSUME NEW a, NEW b, a.bitmap = b.bitmap, NEW prefix, NEW lo, NEW hi
    PROVE  Matching(a, prefix, lo, hi) = Matching(b, prefix, lo, hi)
BY DEF Matching

Queued == [at : Nat, prefix : Nat]

\* A query goes from an inner node to its children whose prefix is within the bounds.
LEMMA InnerPart ==
    ASSUME NEW t, NEW lv, NEW pf, TrieOK(t, lv, pf), Ordered(t),
           NEW n \in 1 .. Len(t.node), lv[n] # Depth - 1, NEW lo, NEW hi
    PROVE  /\ NextPart(TrieWrite(t), Entry(t, pf, n), lo, hi) \in Seq(Queued)
           /\ IsPart(t.node[n], pf[n], lo, hi, ChildEntries(t, pf, n),
                     NextPart(TrieWrite(t), Entry(t, pf, n), lo, hi))
<1> DEFINE node == t.node[n]
           read == ReadNode(TrieWrite(t), At(t, n))
           pos == OnePositions(node.bitmap)
           js == Matching(node, pf[n], lo, hi)
           part == NextPart(TrieWrite(t), Entry(t, pf, n), lo, hi)
<1>1. /\ NodeOK(node) /\ pf[n] \in Nat
      /\ \A p \in DOMAIN node.ptr : /\ node.ptr[p] \in 1 .. Len(t.node)
                                    /\ pf[node.ptr[p]] = pf[n] * TriePerNode + p
                                    /\ pf[node.ptr[p]] \in Nat
  <2>1. /\ NodeOK(node) /\ pf \in [1 .. Len(t.node) -> Nat]
        /\ \A p \in DOMAIN node.ptr : /\ node.ptr[p] \in 1 .. Len(t.node)
                                      /\ pf[node.ptr[p]] = pf[n] * TriePerNode + p
    BY DEF TrieOK, NodesOK
  <2> HIDE DEF node
  <2> QED BY <2>1
<1>2. /\ read.bitmap = node.bitmap
      /\ \A j \in 1 .. node.elemCount : read.fileOffArray[j] = At(t, node.ptr[pos[j]])
  <2>1. LET r == ReadNode(TrieWrite(t), At(t, n))
            q == OnePositions(t.node[n].bitmap)
        IN  /\ r.bitmap = t.node[n].bitmap
            /\ \A j \in 1 .. t.node[n].elemCount : r.fileOffArray[j] = At(t, t.node[n].ptr[q[j]])
    BY InnerRead
  <2> QED BY <2>1
<1>3. /\ js \in Seq(Nat)
      /\ \A m \in 1 .. Len(js) : js[m] \in 1 .. node.elemCount /\ pos[js[m]] \in DOMAIN node.ptr
  <2> DEFINE key == MatchKeys(node, pf[n], lo, hi)
  <2>1. Matched(node, pf[n], lo, hi, pos, js, key)
    BY <1>1, MatchingAre
  <2> HIDE DEF node, pos, js, key
  <2> QED BY <2>1 DEF Matched
<1>4. Matching(read, pf[n], lo, hi) = js
  BY <1>2, MatchingSame
<1>5. part = [m \in DOMAIN js |-> [at |-> read.fileOffArray[js[m]],
                                   prefix |-> pf[n] * TriePerNode + pos[js[m]]]]
  <2>1. Entry(t, pf, n).at = At(t, n) /\ Entry(t, pf, n).prefix = pf[n]
    BY DEF Entry
  <2> QED BY <1>2, <1>4, <2>1 DEF NextPart
<1>6. \A p \in DOMAIN node.ptr : At(t, node.ptr[p]) \in Nat
  BY <1>1, NodeIsAt
<1> HIDE DEF node, read, pos, js, part
<1>7. DOMAIN js = 1 .. Len(js) /\ Len(js) \in Nat
  BY <1>3
<1>8. ASSUME NEW m \in 1 .. Len(js)
      PROVE  part[m] = ChildEntries(t, pf, n)[pos[js[m]]] /\ part[m] \in Queued
  <2> DEFINE p == pos[js[m]]
  <2>1. p \in DOMAIN node.ptr /\ js[m] \in 1 .. node.elemCount
    BY <1>3
  <2>2. part[m] = [at |-> read.fileOffArray[js[m]], prefix |-> pf[n] * TriePerNode + p]
    BY <1>5, <1>7
  <2>3. read.fileOffArray[js[m]] = At(t, node.ptr[p])
    BY <1>2, <2>1
  <2> HIDE DEF p
  <2>4. pf[n] * TriePerNode + p = pf[node.ptr[p]] /\ pf[node.ptr[p]] \in Nat
    BY <1>1, <2>1
  <2>5. part[m] = [at |-> At(t, node.ptr[p]), prefix |-> pf[node.ptr[p]]]
    BY <2>2, <2>3, <2>4
  <2>6. ChildEntries(t, pf, n)[p] = [at |-> At(t, node.ptr[p]), prefix |-> pf[node.ptr[p]]]
    BY <2>1 DEF ChildEntries, Entry, node
  <2>7. part[m] \in Queued
    BY <1>6, <2>1, <2>4, <2>5 DEF Queued
  <2> QED BY <2>5, <2>6, <2>7 DEF p
<1>9. part \in Seq(Queued) /\ Len(part) = Len(js)
  <2> DEFINE F(m) == [at |-> read.fileOffArray[js[m]], prefix |-> pf[n] * TriePerNode + pos[js[m]]]
             c == Len(js)
  <2>1. part = [m \in 1 .. c |-> F(m)] /\ c \in Nat
    BY <1>5, <1>7
  <2> HIDE DEF F
  <2>2. \A m \in 1 .. c : F(m) \in Queued
    BY <1>8, <2>1
  <2>3. part \in Seq(Queued) /\ Len(part) = c
    <3> HIDE DEF c
    <3> QED BY <2>1, <2>2
  <2> QED BY <2>3
<1>10. IsPart(node, pf[n], lo, hi, ChildEntries(t, pf, n), part)
  <2>1. /\ Len(part) = Len(Matching(node, pf[n], lo, hi))
        /\ \A m \in 1 .. Len(Matching(node, pf[n], lo, hi)) :
             part[m] = ChildEntries(t, pf, n)[OnePositions(node.bitmap)[Matching(node, pf[n], lo, hi)[m]]]
    BY <1>8, <1>9 DEF js, pos
  <2> QED BY <1>1, <2>1, PartOf
<1> QED BY <1>9, <1>10 DEF node, part

\* A query finds in a leaf the lists under the keys within the bounds.
LEMMA LeafPart ==
    ASSUME NEW t, NEW lv, NEW pf, TrieOK(t, lv, pf), Ordered(t),
           NEW n \in 1 .. Len(t.node), lv[n] = Depth - 1, NEW lo \in Nat, NEW hi \in Nat
    PROVE  /\ LeafMatches(TrieWrite(t), Entry(t, pf, n), lo, hi) \in Seq(Seq(Nat))
           /\ IsPart(t.node[n], pf[n], lo, hi, t.node[n].ptr,
                     LeafMatches(TrieWrite(t), Entry(t, pf, n), lo, hi))
<1> DEFINE node == t.node[n]
           data == TrieWrite(t)
           read == ReadNode(data, At(t, n))
           pos == OnePositions(node.bitmap)
           lists == Targets(node)
           js == Matching(node, pf[n], lo, hi)
           part == LeafMatches(data, Entry(t, pf, n), lo, hi)
<1>1. NodeOK(node) /\ pf[n] \in Nat
  BY DEF TrieOK, NodesOK
<1>2. /\ read.bitmap = node.bitmap
      /\ lists \in Seq(Seq(Nat)) /\ Len(lists) = node.elemCount
      /\ \A first \in 1 .. Len(lists) : \A m \in 0 .. Len(lists) - (first - 1) :
           ReadLists(data, read.end + read.fileOffArray[first], m).lists = Piece(lists, first - 1, m)
  <2>1. LET r == ReadNode(TrieWrite(t), At(t, n))
            l == Targets(t.node[n])
        IN  /\ r.bitmap = t.node[n].bitmap
            /\ l \in Seq(Seq(Nat)) /\ Len(l) = t.node[n].elemCount
            /\ \A first \in 1 .. Len(l) : \A m \in 0 .. Len(l) - (first - 1) :
                 ReadLists(TrieWrite(t), r.end + r.fileOffArray[first], m).lists
                   = Piece(l, first - 1, m)
    BY LeafRead
  <2> QED BY <2>1
<1>3. /\ pos \in Seq(DOMAIN node.ptr) /\ Len(pos) = node.elemCount /\ node.elemCount \in Nat
      /\ lists = [i \in 1 .. node.elemCount |-> node.ptr[pos[i]]]
  BY <1>1, TargetsAre
<1>4. /\ js \in Seq(Nat) /\ IsAscending(js)
      /\ \A m \in 1 .. Len(js) : js[m] \in 1 .. node.elemCount /\ pos[js[m]] \in DOMAIN node.ptr
           /\ Within(pf[n] * TriePerNode + pos[js[m]], lo, hi)
      /\ \A j \in 1 .. node.elemCount : Within(pf[n] * TriePerNode + pos[j], lo, hi) =>
           \E m \in 1 .. Len(js) : js[m] = j
  <2> DEFINE key == MatchKeys(node, pf[n], lo, hi)
  <2>1. Matched(node, pf[n], lo, hi, pos, js, key)
    BY <1>1, MatchingAre
  <2> HIDE DEF node, pos, js, key
  <2>2. ASSUME NEW m \in 1 .. Len(js)
        PROVE  /\ js[m] \in 1 .. node.elemCount /\ pos[js[m]] \in DOMAIN node.ptr
               /\ Within(pf[n] * TriePerNode + pos[js[m]], lo, hi)
    BY <2>1 DEF Matched
  <2> QED BY <2>1, <2>2 DEF Matched
<1>5. \A i, j \in 1 .. node.elemCount : i < j => pos[i] < pos[j]
  <2>1. node.bitmap \in Seq({0, 1})
    BY <1>1 DEF NodeOK, TrieNode
  <2> QED BY <1>3, <2>1, OnePositionsAre
<1>6. \A j \in 1 .. node.elemCount : pos[j] \in Nat
  <2>1. DOMAIN node.ptr \in SUBSET Positions
    BY <1>1 DEF NodeOK, TrieNode
  <2>2. \A p \in DOMAIN node.ptr : p \in Nat
    BY <2>1 DEF Positions
  <2>3. \A j \in 1 .. node.elemCount : pos[j] \in DOMAIN node.ptr
    BY <1>3, ElementOfSeq
  <2> QED BY <2>2, <2>3
<1>7. part = IF js = <<>> THEN <<>> ELSE ReadLists(data, read.end + read.fileOffArray[js[1]], Len(js)).lists
  <2>1. Entry(t, pf, n).at = At(t, n) /\ Entry(t, pf, n).prefix = pf[n]
    BY DEF Entry
  <2>2. Matching(read, pf[n], lo, hi) = js
    <3> HIDE DEF read, node
    <3> QED BY <1>2, MatchingSame
  <2> QED BY <2>1, <2>2 DEF LeafMatches
<1> HIDE DEF node, data, read, pos, lists, js, part
<1>8. Len(js) \in Nat /\ (js = <<>> <=> Len(js) = 0) /\ \A m \in 1 .. Len(js) : js[m] \in Nat
  BY <1>4
<1>9. ASSUME NEW a \in 1 .. Len(js), NEW b \in 1 .. Len(js), NEW j \in Nat, js[a] <= j, j <= js[b]
      PROVE  \E m \in 1 .. Len(js) : js[m] = j
  <2> DEFINE base == pf[n] * TriePerNode
  <2>0. base \in Nat
    BY <1>1, TriePerNodeAssumption
  <2>1. js[a] \in 1 .. node.elemCount /\ js[b] \in 1 .. node.elemCount
        /\ Within(base + pos[js[a]], lo, hi) /\ Within(base + pos[js[b]], lo, hi)
    BY <1>4
  <2> HIDE DEF base
  <2>2. j \in 1 .. node.elemCount
    BY <1>3, <1>9, <2>1
  <2>3. pos[js[a]] <= pos[j]
    <3>1. CASE js[a] = j
      BY <1>6, <2>2, <3>1
    <3>2. CASE js[a] # j
      <4>1. js[a] < j
        BY <1>8, <1>9, <3>2
      <4> QED BY <1>5, <1>6, <2>1, <2>2, <4>1
    <3> QED BY <3>1, <3>2
  <2>4. pos[j] <= pos[js[b]]
    <3>1. CASE js[b] = j
      BY <1>6, <2>2, <3>1
    <3>2. CASE js[b] # j
      <4>1. j < js[b]
        BY <1>8, <1>9, <3>2
      <4> QED BY <1>5, <1>6, <2>1, <2>2, <4>1
    <3> QED BY <3>1, <3>2
  <2>5. pos[j] \in Nat /\ pos[js[a]] \in Nat /\ pos[js[b]] \in Nat
    BY <1>6, <2>1, <2>2
  <2>6. \A x, y, z \in Nat : x <= y /\ y <= z /\ Within(base + x, lo, hi) /\ Within(base + z, lo, hi)
          => Within(base + y, lo, hi)
    BY <2>0 DEF Within
  <2>7. Within(base + pos[j], lo, hi)
    BY <2>1, <2>3, <2>4, <2>5, <2>6
  <2> QED BY <1>4, <2>2, <2>7 DEF base
<1>10. /\ part \in Seq(Seq(Nat)) /\ Len(part) = Len(js)
       /\ \A m \in 1 .. Len(js) : part[m] = node.ptr[pos[js[m]]]
  <2>1. CASE Len(js) = 0
    <3>1. part = <<>>
      BY <1>7, <1>8, <2>1
    <3> QED BY <2>1, <3>1
  <2>2. CASE Len(js) # 0
    <3> DEFINE c == Len(js)
               first == js[1]
    <3>1. c \in Nat /\ c > 0 /\ 1 \in 1 .. c /\ c \in 1 .. c
      BY <1>8, <2>2
    <3>2. \A m \in 1 .. Len(js) : js[m] = js[1] + m - 1
      BY <1>4, <1>9, <3>1, Consecutive
    <3> HIDE DEF c
    <3>3. first \in 1 .. node.elemCount /\ js[c] \in 1 .. node.elemCount /\ js[c] = first + c - 1
      BY <1>4, <3>1, <3>2 DEF c
    <3> HIDE DEF first
    <3>4. first \in 1 .. Len(lists) /\ c \in 0 .. Len(lists) - (first - 1)
      BY <1>2, <1>3, <3>1, <3>3
    <3>5. ReadLists(data, read.end + read.fileOffArray[first], c).lists = Piece(lists, first - 1, c)
      BY <1>2, <3>4
    <3>6. part = Piece(lists, first - 1, c)
      BY <1>7, <1>8, <2>2, <3>5 DEF c, first
    <3>7. first - 1 \in Nat /\ Len(lists) = node.elemCount
      BY <1>2, <3>3
    <3>8. \A h \in 1 .. c : lists[first - 1 + h] \in Seq(Nat)
      <4> TAKE h \in 1 .. c
      <4>1. first - 1 + h \in 1 .. Len(lists)
        BY <1>3, <3>1, <3>3, <3>4, <3>7
      <4> QED BY <1>2, <4>1, ElementOfSeq
    <3>9. part \in Seq(Seq(Nat)) /\ Len(part) = c
      <4> DEFINE F(h) == lists[first - 1 + h]
                 S == Seq(Nat)
      <4>1. c \in Nat /\ part = [h \in 1 .. c |-> F(h)] /\ \A h \in 1 .. c : F(h) \in S
        BY <3>1, <3>6, <3>8 DEF Piece
      <4> HIDE DEF F, S
      <4>2. part \in Seq(S) /\ Len(part) = c
        BY <4>1
      <4> QED BY <4>2 DEF S
    <3>10. ASSUME NEW m \in 1 .. c PROVE part[m] = node.ptr[pos[js[m]]]
      <4>1. part[m] = lists[first - 1 + m]
        BY <3>6, <3>10 DEF Piece
      <4>2. js[m] = first + m - 1 /\ js[m] \in 1 .. node.elemCount
        BY <1>4, <3>2 DEF c, first
      <4>3. first - 1 + m = js[m]
        BY <3>1, <3>3, <4>2
      <4> QED BY <1>3, <4>1, <4>2, <4>3
    <3> QED BY <3>9, <3>10 DEF c
  <2> QED BY <2>1, <2>2
<1>11. IsPart(node, pf[n], lo, hi, node.ptr, part)
  <2>1. /\ Len(part) = Len(Matching(node, pf[n], lo, hi))
        /\ \A m \in 1 .. Len(Matching(node, pf[n], lo, hi)) :
             part[m] = node.ptr[OnePositions(node.bitmap)[Matching(node, pf[n], lo, hi)[m]]]
    BY <1>10 DEF js, pos
  <2> QED BY <1>1, <2>1, PartOf
<1> QED BY <1>10, <1>11 DEF node, part, data

-----------------------------------------------------------------------------
(* What a query finds at one level *)

\* A queue of the nodes of level i whose prefixes are within the bounds, in order.
IsLevel(t, lv, pf, i, lo, hi, queue) ==
    /\ queue \in Seq(Queued)
    /\ \A q, r \in 1 .. Len(queue) : q < r => queue[q].prefix < queue[r].prefix
    /\ \A q \in 1 .. Len(queue) : \E n \in 1 .. Len(t.node) :
         lv[n] = i /\ Within(pf[n], lo, hi) /\ queue[q] = Entry(t, pf, n)
    /\ \A n \in 1 .. Len(t.node) : lv[n] = i /\ Within(pf[n], lo, hi) =>
         \E q \in 1 .. Len(queue) : queue[q] = Entry(t, pf, n)

\* What the nodes of level i have under the keys or prefixes c within the bounds.
Found(t, lv, pf, i, lo, hi, what, c, all) ==
    /\ c \in Seq(Nat) /\ IsAscending(c) /\ Len(c) = Len(all)
    /\ \A m \in 1 .. Len(c) :
         /\ Within(c[m], lo, hi)
         /\ \E n \in 1 .. Len(t.node) : \E p \in DOMAIN t.node[n].ptr :
              lv[n] = i /\ c[m] = pf[n] * TriePerNode + p /\ all[m] = what[n][p]
    /\ \A n \in 1 .. Len(t.node) : \A p \in DOMAIN t.node[n].ptr :
         (lv[n] = i /\ Within(pf[n] * TriePerNode + p, lo, hi)) =>
           \E m \in 1 .. Len(c) : c[m] = pf[n] * TriePerNode + p /\ all[m] = what[n][p]

\* What is found at the nodes of a level, one behind the other, is what there is to find.
LEMMA LevelFound ==
    ASSUME NEW t, NEW lv, NEW pf, TrieOK(t, lv, pf), NEW i, NEW lo, NEW hi, NEW lo2, NEW hi2,
           \A x \in Nat : Within(x, lo2, hi2) => Within(x \div TriePerNode, lo, hi),
           NEW queue, IsLevel(t, lv, pf, i, lo, hi, queue), NEW what,
           NEW D, NEW parts \in Seq(Seq(D)), Len(parts) = Len(queue),
           \A q \in 1 .. Len(queue) : \A n \in 1 .. Len(t.node) :
             (lv[n] = i /\ queue[q] = Entry(t, pf, n)) =>
               IsPart(t.node[n], pf[n], lo2, hi2, what[n], parts[q])
    PROVE  \E c : Found(t, lv, pf, i, lo2, hi2, what, c, Joined(parts))
<1> DEFINE Nodes == 1 .. Len(t.node)
           L == Len(queue)
           no == [q \in 1 .. L |-> CHOOSE n \in Nodes : lv[n] = i /\ queue[q] = Entry(t, pf, n)]
           K(q) == MatchKeys(t.node[no[q]], pf[no[q]], lo2, hi2)
           keys == [q \in 1 .. L |-> K(q)]
           c == Joined(keys)
           all == Joined(parts)
<1>1. /\ \A n \in Nodes : pf[n] \in Nat /\ NodeOK(t.node[n])
      /\ \A m, n \in Nodes : lv[m] = lv[n] /\ pf[m] = pf[n] => m = n
  BY DEF TrieOK, NodesOK
<1>2. \A n \in Nodes : \A p \in DOMAIN t.node[n].ptr : p \in Positions /\ p \in Nat
  <2>1. \A n \in Nodes : DOMAIN t.node[n].ptr \in SUBSET Positions
    BY <1>1 DEF NodeOK, TrieNode
  <2> QED BY <2>1 DEF Positions
<1>3. L \in Nat /\ queue \in Seq(Queued)
  BY DEF IsLevel
<1>4. ASSUME NEW q \in 1 .. L
      PROVE  /\ no[q] \in Nodes /\ lv[no[q]] = i /\ queue[q] = Entry(t, pf, no[q])
             /\ queue[q].prefix = pf[no[q]] /\ pf[no[q]] \in Nat
             /\ IsPart(t.node[no[q]], pf[no[q]], lo2, hi2, what[no[q]], parts[q])
  <2>1. \E n \in Nodes : lv[n] = i /\ queue[q] = Entry(t, pf, n)
    BY DEF IsLevel
  <2>2. no[q] \in Nodes /\ lv[no[q]] = i /\ queue[q] = Entry(t, pf, no[q])
    BY <2>1
  <2> HIDE DEF no
  <2>3. queue[q].prefix = pf[no[q]]
    BY <2>2 DEF Entry
  <2>4. IsPart(t.node[no[q]], pf[no[q]], lo2, hi2, what[no[q]], parts[q])
    BY <2>2
  <2> QED BY <1>1, <2>2, <2>3, <2>4
<1>5. \A q, r \in 1 .. L : q < r => pf[no[q]] < pf[no[r]]
  <2> TAKE q, r \in 1 .. L
  <2> HAVE q < r
  <2>1. queue[q].prefix < queue[r].prefix
    BY DEF IsLevel
  <2>2. queue[q].prefix = pf[no[q]] /\ queue[r].prefix = pf[no[r]]
    BY <1>4
  <2> HIDE DEF no
  <2> QED BY <2>1, <2>2
<1> HIDE DEF no
<1>6. ASSUME NEW q \in 1 .. L
      PROVE  /\ K(q) \in Seq(Nat) /\ IsAscending(K(q)) /\ Len(parts[q]) = Len(K(q))
             /\ \A m \in 1 .. Len(K(q)) :
                  /\ Within(K(q)[m], lo2, hi2)
                  /\ \E p \in DOMAIN t.node[no[q]].ptr :
                       K(q)[m] = pf[no[q]] * TriePerNode + p /\ parts[q][m] = what[no[q]][p]
             /\ \A p \in DOMAIN t.node[no[q]].ptr : Within(pf[no[q]] * TriePerNode + p, lo2, hi2) =>
                  \E m \in 1 .. Len(K(q)) :
                    K(q)[m] = pf[no[q]] * TriePerNode + p /\ parts[q][m] = what[no[q]][p]
  <2> DEFINE n == no[q]
             k == K(q)
  <2>1. IsPart(t.node[n], pf[n], lo2, hi2, what[n], parts[q]) /\ k = MatchKeys(t.node[n], pf[n], lo2, hi2)
    BY <1>4
  <2> HIDE DEF n, k
  <2>2. /\ k \in Seq(Nat) /\ IsAscending(k) /\ Len(parts[q]) = Len(k)
        /\ \A m \in 1 .. Len(k) :
             /\ Within(k[m], lo2, hi2)
             /\ \E p \in DOMAIN t.node[n].ptr : k[m] = pf[n] * TriePerNode + p /\ parts[q][m] = what[n][p]
        /\ \A p \in DOMAIN t.node[n].ptr : Within(pf[n] * TriePerNode + p, lo2, hi2) =>
             \E m \in 1 .. Len(k) : k[m] = pf[n] * TriePerNode + p /\ parts[q][m] = what[n][p]
    BY <2>1, Zenon DEF IsPart
  <2> QED BY <2>2, Zenon DEF n, k
<1> HIDE DEF K
<1>7. keys \in Seq(Seq(Nat)) /\ Len(keys) = L /\ \A q \in 1 .. L : keys[q] = K(q)
  <2> DEFINE S == Seq(Nat)
  <2>1. \A q \in 1 .. L : K(q) \in S
    BY <1>6
  <2> HIDE DEF S, L
  <2>2. keys \in Seq(S) /\ Len(keys) = L
    BY <1>3, <2>1
  <2> QED BY <2>2 DEF S
<1> HIDE DEF keys, L
<1>8. Len(parts) = L
  BY DEF L
<1>9. InStep(parts, keys)
  <2>1. ASSUME NEW g \in 1 .. L, NEW h \in 1 .. L, g < h,
               NEW a \in 1 .. Len(keys[g]), NEW b \in 1 .. Len(keys[h])
        PROVE  keys[g][a] < keys[h][b]
    <3>a. keys[g] = K(g) /\ keys[h] = K(h) /\ a \in 1 .. Len(K(g)) /\ b \in 1 .. Len(K(h))
      BY <1>7, <2>1
    <3>1. PICK p \in DOMAIN t.node[no[g]].ptr : K(g)[a] = pf[no[g]] * TriePerNode + p
      BY <1>6, <3>a, Zenon
    <3>2. PICK q \in DOMAIN t.node[no[h]].ptr : K(h)[b] = pf[no[h]] * TriePerNode + q
      BY <1>6, <3>a, Zenon
    <3>3. p \in Positions /\ q \in Positions /\ pf[no[g]] \in Nat /\ pf[no[h]] \in Nat
          /\ pf[no[g]] < pf[no[h]]
      BY <1>2, <1>4, <1>5, <2>1
    <3>4. pf[no[g]] * TriePerNode + p < pf[no[h]] * TriePerNode + q
      BY <3>3, DigitsOrder
    <3> QED BY <3>a, <3>1, <3>2, <3>4
  <2>2. \A h \in 1 .. L : Len(keys[h]) = Len(parts[h]) /\ IsAscending(keys[h])
    BY <1>6, <1>7
  <2> QED BY <1>7, <1>8, <2>1, <2>2 DEF InStep
<1>10. /\ all \in Seq(D) /\ c \in Seq(Nat)
       /\ Len(c) = Len(all) /\ IsAscending(c)
       /\ \A k \in 1 .. Len(all) :
            \E h \in 1 .. Len(parts) : \E j \in 1 .. Len(parts[h]) :
              all[k] = parts[h][j] /\ c[k] = keys[h][j]
       /\ \A h \in 1 .. Len(parts) : \A j \in 1 .. Len(parts[h]) :
            \E k \in 1 .. Len(all) : all[k] = parts[h][j] /\ c[k] = keys[h][j]
  <2>1. keys \in Seq(Seq(Nat))
    BY <1>7
  <2>2. Together(D, parts, keys, all, c)
    BY <1>9, <2>1, JoinedInStep
  <2> HIDE DEF all, c
  <2> QED BY <2>2, Zenon DEF Together
<1> HIDE DEF all, c
<1>11. ASSUME NEW m \in 1 .. Len(c)
       PROVE  /\ Within(c[m], lo2, hi2)
              /\ \E n \in Nodes : \E p \in DOMAIN t.node[n].ptr :
                   lv[n] = i /\ c[m] = pf[n] * TriePerNode + p /\ all[m] = what[n][p]
  <2>1. PICK h \in 1 .. L : \E j \in 1 .. Len(parts[h]) : all[m] = parts[h][j] /\ c[m] = keys[h][j]
    BY <1>8, <1>10
  <2>2. PICK j \in 1 .. Len(parts[h]) : all[m] = parts[h][j] /\ c[m] = keys[h][j]
    BY <2>1
  <2>3. j \in 1 .. Len(K(h)) /\ keys[h] = K(h)
    BY <1>6, <1>7, <2>2
  <2>4. Within(K(h)[j], lo2, hi2)
    BY <1>6, <2>3
  <2>5. PICK p \in DOMAIN t.node[no[h]].ptr :
          K(h)[j] = pf[no[h]] * TriePerNode + p /\ parts[h][j] = what[no[h]][p]
    BY <1>6, <2>3
  <2>6. no[h] \in Nodes /\ lv[no[h]] = i
    BY <1>4
  <2> QED BY <2>2, <2>3, <2>4, <2>5, <2>6
<1>12. ASSUME NEW n \in Nodes, NEW p \in DOMAIN t.node[n].ptr, lv[n] = i,
              Within(pf[n] * TriePerNode + p, lo2, hi2)
       PROVE  \E m \in 1 .. Len(c) : c[m] = pf[n] * TriePerNode + p /\ all[m] = what[n][p]
  <2> DEFINE x == pf[n] * TriePerNode + p
  <2>1. pf[n] \in Nat /\ p \in Positions /\ p \in Nat /\ TriePerNode \in Nat
    BY <1>1, <1>2, TriePerNodeAssumption
  <2>2. x \in Nat
    BY <2>1
  <2>3. x \div TriePerNode = pf[n]
    BY <2>1, TrieDivision
  <2> HIDE DEF x
  <2>4. Within(pf[n], lo, hi)
    BY <1>12, <2>2, <2>3 DEF x
  <2>5. PICK q \in 1 .. L : queue[q] = Entry(t, pf, n)
    BY <1>12, <2>4 DEF IsLevel, L
  <2>a. queue[q].prefix = pf[n]
    BY <2>5 DEF Entry
  <2>6. queue[q].prefix = pf[n] /\ queue[q].prefix = pf[no[q]] /\ no[q] \in Nodes /\ lv[no[q]] = i
    BY <1>4, <2>a
  <2>7. no[q] = n
    BY <1>1, <1>12, <2>6
  <2>8. PICK j \in 1 .. Len(K(q)) : K(q)[j] = x /\ parts[q][j] = what[n][p]
    BY <1>6, <1>12, <2>7 DEF x
  <2>9. j \in 1 .. Len(parts[q]) /\ keys[q] = K(q) /\ q \in 1 .. Len(parts)
    BY <1>6, <1>7, <1>8
  <2>10. PICK k \in 1 .. Len(all) : all[k] = parts[q][j] /\ c[k] = keys[q][j]
    BY <1>10, <2>9
  <2>11. k \in 1 .. Len(c) /\ c[k] = x /\ all[k] = what[n][p]
    BY <1>10, <2>8, <2>9, <2>10
  <2> QED BY <2>11 DEF x
<1>13. Found(t, lv, pf, i, lo2, hi2, what, c, all)
  BY <1>10, <1>11, <1>12 DEF Found
<1> QED BY <1>13 DEF all

\* A turn of queryFromFile's loop goes from one level to the next.
LEMMA NextLevelOK ==
    ASSUME NEW t, NEW lv, NEW pf, TrieOK(t, lv, pf), Ordered(t), NEW b \in Nat, NEW e \in Nat,
           NEW i \in 1 .. Depth - 1, NEW queue,
           IsLevel(t, lv, pf, i - 1, Prefix(b, i - 1), Prefix(e, i - 1), queue)
    PROVE  IsLevel(t, lv, pf, i, Prefix(b, i), Prefix(e, i),
                   NextLevel(TrieWrite(t), queue, Prefix(b, i), Prefix(e, i)))
<1> DEFINE Nodes == 1 .. Len(t.node)
           lo == Prefix(b, i)
           hi == Prefix(e, i)
           data == TrieWrite(t)
           L == Len(queue)
           P(q) == NextPart(data, queue[q], lo, hi)
           parts == [q \in 1 .. L |-> P(q)]
           what == [n \in Nodes |-> ChildEntries(t, pf, n)]
           new == Joined(parts)
<1>1. Depth \in Nat /\ i \in 1 .. Depth /\ i - 1 # Depth - 1 /\ i \in Nat
  BY DepthAssumption
<1>2. \A x \in Nat : Within(x, lo, hi) =>
        Within(x \div TriePerNode, Prefix(b, i - 1), Prefix(e, i - 1))
  BY <1>1, WithinPrefix
<1>3. L \in Nat /\ DOMAIN queue = 1 .. L /\ queue \in Seq(Queued)
  BY DEF IsLevel
<1>4. NextLevel(data, queue, lo, hi) = new
  BY <1>3 DEF NextLevel, NextPart
<1>5. ASSUME NEW n \in Nodes, lv[n] = i - 1, NEW q \in 1 .. L, queue[q] = Entry(t, pf, n)
      PROVE  P(q) \in Seq(Queued) /\ IsPart(t.node[n], pf[n], lo, hi, what[n], P(q))
  <2>1. lv[n] # Depth - 1
    BY <1>1, <1>5
  <2>2. /\ NextPart(TrieWrite(t), Entry(t, pf, n), lo, hi) \in Seq(Queued)
        /\ IsPart(t.node[n], pf[n], lo, hi, ChildEntries(t, pf, n),
                  NextPart(TrieWrite(t), Entry(t, pf, n), lo, hi))
    BY <2>1, InnerPart
  <2>3. what[n] = ChildEntries(t, pf, n) /\ P(q) = NextPart(TrieWrite(t), Entry(t, pf, n), lo, hi)
    BY <1>5
  <2> HIDE DEF what, P
  <2> QED BY <2>2, <2>3, Zenon
<1>6. \A q \in 1 .. L : \E n \in Nodes : lv[n] = i - 1 /\ queue[q] = Entry(t, pf, n)
  BY DEF IsLevel
<1> HIDE DEF P
<1>7. parts \in Seq(Seq(Queued)) /\ Len(parts) = L /\ \A q \in 1 .. L : parts[q] = P(q)
  <2> DEFINE S == Seq(Queued)
  <2>1. \A q \in 1 .. L : P(q) \in S
    BY <1>5, <1>6
  <2> HIDE DEF S, L
  <2>2. parts \in Seq(S) /\ Len(parts) = L
    BY <1>3, <2>1
  <2> QED BY <2>2 DEF S
<1> HIDE DEF parts, what, lo, hi, data
<1>8. PICK c : Found(t, lv, pf, i - 1, lo, hi, what, c, new)
  <2>1. \A q \in 1 .. Len(queue) : \A n \in 1 .. Len(t.node) :
          (lv[n] = i - 1 /\ queue[q] = Entry(t, pf, n)) =>
            IsPart(t.node[n], pf[n], lo, hi, what[n], parts[q])
    BY <1>5, <1>7
  <2> QED BY <1>2, <1>7, <2>1, LevelFound
<1>9. new \in Seq(Queued)
  BY <1>7, JoinedAt
<1>10. \A n \in Nodes : lv[n] = i - 1 => \A p \in DOMAIN t.node[n].ptr :
         /\ t.node[n].ptr[p] \in Nodes /\ lv[t.node[n].ptr[p]] = i
         /\ pf[t.node[n].ptr[p]] = pf[n] * TriePerNode + p
         /\ what[n][p] = Entry(t, pf, t.node[n].ptr[p])
         /\ what[n][p].prefix = pf[n] * TriePerNode + p
  <2> SUFFICES ASSUME NEW n \in Nodes, lv[n] = i - 1, NEW p \in DOMAIN t.node[n].ptr
               PROVE  /\ t.node[n].ptr[p] \in Nodes /\ lv[t.node[n].ptr[p]] = i
                      /\ pf[t.node[n].ptr[p]] = pf[n] * TriePerNode + p
                      /\ what[n][p] = Entry(t, pf, t.node[n].ptr[p])
                      /\ what[n][p].prefix = pf[n] * TriePerNode + p
    OBVIOUS
  <2>1. /\ t.node[n].ptr[p] \in Nodes /\ lv[t.node[n].ptr[p]] = lv[n] + 1
        /\ pf[t.node[n].ptr[p]] = pf[n] * TriePerNode + p
    BY <1>1 DEF TrieOK, NodesOK
  <2>2. lv[t.node[n].ptr[p]] = i
    BY <1>1, <2>1
  <2>3. what[n][p] = Entry(t, pf, t.node[n].ptr[p])
    BY DEF what, ChildEntries
  <2>4. what[n][p].prefix = pf[t.node[n].ptr[p]]
    BY <2>3 DEF Entry
  <2> QED BY <2>1, <2>2, <2>3, <2>4
<1> HIDE DEF new
<1>11. Len(c) = Len(new) /\ IsAscending(c)
  BY <1>8 DEF Found
<1>12. ASSUME NEW m \in 1 .. Len(new)
       PROVE  /\ new[m].prefix = c[m]
              /\ \E n \in Nodes : lv[n] = i /\ Within(pf[n], lo, hi) /\ new[m] = Entry(t, pf, n)
  <2>1. Within(c[m], lo, hi) /\ \E n \in Nodes : \E p \in DOMAIN t.node[n].ptr :
          lv[n] = i - 1 /\ c[m] = pf[n] * TriePerNode + p /\ new[m] = what[n][p]
    BY <1>8, <1>11 DEF Found
  <2>2. PICK n \in Nodes : \E p \in DOMAIN t.node[n].ptr :
          lv[n] = i - 1 /\ c[m] = pf[n] * TriePerNode + p /\ new[m] = what[n][p]
    BY <2>1
  <2>3. PICK p \in DOMAIN t.node[n].ptr :
          lv[n] = i - 1 /\ c[m] = pf[n] * TriePerNode + p /\ new[m] = what[n][p]
    BY <2>2
  <2>4. /\ t.node[n].ptr[p] \in Nodes /\ lv[t.node[n].ptr[p]] = i
        /\ pf[t.node[n].ptr[p]] = c[m] /\ new[m].prefix = c[m]
        /\ new[m] = Entry(t, pf, t.node[n].ptr[p])
    BY <1>10, <2>3
  <2> QED BY <2>1, <2>4
<1>13. ASSUME NEW n \in Nodes, lv[n] = i, Within(pf[n], lo, hi)
       PROVE  \E m \in 1 .. Len(new) : new[m] = Entry(t, pf, n)
  <2>1. n # 1
    <3>1. lv[1] = 0
      BY DEF TrieOK, NodesOK
    <3> QED BY <1>1, <1>13, <3>1
  <2>2. PICK k \in Nodes : \E p \in DOMAIN t.node[k].ptr :
          t.node[k].ptr[p] = n /\ lv[n] = lv[k] + 1
    BY <2>1, ParentOf
  <2>3. PICK p \in DOMAIN t.node[k].ptr : t.node[k].ptr[p] = n /\ lv[n] = lv[k] + 1
    BY <2>2
  <2>4. lv[k] = i - 1
    <3>1. lv \in [Nodes -> 0 .. Depth - 1]
      BY DEF TrieOK, NodesOK
    <3>2. lv[k] \in Nat
      BY <1>1, <3>1
    <3> QED BY <1>1, <1>13, <2>3, <3>2
  <2>5. pf[n] = pf[k] * TriePerNode + p /\ what[k][p] = Entry(t, pf, n)
    BY <1>10, <2>3, <2>4
  <2>6. Within(pf[k] * TriePerNode + p, lo, hi)
    BY <1>13, <2>5
  <2>7. PICK m \in 1 .. Len(c) : new[m] = what[k][p]
    BY <1>8, <2>4, <2>6 DEF Found
  <2> QED BY <1>11, <2>5, <2>7
<1>14. \A q, r \in 1 .. Len(new) : q < r => new[q].prefix < new[r].prefix
  <2>1. \A q, r \in 1 .. Len(new) : q < r => c[q] < c[r]
    BY <1>11 DEF IsAscending
  <2>2. \A q \in 1 .. Len(new) : new[q].prefix = c[q]
    BY <1>12
  <2> QED BY <2>1, <2>2
<1>15. IsLevel(t, lv, pf, i, lo, hi, new)
  BY <1>9, <1>12, <1>13, <1>14 DEF IsLevel
<1> QED BY <1>4, <1>15 DEF lo, hi, data

\* queryFromFile starts with the root.
LEMMA RootLevel ==
    ASSUME NEW t, NEW lv, NEW pf, TrieOK(t, lv, pf), Ordered(t), NEW b, IsKey(b), NEW e, IsKey(e)
    PROVE  IsLevel(t, lv, pf, 0, Prefix(b, 0), Prefix(e, 0), <<[at |-> 0, prefix |-> 0]>>)
<1> DEFINE root == [at |-> 0, prefix |-> 0]
           queue == <<root>>
<1>1. /\ 1 \in 1 .. Len(t.node) /\ lv[1] = 0 /\ pf[1] = 0
      /\ lv \in [1 .. Len(t.node) -> 0 .. Depth - 1]
  BY DEF TrieOK, NodesOK
<1>2. Prefix(b, 0) = 0 /\ Prefix(e, 0) = 0
  BY DEF IsKey
<1>3. root \in Queued /\ root = Entry(t, pf, 1)
  BY <1>1, NodeIsAt DEF Queued, Entry
<1>4. Within(pf[1], 0, 0)
  BY <1>1 DEF Within
<1>5. ASSUME NEW n \in 1 .. Len(t.node), lv[n] = 0 PROVE n = 1
  <2>1. ASSUME n # 1 PROVE FALSE
    <3>1. PICK m \in 1 .. Len(t.node) : lv[n] = lv[m] + 1
      BY <2>1, ParentOf
    <3>2. lv[m] \in Nat
      BY <1>1, DepthAssumption
    <3> QED BY <1>5, <3>1, <3>2
  <2> QED BY <2>1
<1> HIDE DEF root
<1>6. queue \in Seq(Queued) /\ Len(queue) = 1 /\ queue[1] = root
  BY <1>3
<1> HIDE DEF queue
<1>7. \A q, r \in 1 .. Len(queue) : ~(q < r)
  BY <1>6
<1>8. \A q \in 1 .. Len(queue) : q = 1
  BY <1>6
<1>9. 1 \in 1 .. Len(queue)
  BY <1>6
<1>10. IsLevel(t, lv, pf, 0, 0, 0, queue)
  BY <1>1, <1>3, <1>4, <1>5, <1>6, <1>7, <1>8, <1>9 DEF IsLevel
<1> QED BY <1>2, <1>10 DEF queue, root

\* What a query comes to: under each of the keys between the bounds that has one, its list.
Answer(t, b, e, c, lists) ==
    /\ c \in Seq(Nat) /\ IsAscending(c) /\ lists \in Seq(Seq(Nat)) /\ Len(c) = Len(lists)
    /\ \A m \in 1 .. Len(c) :
         IsKey(c[m]) /\ b <= c[m] /\ c[m] <= e /\ lists[m] = TrieList(t, c[m])
    /\ \A x : (IsKey(x) /\ b <= x /\ x <= e /\ TrieList(t, x) # <<>>) =>
         \E m \in 1 .. Len(c) : c[m] = x

\* Where a list is, when there is one.
LEMMA LeafOf ==
    ASSUME NEW t, NEW lv, NEW pf, TrieOK(t, lv, pf), NEW x, IsKey(x), TrieList(t, x) # <<>>
    PROVE  \E n \in 1 .. Len(t.node) :
             /\ lv[n] = Depth - 1 /\ pf[n] = Prefix(x, Depth - 1)
             /\ Digit(x, Depth) \in DOMAIN t.node[n].ptr
             /\ x = pf[n] * TriePerNode + Digit(x, Depth)
<1>1. PICK n \in 1 .. Len(t.node) : lv[n] = Depth - 1 /\ pf[n] = Prefix(x, Depth - 1)
  BY FiledNone
<1>2. Digit(x, Depth) \in DOMAIN t.node[n].ptr
  BY <1>1, FiledAt
<1>3. x \in Nat /\ Depth \in 1 .. Depth
  BY DepthAssumption DEF IsKey
<1>4. x = Prefix(x, Depth - 1) * TriePerNode + Digit(x, Depth)
  BY <1>3, Digits
<1> QED BY <1>1, <1>2, <1>4

\* From the leaves within the bounds to the lists between them.
LEMMA LeafLevel ==
    ASSUME NEW t, NEW lv, NEW pf, TrieOK(t, lv, pf), Ordered(t), NEW b \in Nat, NEW e \in Nat, NEW queue,
           IsLevel(t, lv, pf, Depth - 1, Prefix(b, Depth - 1), Prefix(e, Depth - 1), queue)
    PROVE  \E c : Answer(t, b, e, c,
             Joined([k \in DOMAIN queue |-> LeafMatches(TrieWrite(t), queue[k], b, e)]))
<1> DEFINE Nodes == 1 .. Len(t.node)
           data == TrieWrite(t)
           L == Len(queue)
           P(q) == LeafMatches(data, queue[q], b, e)
           parts == [q \in 1 .. L |-> P(q)]
           what == [n \in Nodes |-> t.node[n].ptr]
           new == Joined(parts)
           i == Depth - 1
           D == Seq(Nat)
<1>1. Depth \in Nat /\ Depth \in 1 .. Depth /\ i \in Nat
  BY DepthAssumption
<1>2. \A x \in Nat : Within(x, b, e) => Within(x \div TriePerNode, Prefix(b, i), Prefix(e, i))
  <2>1. Prefix(b, Depth) = b /\ Prefix(e, Depth) = e
    BY Digits
  <2> QED BY <1>1, <2>1, WithinPrefix
<1>3. L \in Nat /\ DOMAIN queue = 1 .. L /\ queue \in Seq(Queued)
  BY DEF IsLevel
<1>4. Joined([k \in DOMAIN queue |-> LeafMatches(TrieWrite(t), queue[k], b, e)]) = new
  BY <1>3
<1>5. ASSUME NEW n \in Nodes, lv[n] = i, NEW q \in 1 .. L, queue[q] = Entry(t, pf, n)
      PROVE  P(q) \in Seq(D) /\ IsPart(t.node[n], pf[n], b, e, what[n], P(q))
  <2>1. /\ LeafMatches(TrieWrite(t), Entry(t, pf, n), b, e) \in Seq(Seq(Nat))
        /\ IsPart(t.node[n], pf[n], b, e, t.node[n].ptr,
                  LeafMatches(TrieWrite(t), Entry(t, pf, n), b, e))
    BY <1>5, LeafPart
  <2>2. what[n] = t.node[n].ptr /\ P(q) = LeafMatches(TrieWrite(t), Entry(t, pf, n), b, e)
    BY <1>5
  <2> HIDE DEF what, P
  <2> QED BY <2>1, <2>2, Zenon
<1>6. \A q \in 1 .. L : \E n \in Nodes : lv[n] = i /\ queue[q] = Entry(t, pf, n)
  BY DEF IsLevel
<1>a. IsLevel(t, lv, pf, i, Prefix(b, i), Prefix(e, i), queue)
  OBVIOUS
<1> HIDE DEF P, D, i
<1>7. parts \in Seq(Seq(D)) /\ Len(parts) = L /\ \A q \in 1 .. L : parts[q] = P(q)
  <2> DEFINE S == Seq(D)
  <2>1. \A q \in 1 .. L : P(q) \in S
    BY <1>5, <1>6
  <2> HIDE DEF S, L
  <2>2. parts \in Seq(S) /\ Len(parts) = L
    BY <1>3, <2>1
  <2> QED BY <2>2 DEF S
<1> HIDE DEF parts, what
<1>8. PICK c : Found(t, lv, pf, i, b, e, what, c, new)
  <2>1. \A q \in 1 .. Len(queue) : \A n \in 1 .. Len(t.node) :
          (lv[n] = i /\ queue[q] = Entry(t, pf, n)) =>
            IsPart(t.node[n], pf[n], b, e, what[n], parts[q])
    BY <1>5, <1>7
  <2> QED BY <1>2, <1>7, <1>a, <2>1, LevelFound
<1>9. new \in Seq(D)
  BY <1>7, JoinedAt
<1> HIDE DEF new
<1>10. c \in Seq(Nat) /\ Len(c) = Len(new) /\ IsAscending(c)
  BY <1>8 DEF Found
<1>11. ASSUME NEW m \in 1 .. Len(c)
       PROVE  IsKey(c[m]) /\ b <= c[m] /\ c[m] <= e /\ new[m] = TrieList(t, c[m])
  <2>1. Within(c[m], b, e) /\ \E n \in Nodes : \E p \in DOMAIN t.node[n].ptr :
          lv[n] = i /\ c[m] = pf[n] * TriePerNode + p /\ new[m] = what[n][p]
    BY <1>8 DEF Found
  <2>2. PICK n \in Nodes : \E p \in DOMAIN t.node[n].ptr :
          lv[n] = i /\ c[m] = pf[n] * TriePerNode + p /\ new[m] = what[n][p]
    BY <2>1
  <2>3. PICK p \in DOMAIN t.node[n].ptr :
          lv[n] = i /\ c[m] = pf[n] * TriePerNode + p /\ new[m] = what[n][p]
    BY <2>2
  <2>4. IsKey(pf[n] * TriePerNode + p) /\ TrieList(t, pf[n] * TriePerNode + p) = t.node[n].ptr[p]
    BY <2>3, KeyOfLeaf DEF i
  <2>5. new[m] = t.node[n].ptr[p]
    BY <2>3 DEF what
  <2>6. b <= c[m] /\ c[m] <= e
    BY <2>1 DEF Within
  <2> QED BY <2>3, <2>4, <2>5, <2>6, Zenon
<1>12. ASSUME NEW x, IsKey(x), b <= x, x <= e, TrieList(t, x) # <<>>
       PROVE  \E m \in 1 .. Len(c) : c[m] = x
  <2>1. PICK n \in Nodes :
             /\ lv[n] = Depth - 1 /\ Digit(x, Depth) \in DOMAIN t.node[n].ptr
             /\ x = pf[n] * TriePerNode + Digit(x, Depth)
    BY <1>12, LeafOf
  <2> DEFINE p == Digit(x, Depth)
  <2>2. p \in DOMAIN t.node[n].ptr /\ x = pf[n] * TriePerNode + p /\ lv[n] = i
    BY <2>1 DEF i
  <2> HIDE DEF p
  <2>3. Within(pf[n] * TriePerNode + p, b, e)
    BY <1>12, <2>2 DEF Within
  <2>4. PICK m \in 1 .. Len(c) : c[m] = pf[n] * TriePerNode + p
    BY <1>8, <2>2, <2>3 DEF Found
  <2> QED BY <2>2, <2>4
<1>13. Answer(t, b, e, c, new)
  BY <1>9, <1>10, <1>11, <1>12 DEF Answer, D
<1> QED BY <1>4, <1>13

\* queryFromFile returns what is filed between the bounds, or NULL if that is nothing.
LEMMA QueryAnswers ==
    ASSUME NEW t, NEW lv, NEW pf, TrieOK(t, lv, pf), Ordered(t), NEW b, IsKey(b), NEW e, IsKey(e)
    PROVE  \/ \E c, lists : Answer(t, b, e, c, lists) /\ TrieQuery(TrieWrite(t), b, e) = Merged(lists)
           \/ /\ TrieQuery(TrieWrite(t), b, e) = NoList
              /\ \A x : (IsKey(x) /\ b <= x /\ x <= e) => TrieList(t, x) = <<>>
<1> DEFINE N == Depth - 1
           U == Seq(Queued)
           start == <<[at |-> 0, prefix |-> 0]>>
           Turn(i, x) == NextLevel(TrieWrite(t), x, Prefix(b, i), Prefix(e, i))
           Good(i, x) == IsLevel(t, lv, pf, i, Prefix(b, i), Prefix(e, i), x)
           Solves(f) == f = [i \in 0 .. N |-> IF i = 0 THEN start ELSE Turn(i, f[i - 1])]
           queue == CHOOSE f : Solves(f)
           leaves == queue[N]
           parts == [k \in DOMAIN leaves |-> LeafMatches(TrieWrite(t), leaves[k], b, e)]
<1>0. b \in Nat /\ e \in Nat /\ Depth \in Nat /\ Depth > 1
  BY DepthAssumption DEF IsKey
<1>1. N \in Nat /\ start \in U /\ Good(0, start)
  <2>1. Good(0, start)
    BY RootLevel
  <2>2. start \in U
    <3> DEFINE root == [at |-> 0, prefix |-> 0]
    <3>1. root \in Queued
      BY DEF Queued
    <3> HIDE DEF root
    <3>2. <<root>> \in Seq(Queued)
      BY <3>1
    <3> QED BY <3>2 DEF root
  <2> QED BY <1>0, <2>1, <2>2
<1>2. ASSUME NEW i \in 1 .. N, NEW x \in U, Good(i - 1, x)
      PROVE  Turn(i, x) \in U /\ Good(i, Turn(i, x))
  <2>1. Good(i, Turn(i, x))
    BY <1>0, <1>2, NextLevelOK
  <2> HIDE DEF Turn
  <2>2. Turn(i, x) \in U
    BY <2>1 DEF IsLevel
  <2> QED BY <2>1, <2>2
<1> HIDE DEF N, U, start, Good, Turn, parts, leaves
<1>3. \E f : Solves(f)
  <2> DEFINE good == [i \in 0 .. N |-> {x \in U : Good(i, x)}]
             step == [i \in 1 .. N |-> [x \in good[i - 1] |-> Turn(i, x)]]
  <2>1. good \in [0 .. N -> SUBSET U] /\ start \in good[0]
    BY <1>1
  <2>2. ASSUME NEW i \in 1 .. N, NEW x \in good[i - 1]
        PROVE  step[i][x] = Turn(i, x) /\ Turn(i, x) \in good[i]
    <3>1. i \in 0 .. N /\ i - 1 \in 0 .. N
      BY <1>1
    <3>2. x \in U /\ Good(i - 1, x)
      BY <3>1
    <3>3. Turn(i, x) \in U /\ Good(i, Turn(i, x))
      BY <1>2, <3>2
    <3> QED BY <3>1, <3>3
  <2> HIDE DEF good, step
  <2>3. PICK f : Runs(f, N, U, good, start, step)
    <3>1. Loop(N, U, good, start, step)
      BY <1>1, <2>1, <2>2 DEF Loop
    <3> QED BY <3>1, LoopSolved
  <2>4. ASSUME NEW i \in 0 .. N
        PROVE  f[i] = IF i = 0 THEN start ELSE Turn(i, f[i - 1])
    <3>1. CASE i = 0
      BY <2>3, <3>1 DEF Runs
    <3>2. CASE i # 0
      <4>1. i \in 1 .. N
        BY <1>1, <3>2
      <4> QED BY <2>2, <2>3, <3>2, <4>1 DEF Runs
    <3> QED BY <3>1, <3>2
  <2>5. f = [i \in 0 .. N |-> f[i]]
    BY <2>3 DEF Runs
  <2>6. Solves(f)
    BY <2>4, <2>5
  <2> QED BY <2>6
<1>4. Solves(queue)
  BY <1>3
<1> HIDE DEF queue
<1>5. queue[0] = start /\ \A i \in 1 .. N : queue[i] = Turn(i, queue[i - 1])
  BY <1>1, <1>4
<1>6. \A i \in 0 .. N : queue[i] \in U /\ Good(i, queue[i])
  <2> DEFINE good == [i \in 0 .. N |-> {x \in U : Good(i, x)}]
  <2>1. queue[0] \in good[0]
    BY <1>1, <1>5
  <2>2. ASSUME NEW i \in 1 .. N, queue[i - 1] \in good[i - 1] PROVE queue[i] \in good[i]
    <3>1. i \in 0 .. N /\ i - 1 \in 0 .. N
      BY <1>1
    <3>2. queue[i - 1] \in U /\ Good(i - 1, queue[i - 1])
      BY <2>2, <3>1
    <3>3. queue[i] \in U /\ Good(i, queue[i])
      BY <1>2, <1>5, <3>2
    <3> QED BY <3>1, <3>3
  <2>3. \A i \in 0 .. N : queue[i] \in good[i]
    <3> HIDE DEF good
    <3> QED BY <1>1, <2>1, <2>2, LoopKeeps
  <2> QED BY <2>3
<1>7. \A i \in 0 .. N : IsLevel(t, lv, pf, i, Prefix(b, i), Prefix(e, i), queue[i])
  BY <1>6 DEF Good
<1>8. TrieQuery(TrieWrite(t), b, e) =
        IF \E i \in 0 .. Depth - 2 : queue[i] = <<>> THEN NoList ELSE Merged(Joined(parts))
  BY DEF TrieQuery, queue, parts, leaves, Turn, start, N
<1>9. CASE \E i \in 0 .. Depth - 2 : queue[i] = <<>>
  <2>1. PICK i \in 0 .. Depth - 2 : queue[i] = <<>>
    BY <1>9
  <2>2. i \in 0 .. N /\ i \in 0 .. Depth
    BY <1>0 DEF N
  <2>3. IsLevel(t, lv, pf, i, Prefix(b, i), Prefix(e, i), queue[i])
    BY <1>7, <2>2
  <2>4. ~ \E n \in 1 .. Len(t.node) : lv[n] = i /\ Within(pf[n], Prefix(b, i), Prefix(e, i))
    <3>1. ~ \E q \in 1 .. Len(queue[i]) : TRUE
      BY <2>1
    <3> QED BY <2>3, <3>1 DEF IsLevel
  <2>5. ASSUME NEW x, IsKey(x), b <= x, x <= e, TrieList(t, x) # <<>> PROVE FALSE
    <3>1. PICK leaf \in 1 .. Len(t.node) : lv[leaf] = Depth - 1 /\ pf[leaf] = Prefix(x, Depth - 1)
      BY <2>5, LeafOf
    <3>2. x \in Nat
      BY <2>5 DEF IsKey
    <3>3. PICK n \in 1 .. Len(t.node) : lv[n] = i /\ pf[n] = Prefix(x, i)
      BY <2>2, <3>1, <3>2, Ancestors DEF N
    <3>4. Within(Prefix(x, i), Prefix(b, i), Prefix(e, i))
      BY <1>0, <2>2, <2>5, <3>2, KeyWithin
    <3> QED BY <2>4, <3>3, <3>4
  <2> QED BY <1>8, <1>9, <2>5
<1>10. CASE ~ \E i \in 0 .. Depth - 2 : queue[i] = <<>>
  <2>1. IsLevel(t, lv, pf, Depth - 1, Prefix(b, Depth - 1), Prefix(e, Depth - 1), leaves)
    <3>1. N \in 0 .. N
      BY <1>1
    <3> QED BY <1>7, <3>1 DEF N, leaves
  <2>2. \E c : Answer(t, b, e, c,
          Joined([k \in DOMAIN leaves |-> LeafMatches(TrieWrite(t), leaves[k], b, e)]))
    BY <1>0, <2>1, LeafLevel
  <2>3. PICK c : Answer(t, b, e, c, Joined(parts))
    BY <2>2 DEF parts
  <2> QED BY <1>8, <1>10, <2>3
<1> QED BY <1>9, <1>10

\* Every element of the parts is one of Joined.
LEMMA JoinedHas ==
    ASSUME NEW D, NEW parts \in Seq(Seq(D)), NEW h \in 1 .. Len(parts), NEW j \in 1 .. Len(parts[h])
    PROVE  \E k \in 1 .. Len(Joined(parts)) : Joined(parts)[k] = parts[h][j]
<1> DEFINE s == Starts(parts)
           N == Len(parts)
           l == Len(parts[h])
           v == Joined(parts)
<1>1. /\ s \in [0 .. N -> Nat]
      /\ \A i \in 1 .. N : s[i] = s[i - 1] + Len(parts[i])
      /\ \A j2 \in 0 .. N : \A i \in 0 .. j2 : s[i] <= s[j2]
  BY StartsStep
<1>2. Len(v) = s[N] /\ \A g \in 1 .. N : \A k \in 1 .. Len(parts[g]) : v[s[g - 1] + k] = parts[g][k]
  BY JoinedAt
<1>3. l \in Nat
  <2>1. parts[h] \in Seq(D)
    OBVIOUS
  <2> QED BY <2>1
<1>4. N \in Nat /\ h \in 1 .. N /\ j \in 1 .. l
  OBVIOUS
<1> HIDE DEF s, N, v
<1>5. v[s[h - 1] + j] = parts[h][j]
  BY <1>2, <1>4
<1>6. s[h] = s[h - 1] + l
  BY <1>1, <1>4
<1> HIDE DEF l
<1>7. h - 1 \in 0 .. N /\ h \in 0 .. N /\ N \in 0 .. N
  BY <1>4
<1>8. s[h - 1] \in Nat /\ s[h] <= s[N] /\ s[N] \in Nat
  BY <1>1, <1>7
<1>9. \A a, x, b \in Nat : a + x <= b => \A m \in 1 .. x : a + m \in 1 .. b
  OBVIOUS
<1>10. s[h - 1] + j \in 1 .. s[N]
  BY <1>3, <1>4, <1>6, <1>8, <1>9
<1> QED BY <1>2, <1>5, <1>10 DEF v

\* The lists of a trie in which every value was filed once, in ascending order, the last
\* being v, under the keys of the model.
Distinct(t, v) ==
    /\ \A k : IsKey(k) => /\ TrieList(t, k) \in Seq(Nat) /\ IsAscending(TrieList(t, k))
                          /\ \A i \in 1 .. Len(TrieList(t, k)) : TrieList(t, k)[i] <= v
    /\ \A k, l : (IsKey(k) /\ IsKey(l) /\ k # l) =>
         \A i \in 1 .. Len(TrieList(t, k)) : \A j \in 1 .. Len(TrieList(t, l)) :
           TrieList(t, k)[i] # TrieList(t, l)[j]
    /\ \A k : (IsKey(k) /\ k \notin Keys) => TrieList(t, k) = <<>>

\* It is so of every trie with the same lists, and as values grow.
LEMMA SameDistinct ==
    ASSUME NEW t, NEW r, NEW v, Distinct(t, v),
           \A k : IsKey(k) => TrieList(r, k) = TrieList(t, k)
    PROVE  Distinct(r, v)
<1>1. ASSUME NEW k, IsKey(k)
      PROVE  /\ TrieList(r, k) \in Seq(Nat) /\ IsAscending(TrieList(r, k))
             /\ \A i \in 1 .. Len(TrieList(r, k)) : TrieList(r, k)[i] <= v
  <2>1. TrieList(r, k) = TrieList(t, k)
    BY <1>1
  <2>2. /\ TrieList(t, k) \in Seq(Nat) /\ IsAscending(TrieList(t, k))
        /\ \A i \in 1 .. Len(TrieList(t, k)) : TrieList(t, k)[i] <= v
    BY <1>1, Zenon DEF Distinct
  <2> QED BY <2>1, <2>2
<1>2. ASSUME NEW k, NEW l, IsKey(k), IsKey(l), k # l
      PROVE  \A i \in 1 .. Len(TrieList(r, k)) : \A j \in 1 .. Len(TrieList(r, l)) :
               TrieList(r, k)[i] # TrieList(r, l)[j]
  <2>1. TrieList(r, k) = TrieList(t, k) /\ TrieList(r, l) = TrieList(t, l)
    BY <1>2
  <2>2. \A i \in 1 .. Len(TrieList(t, k)) : \A j \in 1 .. Len(TrieList(t, l)) :
          TrieList(t, k)[i] # TrieList(t, l)[j]
    BY <1>2, Zenon DEF Distinct
  <2> QED BY <2>1, <2>2
<1>3. ASSUME NEW k, IsKey(k), k \notin Keys PROVE TrieList(r, k) = <<>>
  <2>1. TrieList(t, k) = <<>>
    BY <1>3, Zenon DEF Distinct
  <2> QED BY <1>3, <2>1
<1> QED BY <1>1, <1>2, <1>3, Zenon DEF Distinct

Between(b, e) == {k \in Keys : b <= k /\ k <= e}

\* The values of the lists a query finds are those filed under the keys between its bounds.
LEMMA MergedExact ==
    ASSUME NEW t, NEW v, Distinct(t, v), NEW b \in Nat, NEW e \in Nat,
           NEW c, NEW lists, Answer(t, b, e, c, lists)
    PROVE  /\ Merged(lists) \in Seq(Nat) /\ IsAscending(Merged(lists))
           /\ Elements(Merged(lists)) = UNION {Elements(TrieList(t, k)) : k \in Between(b, e)}
<1> DEFINE all == Joined(lists)
           m == Merged(lists)
           L == Len(lists)
           expected == UNION {Elements(TrieList(t, k)) : k \in Between(b, e)}
<1>1. /\ c \in Seq(Nat) /\ L \in Nat /\ Len(c) = L /\ lists \in Seq(Seq(Nat))
      /\ \A i, j \in 1 .. L : i < j => c[i] < c[j]
      /\ \A h \in 1 .. L : IsKey(c[h]) /\ b <= c[h] /\ c[h] <= e /\ lists[h] = TrieList(t, c[h])
      /\ \A h \in 1 .. L : c[h] \in Nat
  <2>1. c \in Seq(Nat) /\ lists \in Seq(Seq(Nat)) /\ Len(c) = Len(lists)
    BY DEF Answer
  <2> QED BY <2>1 DEF Answer, IsAscending
<1>2. \A x : (IsKey(x) /\ b <= x /\ x <= e /\ TrieList(t, x) # <<>>) => \E h \in 1 .. L : c[h] = x
  BY DEF Answer
<1> HIDE DEF L
<1>3. \A h \in 1 .. L : lists[h] \in Seq(Nat) /\ \A i, j \in 1 .. Len(lists[h]) : i < j => lists[h][i] < lists[h][j]
  BY <1>1 DEF Distinct, IsAscending
<1>4. \A g, h \in 1 .. L : g # h => \A i \in 1 .. Len(lists[g]) : \A j \in 1 .. Len(lists[h]) :
        lists[g][i] # lists[h][j]
  <2> TAKE g, h \in 1 .. L
  <2> HAVE g # h
  <2>1. g < h \/ h < g
    BY <1>1
  <2>2. c[g] # c[h]
    BY <1>1, <2>1
  <2>3. IsKey(c[g]) /\ IsKey(c[h]) /\ lists[g] = TrieList(t, c[g]) /\ lists[h] = TrieList(t, c[h])
    BY <1>1
  <2>4. \A x, y : (IsKey(x) /\ IsKey(y) /\ x # y) =>
          \A i \in 1 .. Len(TrieList(t, x)) : \A j \in 1 .. Len(TrieList(t, y)) :
            TrieList(t, x)[i] # TrieList(t, y)[j]
    BY Zenon DEF Distinct
  <2>5. \A i \in 1 .. Len(TrieList(t, c[g])) : \A j \in 1 .. Len(TrieList(t, c[h])) :
          TrieList(t, c[g])[i] # TrieList(t, c[h])[j]
    BY <2>2, <2>3, <2>4, Zenon
  <2> QED BY <2>3, <2>5
<1>5. \A k \in 1 .. Len(all) : \E h \in 1 .. L : \E j \in 1 .. Len(lists[h]) :
        k = Starts(lists)[h - 1] + j /\ all[k] = lists[h][j]
  BY <1>1, JoinedFrom DEF L
<1>6. ASSUME NEW k \in 1 .. Len(all), NEW l \in 1 .. Len(all), all[k] = all[l] PROVE k = l
  <2>1. PICK g \in 1 .. L : \E i \in 1 .. Len(lists[g]) : k = Starts(lists)[g - 1] + i /\ all[k] = lists[g][i]
    BY <1>5
  <2>2. PICK i \in 1 .. Len(lists[g]) : k = Starts(lists)[g - 1] + i /\ all[k] = lists[g][i]
    BY <2>1
  <2>3. PICK h \in 1 .. L : \E j \in 1 .. Len(lists[h]) : l = Starts(lists)[h - 1] + j /\ all[l] = lists[h][j]
    BY <1>5
  <2>4. PICK j \in 1 .. Len(lists[h]) : l = Starts(lists)[h - 1] + j /\ all[l] = lists[h][j]
    BY <2>3
  <2> HIDE DEF all
  <2>5. lists[g][i] = lists[h][j]
    BY <1>6, <2>2, <2>4
  <2>6. g = h
    BY <1>4, <2>5
  <2>7. i = j
    <3> DEFINE s == lists[g]
    <3>1. s \in Seq(Nat) /\ (\A a, d \in 1 .. Len(s) : a < d => s[a] < s[d]) /\ s[i] = s[j]
          /\ i \in 1 .. Len(s) /\ j \in 1 .. Len(s)
      BY <1>3, <2>5, <2>6
    <3> HIDE DEF s
    <3>2. Len(s) \in Nat /\ s[i] \in Nat /\ s[j] \in Nat
      BY <3>1
    <3>3. ~(i < j) /\ ~(j < i)
      BY <3>1, <3>2
    <3> QED BY <3>1, <3>2, <3>3
  <2> QED BY <2>2, <2>4, <2>6, <2>7
<1>7. m \in Seq(Nat) /\ IsAscending(m) /\ Elements(m) = Elements(all)
  BY <1>1, <1>6, MergedIs
<1>8. all \in Seq(Nat)
  BY <1>1, JoinedAt
<1> HIDE DEF all
<1>9. DOMAIN all = 1 .. Len(all) /\ \A h \in 1 .. L : DOMAIN lists[h] = 1 .. Len(lists[h])
  BY <1>3, <1>8
<1>10. \A h \in 1 .. L : \A j \in 1 .. Len(lists[h]) : \E k \in 1 .. Len(all) : all[k] = lists[h][j]
  BY <1>1, JoinedHas DEF L, all
<1>11. ASSUME NEW x \in Elements(all) PROVE x \in expected
  <2>1. PICK k \in 1 .. Len(all) : x = all[k]
    BY <1>9 DEF Elements
  <2>2. PICK h \in 1 .. L : \E j \in 1 .. Len(lists[h]) : all[k] = lists[h][j]
    BY <1>5
  <2>3. PICK j \in 1 .. Len(lists[h]) : all[k] = lists[h][j]
    BY <2>2
  <2>4. IsKey(c[h]) /\ b <= c[h] /\ c[h] <= e /\ lists[h] = TrieList(t, c[h])
    BY <1>1
  <2>5. x \in Elements(lists[h])
    BY <1>9, <2>1, <2>3 DEF Elements
  <2>6. c[h] \in Keys
    <3>1. ASSUME c[h] \notin Keys PROVE FALSE
      <4>1. lists[h] = <<>>
        BY <2>4, <3>1, Zenon DEF Distinct
      <4> QED BY <2>3, <4>1
    <3> QED BY <3>1
  <2>7. c[h] \in Between(b, e)
    BY <2>4, <2>6 DEF Between
  <2> QED BY <2>4, <2>5, <2>7
<1>12. ASSUME NEW x \in expected PROVE x \in Elements(all)
  <2>1. PICK k \in Between(b, e) : x \in Elements(TrieList(t, k))
    BY <1>12
  <2>2. IsKey(k) /\ b <= k /\ k <= e
    BY <2>1, KeysAssumption DEF Between, IsKey
  <2>3. TrieList(t, k) # <<>>
    BY <2>1 DEF Elements
  <2>4. PICK h \in 1 .. L : c[h] = k
    BY <1>2, <2>2, <2>3
  <2>5. lists[h] = TrieList(t, k)
    BY <1>1, <2>4
  <2>6. PICK j \in 1 .. Len(lists[h]) : x = lists[h][j]
    BY <1>9, <2>1, <2>5 DEF Elements
  <2>7. PICK i \in 1 .. Len(all) : all[i] = lists[h][j]
    BY <1>10, <2>6
  <2> QED BY <1>9, <2>6, <2>7 DEF Elements
<1>13. Elements(m) = expected
  BY <1>7, <1>11, <1>12
<1> QED BY <1>7, <1>13

\* What a query of what a trie wrote should return.
QueriedExactly(t, b, e) ==
    LET found == TrieQuery(TrieWrite(t), b, e)
        expected == UNION {Elements(TrieList(t, k)) : k \in Between(b, e)}
    IN  IsListOf(found, expected) \/ (found = NoList /\ expected = {})

\* A query of what a trie wrote is exact.
LEMMA QueryExact ==
    ASSUME NEW t, IsTrie(t), NEW v, Distinct(t, v), NEW b, IsKey(b), NEW e, IsKey(e)
    PROVE  QueriedExactly(t, b, e)
<1> DEFINE r == Renumbered(t)
           found == TrieQuery(TrieWrite(t), b, e)
           Values(u) == UNION {Elements(TrieList(u, k)) : k \in Between(b, e)}
<1>1. PICK lv, pf : TrieOK(t, lv, pf)
  BY DEF IsTrie
<1> DEFINE lv2 == [i \in 1 .. Len(t.node) |-> lv[OrderOf(t)[i]]]
           pf2 == [i \in 1 .. Len(t.node) |-> pf[OrderOf(t)[i]]]
<1>2. TrieOK(r, lv2, pf2)
  BY <1>1, RenumberedOK
<1>3. Len(r.node) = Len(t.node) /\ \A k : IsKey(k) => TrieList(r, k) = TrieList(t, k)
  BY <1>1, RenumberedLists
<1>4. \A j \in 1 .. Len(t.node) : OrderOf(r)[j] = j
  BY <1>1, RenumberedOrder
<1>5. TrieWrite(r) = TrieWrite(t)
  BY <1>1, RenumberedSame
<1> HIDE DEF r, lv2, pf2
<1>6. Ordered(r)
  BY <1>3, <1>4 DEF Ordered
<1>7. Distinct(r, v)
  <2>1. \A k : IsKey(k) => TrieList(r, k) = TrieList(t, k)
    BY <1>3
  <2> QED BY <2>1, SameDistinct
<1>8. Values(r) = Values(t)
  <2>1. \A k \in Between(b, e) : IsKey(k)
    BY KeysAssumption DEF Between, IsKey
  <2> QED BY <1>3, <2>1
<1>9. b \in Nat /\ e \in Nat
  BY DEF IsKey
<1>10. CASE \E c, lists : Answer(r, b, e, c, lists) /\ found = Merged(lists)
  <2>1. PICK c, lists : Answer(r, b, e, c, lists) /\ found = Merged(lists)
    BY <1>10
  <2>2. found \in Seq(Nat) /\ IsAscending(found) /\ Elements(found) = Values(r)
    BY <1>7, <1>9, <2>1, MergedExact
  <2> HIDE DEF found, Values
  <2>3. found # NoList
    BY <2>2, NoListAssumption
  <2>4. DOMAIN found = 1 .. Len(found)
    BY <2>2
  <2>5. \A i, j \in DOMAIN found : i < j => found[i] < found[j]
    BY <2>2, <2>4 DEF IsAscending
  <2>6. {found[i] : i \in DOMAIN found} = Values(t)
    BY <1>8, <2>2 DEF Elements
  <2>7. IsListOf(found, Values(t))
    BY <2>3, <2>5, <2>6 DEF IsListOf
  <2> QED BY <2>7 DEF found, Values, QueriedExactly
<1>11. CASE /\ found = NoList
            /\ \A x : (IsKey(x) /\ b <= x /\ x <= e) => TrieList(r, x) = <<>>
  <2>1. ASSUME NEW k \in Between(b, e) PROVE Elements(TrieList(t, k)) = {}
    <3>1. IsKey(k) /\ b <= k /\ k <= e
      BY KeysAssumption DEF Between, IsKey
    <3>2. TrieList(t, k) = <<>>
      BY <1>3, <1>11, <3>1
    <3> QED BY <3>2 DEF Elements
  <2>2. Values(t) = {}
    BY <2>1
  <2> QED BY <1>11, <2>2 DEF QueriedExactly
<1>12. \/ \E c, lists : Answer(r, b, e, c, lists) /\ found = Merged(lists)
       \/ /\ found = NoList
          /\ \A x : (IsKey(x) /\ b <= x /\ x <= e) => TrieList(r, x) = <<>>
  <2>1. \/ \E c, lists : Answer(r, b, e, c, lists) /\ TrieQuery(TrieWrite(r), b, e) = Merged(lists)
        \/ /\ TrieQuery(TrieWrite(r), b, e) = NoList
           /\ \A x : (IsKey(x) /\ b <= x /\ x <= e) => TrieList(r, x) = <<>>
    BY <1>2, <1>6, QueryAnswers
  <2> QED BY <1>5, <2>1
<1> QED BY <1>10, <1>11, <1>12

\* Above the trie's invariant: the lists hold each value once and in ascending order, in
\* the index and in the trie the file was written from.
SavedDistinct ==
    \E t : IsTrie(t) /\ file = TrieWrite(t) /\ saved = Lists(t) /\ Distinct(t, value)
QueryInv == Inv /\ (kind = "trie" => Distinct(index, value) /\ (file # NoFile => SavedDistinct))

\* A new trie has no values.
LEMMA NewDistinct == ASSUME NEW v PROVE Distinct(NewTrie, v)
<1>1. \A k : IsKey(k) => TrieList(NewTrie, k) = <<>>
  BY NewTrieOK
<1>2. <<>> \in Seq(Nat) /\ IsAscending(<<>>) /\ \A i \in 1 .. Len(<<>>) : <<>>[i] <= v
  BY DEF IsAscending
<1>3. ASSUME NEW k, IsKey(k)
      PROVE  /\ TrieList(NewTrie, k) \in Seq(Nat) /\ IsAscending(TrieList(NewTrie, k))
             /\ \A i \in 1 .. Len(TrieList(NewTrie, k)) : TrieList(NewTrie, k)[i] <= v
  <2>1. TrieList(NewTrie, k) = <<>>
    BY <1>1, <1>3
  <2> QED BY <1>2, <2>1
<1>4. ASSUME NEW k, NEW l, IsKey(k), IsKey(l), k # l
      PROVE  \A i \in 1 .. Len(TrieList(NewTrie, k)) : \A j \in 1 .. Len(TrieList(NewTrie, l)) :
               TrieList(NewTrie, k)[i] # TrieList(NewTrie, l)[j]
  <2>1. TrieList(NewTrie, k) = <<>>
    BY <1>1, <1>4
  <2> QED BY <2>1
<1>5. \A k : (IsKey(k) /\ k \notin Keys) => TrieList(NewTrie, k) = <<>>
  BY <1>1
<1> QED BY <1>3, <1>4, <1>5, Zenon DEF Distinct

\* The bound on the values may grow.
LEMMA DistinctGrows ==
    ASSUME NEW t, NEW v \in Nat, Distinct(t, v)
    PROVE  Distinct(t, v + 1)
<1>1. ASSUME NEW k, IsKey(k)
      PROVE  /\ TrieList(t, k) \in Seq(Nat) /\ IsAscending(TrieList(t, k))
             /\ \A i \in 1 .. Len(TrieList(t, k)) : TrieList(t, k)[i] <= v + 1
  <2>1. /\ TrieList(t, k) \in Seq(Nat) /\ IsAscending(TrieList(t, k))
        /\ \A i \in 1 .. Len(TrieList(t, k)) : TrieList(t, k)[i] <= v
    BY <1>1, Zenon DEF Distinct
  <2> DEFINE s == TrieList(t, k)
  <2> HIDE DEF s
  <2>2. s \in Seq(Nat) /\ \A i \in 1 .. Len(s) : s[i] <= v
    BY <2>1 DEF s
  <2>3. \A i \in 1 .. Len(s) : s[i] \in Nat
    BY <2>2
  <2>4. \A i \in 1 .. Len(s) : s[i] <= v + 1
    BY <2>2, <2>3
  <2> QED BY <2>1, <2>4 DEF s
<1>2. \A k, l : (IsKey(k) /\ IsKey(l) /\ k # l) =>
        \A i \in 1 .. Len(TrieList(t, k)) : \A j \in 1 .. Len(TrieList(t, l)) :
          TrieList(t, k)[i] # TrieList(t, l)[j]
  BY Zenon DEF Distinct
<1>3. \A k : (IsKey(k) /\ k \notin Keys) => TrieList(t, k) = <<>>
  BY Zenon DEF Distinct
<1> QED BY <1>1, <1>2, <1>3, Zenon DEF Distinct

\* addItem of a value greater than all that are there keeps them distinct.
LEMMA AddDistinct ==
    ASSUME NEW t, IsTrie(t), NEW v \in Nat, Distinct(t, v), NEW key \in Keys
    PROVE  Distinct(TrieAdd(t, key, v + 1), v + 1)
<1> DEFINE new == TrieAdd(t, key, v + 1)
<1>1. IsKey(key) /\ v + 1 \in Nat
  BY KeysAssumption DEF IsKey
<1>2. TrieList(new, key) = Append(TrieList(t, key), v + 1)
  BY <1>1, TrieAddOK
<1>3. \A k : IsKey(k) /\ k # key => TrieList(new, k) = TrieList(t, k)
  <2>1. ASSUME NEW k, IsKey(k), k # key PROVE TrieList(new, k) = TrieList(t, k)
    BY <1>1, <2>1, TrieAddOK, SMT
  <2> QED BY <2>1
<1> HIDE DEF new
<1>4. \A k : IsKey(k) => /\ TrieList(t, k) \in Seq(Nat) /\ IsAscending(TrieList(t, k))
                         /\ \A i \in 1 .. Len(TrieList(t, k)) : TrieList(t, k)[i] <= v
  BY Zenon DEF Distinct
<1>5. \A k : IsKey(k) => \A i \in 1 .. Len(TrieList(t, k)) :
        TrieList(t, k)[i] \in Nat /\ TrieList(t, k)[i] < v + 1 /\ TrieList(t, k)[i] # v + 1
  <2> TAKE k
  <2> HAVE IsKey(k)
  <2> DEFINE s == TrieList(t, k)
  <2> HIDE DEF s
  <2>1. s \in Seq(Nat) /\ \A i \in 1 .. Len(s) : s[i] <= v
    BY <1>4 DEF s
  <2>2. \A i \in 1 .. Len(s) : s[i] \in Nat
    BY <2>1
  <2>3. \A i \in 1 .. Len(s) : s[i] \in Nat /\ s[i] < v + 1 /\ s[i] # v + 1
    BY <2>1, <2>2
  <2> QED BY <2>3 DEF s
<1>6. \A i \in 1 .. Len(TrieList(new, key)) :
        TrieList(new, key)[i] = v + 1 \/ \E j \in 1 .. Len(TrieList(t, key)) : TrieList(new, key)[i] = TrieList(t, key)[j]
  <2> DEFINE s == TrieList(t, key)
             n == TrieList(new, key)
  <2> HIDE DEF s, n
  <2>1. s \in Seq(Nat) /\ n = Append(s, v + 1)
    BY <1>1, <1>2, <1>4 DEF s, n
  <2>2. Len(s) \in Nat /\ Len(n) = Len(s) + 1 /\ n[Len(s) + 1] = v + 1 /\ \A j \in 1 .. Len(s) : n[j] = s[j]
    BY <2>1
  <2>3. \A i \in 1 .. Len(n) : n[i] = v + 1 \/ \E j \in 1 .. Len(s) : n[i] = s[j]
    BY <2>2
  <2> QED BY <2>3 DEF s, n
<1>7. /\ TrieList(new, key) \in Seq(Nat) /\ IsAscending(TrieList(new, key))
      /\ \A i \in 1 .. Len(TrieList(new, key)) : TrieList(new, key)[i] <= v + 1
  <2>1. TrieList(t, key) \in Seq(Nat) /\ IsAscending(TrieList(t, key))
    BY <1>1, <1>4
  <2>2. \A j \in 1 .. Len(TrieList(t, key)) : TrieList(t, key)[j] < v + 1
    BY <1>1, <1>5
  <2>3. IsAscending(TrieList(new, key))
    BY <1>1, <1>2, <2>1, <2>2, AscendingGrows
  <2>4. TrieList(new, key) \in Seq(Nat)
    BY <1>1, <1>2, <2>1
  <2>5. \A i \in 1 .. Len(TrieList(new, key)) : TrieList(new, key)[i] <= v + 1
    <3>1. \A j \in 1 .. Len(TrieList(t, key)) : TrieList(t, key)[j] <= v + 1
      BY <1>1, <1>5
    <3> QED BY <1>1, <1>6, <3>1
  <2> QED BY <2>3, <2>4, <2>5
<1>8. ASSUME NEW k, IsKey(k)
      PROVE  /\ TrieList(new, k) \in Seq(Nat) /\ IsAscending(TrieList(new, k))
             /\ \A i \in 1 .. Len(TrieList(new, k)) : TrieList(new, k)[i] <= v + 1
  <2>1. CASE k = key
    BY <1>7, <2>1
  <2>2. CASE k # key
    <3>1. TrieList(new, k) = TrieList(t, k)
      BY <1>3, <1>8, <2>2
    <3>2. \A i \in 1 .. Len(TrieList(t, k)) : TrieList(t, k)[i] <= v + 1
      BY <1>1, <1>5, <1>8
    <3> QED BY <1>4, <1>8, <3>1, <3>2
  <2> QED BY <2>1, <2>2
<1>9. \A k, l : (IsKey(k) /\ IsKey(l) /\ k # l) =>
        \A i \in 1 .. Len(TrieList(t, k)) : \A j \in 1 .. Len(TrieList(t, l)) :
          TrieList(t, k)[i] # TrieList(t, l)[j]
  BY Zenon DEF Distinct
<1>10. ASSUME NEW l, IsKey(l), l # key
       PROVE  \A i \in 1 .. Len(TrieList(new, key)) : \A j \in 1 .. Len(TrieList(new, l)) :
                TrieList(new, key)[i] # TrieList(new, l)[j]
  <2>1. TrieList(new, l) = TrieList(t, l)
    BY <1>3, <1>10
  <2>2. \A i \in 1 .. Len(TrieList(t, key)) : \A j \in 1 .. Len(TrieList(t, l)) :
          TrieList(t, key)[i] # TrieList(t, l)[j]
    BY <1>1, <1>9, <1>10
  <2>3. \A j \in 1 .. Len(TrieList(t, l)) : TrieList(t, l)[j] # v + 1
    BY <1>5, <1>10
  <2> QED BY <1>6, <2>1, <2>2, <2>3
<1>11. ASSUME NEW k, NEW l, IsKey(k), IsKey(l), k # l
       PROVE  \A i \in 1 .. Len(TrieList(new, k)) : \A j \in 1 .. Len(TrieList(new, l)) :
                TrieList(new, k)[i] # TrieList(new, l)[j]
  <2>1. CASE k = key
    BY <1>10, <1>11, <2>1
  <2>2. CASE l = key
    BY <1>10, <1>11, <2>2
  <2>3. CASE k # key /\ l # key
    <3>1. TrieList(new, k) = TrieList(t, k) /\ TrieList(new, l) = TrieList(t, l)
      BY <1>3, <1>11, <2>3
    <3>2. \A i \in 1 .. Len(TrieList(t, k)) : \A j \in 1 .. Len(TrieList(t, l)) :
            TrieList(t, k)[i] # TrieList(t, l)[j]
      BY <1>9, <1>11
    <3> QED BY <3>1, <3>2
  <2> QED BY <2>1, <2>2, <2>3
<1>12. ASSUME NEW k, IsKey(k), k \notin Keys PROVE TrieList(new, k) = <<>>
  <2>1. TrieList(t, k) = <<>>
    BY <1>12, Zenon DEF Distinct
  <2>2. k # key
    BY <1>12
  <2> QED BY <1>3, <1>12, <2>1, <2>2
<1>13. Distinct(new, v + 1)
  BY <1>8, <1>11, <1>12, Zenon DEF Distinct
<1> QED BY <1>13 DEF new

\* The invariant holds at the start.
LEMMA InitQueryInv == Init => QueryInv
<1> SUFFICES ASSUME Init PROVE QueryInv
  OBVIOUS
<1>1. Inv
  BY InitInv
<1>2. ASSUME kind = "trie" PROVE Distinct(index, value) /\ file = NoFile
  BY <1>2, NewDistinct DEF Init, NewIndex
<1> QED BY <1>1, <1>2 DEF QueryInv

\* Every step keeps it.
LEMMA NextQueryInv == QueryInv /\ [Next]_vars => QueryInv'
<1> SUFFICES ASSUME QueryInv, [Next]_vars PROVE QueryInv'
  OBVIOUS
<1>1. Inv'
  BY NextInv DEF QueryInv
<1>2. SUFFICES ASSUME kind' = "trie"
               PROVE  Distinct(index', value') /\ (file' # NoFile => SavedDistinct')
  BY <1>1 DEF QueryInv
<1>3. kind = "trie"
  BY <1>2 DEF Next, AddItem, Write, Read, vars
<1>4. Distinct(index, value) /\ (file # NoFile => SavedDistinct) /\ TrieInv /\ value \in Nat
  <2>1. value \in 0 .. MaxAdds[kind] /\ kind \in Kinds
    BY DEF QueryInv, Inv, BaseInv
  <2>2. value \in Nat
    BY <2>1, BoundsAssumption
  <2> QED BY <1>3, <2>2 DEF QueryInv, Inv
<1>5. ASSUME NEW k \in Keys, AddItem(k)
      PROVE  Distinct(index', value') /\ (file' # NoFile => SavedDistinct')
  <2>1. /\ index' = TrieAdd(index, k, value + 1) /\ value' = value + 1
        /\ file' = file /\ saved' = saved
    BY <1>3, <1>5 DEF AddItem, Map!Add
  <2>2. Distinct(index', value')
    BY <1>4, <2>1, AddDistinct DEF TrieInv
  <2>3. ASSUME file' # NoFile PROVE SavedDistinct'
    <3>1. PICK t : IsTrie(t) /\ file = TrieWrite(t) /\ saved = Lists(t) /\ Distinct(t, value)
      BY <1>4, <2>1, <2>3 DEF SavedDistinct
    <3>2. Distinct(t, value + 1)
      BY <1>4, <3>1, DistinctGrows
    <3> QED BY <2>1, <3>1, <3>2 DEF SavedDistinct, Lists
  <2> QED BY <2>2, <2>3
<1>6. ASSUME Write PROVE Distinct(index', value') /\ (file' # NoFile => SavedDistinct')
  <2>1. /\ file' = TrieWrite(index) /\ index' = NewTrie /\ saved' = pending /\ value' = value
    BY <1>3, <1>6 DEF Write, NewIndex, Map!Write, Map!Nothing
  <2>2. Distinct(index', value')
    BY <2>1, NewDistinct
  <2>3. IsTrie(index) /\ pending = Lists(index)
    BY <1>4 DEF TrieInv
  <2> QED BY <1>4, <2>1, <2>2, <2>3 DEF SavedDistinct, Lists
<1>7. ASSUME Read PROVE Distinct(index', value') /\ (file' # NoFile => SavedDistinct')
  <2>1. file # NoFile /\ index' = TrieRead(file) /\ UNCHANGED <<file, saved, value>>
    BY <1>3, <1>7 DEF Read, Load, Map!Read
  <2>2. PICK t : IsTrie(t) /\ file = TrieWrite(t) /\ saved = Lists(t) /\ Distinct(t, value)
    BY <1>4, <2>1 DEF SavedDistinct
  <2>3. PICK lv, pf : TrieOK(t, lv, pf)
    BY <2>2 DEF IsTrie
  <2>4. TrieRead(file) = Renumbered(t)
    BY <2>2, <2>3, TrieReadIs
  <2>5. \A k : IsKey(k) => TrieList(Renumbered(t), k) = TrieList(t, k)
    BY <2>3, RenumberedLists
  <2>6. Distinct(Renumbered(t), value)
    BY <2>2, <2>5, SameDistinct
  <2> QED BY <2>1, <2>2, <2>4, <2>6 DEF SavedDistinct, Lists
<1>8. CASE UNCHANGED vars
  BY <1>4, <1>8 DEF vars, SavedDistinct, Lists
<1> QED BY <1>5, <1>6, <1>7, <1>8 DEF Next

\* A query of a saved trie finds the values of the keys between its bounds and no others,
\* in ascending order, for any keys, any bounds and any sizes.
THEOREM TrieQueryIsExact == Spec => []TrieQueryExact
<1>1. QueryInv => TrieQueryExact
  <2> SUFFICES ASSUME QueryInv, kind = "trie", Saved, NEW r \in Ranges
               PROVE  \/ IsListOf(TrieQuery(file, r[1], r[2]), Expected(r[1], r[2]))
                      \/ TrieQuery(file, r[1], r[2]) = NoList /\ Expected(r[1], r[2]) = {}
    BY DEF TrieQueryExact
  <2>1. PICK t : IsTrie(t) /\ file = TrieWrite(t) /\ saved = Lists(t) /\ Distinct(t, value)
    BY DEF QueryInv, Saved, SavedDistinct
  <2>2. IsKey(r[1]) /\ IsKey(r[2])
    BY QueriesAssumption DEF Ranges, IsKey
  <2>3. QueriedExactly(t, r[1], r[2])
    BY <2>1, <2>2, QueryExact
  <2>4. Expected(r[1], r[2]) = UNION {Elements(TrieList(t, k)) : k \in Between(r[1], r[2])}
    <3>1. \A k \in Between(r[1], r[2]) : saved[k] = TrieList(t, k)
      BY <2>1 DEF Lists, Between
    <3>2. Expected(r[1], r[2]) = UNION {Elements(saved[k]) : k \in Between(r[1], r[2])}
      BY DEF Expected, Elements, Between
    <3> QED BY <3>1, <3>2
  <2> QED BY <2>1, <2>3, <2>4 DEF QueriedExactly
<1> QED BY <1>1, InitQueryInv, NextQueryInv, PTL DEF Spec
=============================================================================
