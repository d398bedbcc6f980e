----------------------------- MODULE DataLemmas -----------------------------
(***************************************************************************)
(* Lemmas about numbers and sequences that the proofs about loops, sums    *)
(* and pointer chains rest on: induction, stated with sets instead of      *)
(* operators, the functions it defines, and sequences element by element.  *)
(***************************************************************************)
EXTENDS Integers, Sequences, FiniteSets, Paths, SequenceTheorems, FiniteSetTheorems,
        WellFoundedInduction, TLAPS

-----------------------------------------------------------------------------
(* Numbers *)

\* A nonempty set of naturals has a least element: the loop over a bucket
\* that stops at the first match stops somewhere.
LEMMA LeastNatural ==
    ASSUME NEW S, S \subseteq Nat, S # {}
    PROVE  \E i \in S : \A j \in S : i <= j
<1> DEFINE T == {0 .. i : i \in S}
           Ord == StrictSubsetOrdering(Nat)
<1>1. T \subseteq FiniteSubsetsOf(Nat)
  <2>1. ASSUME NEW i \in S PROVE 0 .. i \in SUBSET Nat /\ IsFiniteSet(0 .. i)
    <3>1. i \in Int /\ 0 \in Int
      OBVIOUS
    <3> QED BY <3>1, FS_Interval
  <2> QED BY <2>1 DEF FiniteSubsetsOf
<1>2. IsWellFoundedOn(Ord, FiniteSubsetsOf(Nat))
  BY FS_StrictSubsetOrderingWellFounded
<1>3. T # {}
  OBVIOUS
<1>4. PICK x \in T : \A y \in T : <<y, x>> \notin Ord
  <2> HIDE DEF T, Ord
  <2> QED BY <1>1, <1>2, <1>3, WFMin, Zenon
<1>5. PICK i \in S : x = 0 .. i
  OBVIOUS
<1>6. ASSUME NEW j \in S, j < i PROVE FALSE
  <2>1. 0 .. j \subseteq 0 .. i /\ i \in 0 .. i /\ i \notin 0 .. j
    BY <1>6
  <2>2. <<0 .. j, 0 .. i>> \in Ord
    BY <2>1 DEF StrictSubsetOrdering
  <2> QED BY <1>4, <1>5, <2>2
<1> QED BY <1>6

\* A set that contains 0 and with each number below N the next one contains
\* all numbers up to N: for a property of numbers, take the set that has it.
LEMMA InductionUpTo ==
    ASSUME NEW N \in Nat, NEW S, 0 \in S,
           \A n \in 0 .. N - 1 : n \in S => n + 1 \in S
    PROVE  0 .. N \subseteq S
<1> SUFFICES ASSUME 0 .. N \ S # {} PROVE FALSE
  OBVIOUS
<1>1. 0 .. N \ S \subseteq Nat
  OBVIOUS
<1>2. PICK i \in 0 .. N \ S : \A j \in 0 .. N \ S : i <= j
  BY <1>1, LeastNatural
<1>3. i # 0 /\ i - 1 \in 0 .. N - 1 /\ i - 1 + 1 = i
  BY <1>2
<1>4. i - 1 \notin 0 .. N \ S
  BY <1>2, <1>3
<1> QED BY <1>2, <1>3, <1>4

\* f is the function on 0 .. N that recursion makes of base and step.
Recursive(f, N, S, base, step) ==
    /\ f \in [0 .. N -> S]
    /\ f[0] = base
    /\ \A i \in 1 .. N : f[i] = step[i][f[i - 1]]

\* A recursive definition over 0 .. N has a solution, when one step of it is a
\* function from what it has so far.
LEMMA RecursionUpTo ==
    ASSUME NEW N \in Nat, NEW S, NEW base \in S, NEW step \in [Nat -> [S -> S]]
    PROVE  \E f : Recursive(f, N, S, base, step)
<1> DEFINE Solves(f, n) ==
             f[0] = base /\ \A i \in 1 .. n : f[i] = step[i][f[i - 1]]
           T == {n \in 0 .. N : \E f \in [0 .. n -> S] : Solves(f, n)}
<1>1. 0 \in T
  <2> DEFINE f == [i \in 0 .. 0 |-> base]
  <2>1. f \in [0 .. 0 -> S] /\ Solves(f, 0)
    BY SMT
  <2> HIDE DEF f
  <2>2. \E h \in [0 .. 0 -> S] : Solves(h, 0)
    BY <2>1
  <2> QED BY <2>2
<1>2. ASSUME NEW n \in 0 .. N - 1, n \in T PROVE n + 1 \in T
  <2>1. PICK f \in [0 .. n -> S] : Solves(f, n)
    BY <1>2
  <2> DEFINE g == [i \in 0 .. n + 1 |-> IF i <= n THEN f[i] ELSE step[n + 1][f[n]]]
  <2>2. g \in [0 .. n + 1 -> S]
    <3>1. f[n] \in S /\ step[n + 1][f[n]] \in S
      OBVIOUS
    <3> QED BY <3>1
  <2>3. g[0] = base
    BY <2>1
  <2>4. ASSUME NEW i \in 1 .. n + 1 PROVE g[i] = step[i][g[i - 1]]
    <3>1. CASE i \in 1 .. n
      <4>1. g[i] = f[i] /\ g[i - 1] = f[i - 1]
        BY <3>1
      <4> QED BY <2>1, <3>1, <4>1
    <3>2. CASE i = n + 1
      <4>1. i - 1 = n /\ n \in 0 .. n + 1 /\ ~(n + 1 <= n)
        BY <3>2
      <4>2. g[i] = step[n + 1][f[n]] /\ g[i - 1] = f[n]
        BY <3>2, <4>1
      <4> QED BY <3>2, <4>1, <4>2
    <3> QED BY <3>1, <3>2
  <2>5. n + 1 \in 0 .. N
    OBVIOUS
  <2> HIDE DEF g
  <2>6. \E h \in [0 .. n + 1 -> S] : Solves(h, n + 1)
    BY <2>2, <2>3, <2>4
  <2> QED BY <2>5, <2>6
<1>3. 0 .. N \subseteq T
  <2> HIDE DEF T
  <2> QED BY <1>1, <1>2, InductionUpTo
<1>4. N \in T
  BY <1>3
<1> QED BY <1>4 DEF Recursive

\* step describes a loop of N turns, the i-th of which leads from the states good[i - 1]
\* to good[i]; f is the function that gives the state after each turn.
Loop(N, U, good, base, step) ==
    /\ N \in Nat /\ good \in [0 .. N -> SUBSET U] /\ base \in good[0]
    /\ \A i \in 1 .. N : \A s \in good[i - 1] : step[i][s] \in good[i]

Runs(f, N, U, good, base, step) ==
    /\ f \in [0 .. N -> U]
    /\ f[0] = base
    /\ \A i \in 1 .. N : f[i - 1] \in good[i - 1] /\ f[i] = step[i][f[i - 1]]

\* There is such a function: the recursive definition of the loop has a solution.
LEMMA LoopSolved ==
    ASSUME NEW N, NEW U, NEW good, NEW base, NEW step, Loop(N, U, good, base, step)
    PROVE  \E f : Runs(f, N, U, good, base, step)
<1>0. /\ N \in Nat /\ good \in [0 .. N -> SUBSET U] /\ base \in good[0]
      /\ \A i \in 1 .. N : \A s \in good[i - 1] : step[i][s] \in good[i]
  BY DEF Loop
<1> DEFINE total == [i \in Nat |-> [s \in U |->
                       IF i \in 1 .. N /\ s \in good[i - 1] THEN step[i][s] ELSE s]]
<1>1. base \in U /\ total \in [Nat -> [U -> U]]
  <2>1. base \in U
    BY <1>0, 0 \in 0 .. N
  <2>2. ASSUME NEW i \in Nat, NEW s \in U, i \in 1 .. N, s \in good[i - 1]
        PROVE  step[i][s] \in U
    <3>1. step[i][s] \in good[i] /\ i \in 0 .. N
      BY <1>0, <2>2
    <3>2. good[i] \in SUBSET U
      BY <1>0, <3>1
    <3> QED BY <3>1, <3>2
  <2> QED BY <2>1, <2>2
<1> HIDE DEF total
<1>2. PICK f : Recursive(f, N, U, base, total)
  BY <1>0, <1>1, RecursionUpTo
<1>3. ASSUME NEW i \in 1 .. N, f[i - 1] \in good[i - 1]
      PROVE  f[i] = step[i][f[i - 1]] /\ f[i] \in good[i]
  <2>1. i - 1 \in 0 .. N /\ i \in Nat
    BY <1>0, <1>3
  <2>2. f[i - 1] \in U /\ f[i] = total[i][f[i - 1]]
    BY <1>2, <1>3, <2>1 DEF Recursive
  <2>3. total[i][f[i - 1]] = step[i][f[i - 1]]
    BY <1>3, <2>1, <2>2 DEF total
  <2> QED BY <1>0, <1>3, <2>2, <2>3
<1>4. \A i \in 0 .. N : f[i] \in good[i]
  <2> DEFINE T == {i \in 0 .. N : f[i] \in good[i]}
  <2>1. 0 \in T
    BY <1>0, <1>2 DEF Recursive
  <2>2. ASSUME NEW n \in 0 .. N - 1, n \in T PROVE n + 1 \in T
    <3>1. n + 1 \in 1 .. N /\ n + 1 \in 0 .. N /\ (n + 1) - 1 = n
      BY <1>0
    <3> QED BY <1>3, <2>2, <3>1
  <2> HIDE DEF T
  <2>3. 0 .. N \subseteq T
    BY <1>0, <2>1, <2>2, InductionUpTo
  <2> QED BY <2>3 DEF T
<1>5. \A i \in 1 .. N : f[i - 1] \in good[i - 1] /\ f[i] = step[i][f[i - 1]]
  BY <1>0, <1>3, <1>4
<1> QED BY <1>2, <1>5 DEF Recursive, Runs

\* What holds before a loop and is kept by every turn of it holds after each of them.
LEMMA LoopKeeps ==
    ASSUME NEW N \in Nat, NEW good, NEW f, f[0] \in good[0],
           \A i \in 1 .. N : f[i - 1] \in good[i - 1] => f[i] \in good[i]
    PROVE  \A i \in 0 .. N : f[i] \in good[i]
<1> DEFINE T == {i \in 0 .. N : f[i] \in good[i]}
<1>1. 0 \in T
  OBVIOUS
<1>2. ASSUME NEW n \in 0 .. N - 1, n \in T PROVE n + 1 \in T
  <2>1. n + 1 \in 1 .. N /\ n + 1 \in 0 .. N /\ (n + 1) - 1 = n
    OBVIOUS
  <2> QED BY <1>2, <2>1
<1> HIDE DEF T
<1>3. 0 .. N \subseteq T
  BY <1>1, <1>2, InductionUpTo
<1> QED BY <1>3 DEF T

\* An interval from 1 has as many elements as its end says.
LEMMA CardinalityUpTo ==
    ASSUME NEW n \in Nat
    PROVE  IsFiniteSet(1 .. n) /\ Cardinality(1 .. n) = n
<1>1. 1 \in Int /\ n \in Int
  OBVIOUS
<1>2. IsFiniteSet(1 .. n) /\ Cardinality(1 .. n) = IF 1 > n THEN 0 ELSE n - 1 + 1
  BY <1>1, FS_Interval
<1> QED BY <1>2

-----------------------------------------------------------------------------
(* Sequences *)

\* The sequence b without its element i.
Without(b, i) == SubSeq(b, 1, i - 1) \o SubSeq(b, i + 1, Len(b))

\* Taking one element out closes the gap and moves no other.
LEMMA WithoutAt ==
    ASSUME NEW S, NEW b \in Seq(S), NEW i \in 1 .. Len(b)
    PROVE  /\ Without(b, i) \in Seq(S)
           /\ Len(Without(b, i)) = Len(b) - 1
           /\ \A j \in 1 .. Len(b) - 1 : Without(b, i)[j] = b[IF j < i THEN j ELSE j + 1]
<1> DEFINE s == SubSeq(b, 1, i - 1)
           t == SubSeq(b, i + 1, Len(b))
           n == Len(b)
<1>0. n \in Nat /\ \A j \in 1 .. n : b[j] \in S
  BY LenProperties
<1>1. s \in Seq(S) /\ Len(s) = i - 1 /\ \A j \in 1 .. i - 1 : s[j] = b[j]
  <2>1. \A j \in 1 .. i - 1 : b[j] \in S
    BY <1>0
  <2>2. /\ s \in Seq(S) /\ Len(s) = IF 1 <= i - 1 THEN (i - 1) - 1 + 1 ELSE 0
        /\ \A j \in 1 .. (i - 1) - 1 + 1 : s[j] = b[1 + j - 1]
    BY <2>1, SubSeqProperties
  <2> HIDE DEF s
  <2> QED BY <1>0, <2>2
<1>2. t \in Seq(S) /\ Len(t) = n - i /\ \A j \in 1 .. n - i : t[j] = b[i + j]
  <2>1. \A j \in i + 1 .. n : b[j] \in S
    BY <1>0
  <2>2. /\ t \in Seq(S) /\ Len(t) = IF i + 1 <= n THEN n - (i + 1) + 1 ELSE 0
        /\ \A j \in 1 .. n - (i + 1) + 1 : t[j] = b[(i + 1) + j - 1]
    BY <1>0, <2>1, SubSeqProperties
  <2> HIDE DEF t
  <2> QED BY <1>0, <2>2
<1>3. /\ s \o t \in Seq(S) /\ Len(s \o t) = (i - 1) + (n - i)
      /\ \A j \in 1 .. (i - 1) + (n - i) :
            (s \o t)[j] = IF j <= i - 1 THEN s[j] ELSE t[j - (i - 1)]
  <2>1. /\ s \o t \in Seq(S) /\ Len(s \o t) = Len(s) + Len(t)
        /\ \A j \in 1 .. Len(s) + Len(t) :
              (s \o t)[j] = IF j <= Len(s) THEN s[j] ELSE t[j - Len(s)]
    <3> HIDE DEF s, t, n
    <3> QED BY <1>1, <1>2, ConcatProperties
  <2> QED BY <1>1, <1>2, <2>1
<1>4. ASSUME NEW j \in 1 .. n - 1 PROVE (s \o t)[j] = b[IF j < i THEN j ELSE j + 1]
  <2> HIDE DEF s, t
  <2>1. CASE j < i
    BY <1>0, <1>1, <1>3, <2>1
  <2>2. CASE ~(j < i)
    <3>1. j - (i - 1) \in 1 .. n - i /\ i + (j - (i - 1)) = j + 1
      BY <1>0, <2>2
    <3> QED BY <1>0, <1>2, <1>3, <2>2, <3>1
  <2> QED BY <2>1, <2>2
<1>5. Without(b, i) = s \o t
  BY DEF Without
<1> HIDE DEF s, t
<1> QED BY <1>0, <1>3, <1>4, <1>5

\* An element put in front moves every other one up.
LEMMA PrependAt ==
    ASSUME NEW S, NEW s \in Seq(S), NEW x \in S
    PROVE  /\ <<x>> \o s \in Seq(S)
           /\ Len(<<x>> \o s) = Len(s) + 1
           /\ \A i \in 1 .. Len(s) + 1 : (<<x>> \o s)[i] = IF i = 1 THEN x ELSE s[i - 1]
<1> DEFINE one == <<x>>
<1>1. one \in Seq(S) /\ Len(one) = 1 /\ one[1] = x /\ Len(s) \in Nat
  OBVIOUS
<1> HIDE DEF one
<1>2. /\ one \o s \in Seq(S) /\ Len(one \o s) = Len(one) + Len(s)
      /\ \A i \in 1 .. Len(one) + Len(s) :
            (one \o s)[i] = IF i <= Len(one) THEN one[i] ELSE s[i - Len(one)]
  BY <1>1, ConcatProperties
<1>3. ASSUME NEW i \in 1 .. Len(s) + 1
      PROVE  (one \o s)[i] = IF i = 1 THEN x ELSE s[i - 1]
  <2>1. (i <= 1) = (i = 1) /\ i \in 1 .. 1 + Len(s)
    BY <1>1
  <2> QED BY <1>1, <1>2, <2>1
<1>4. one \o s \in Seq(S) /\ Len(one \o s) = Len(s) + 1
  BY <1>1, <1>2
<1> QED BY <1>3, <1>4 DEF one

-----------------------------------------------------------------------------
(* Following a pointer *)

\* s is the list of nodes that next leads through from start, none twice.
IsPath(next, start, s) ==
    /\ s \in Seq(DOMAIN next)
    /\ \A i, j \in 1 .. Len(s) : s[i] = s[j] => i = j
    /\ start = IF s = <<>> THEN NULL ELSE s[1]
    /\ \A i \in 1 .. Len(s) : next[s[i]] = IF i < Len(s) THEN s[i + 1] ELSE NULL

\* A sequence without repetition is no longer than there are elements.
LEMMA OnceLength ==
    ASSUME NEW D, IsFiniteSet(D), NEW s \in Seq(D),
           \A i, j \in 1 .. Len(s) : s[i] = s[j] => i = j
    PROVE  Len(s) \in Nat /\ Len(s) <= Cardinality(D)
<1>1. Len(s) \in Nat /\ s \in [1 .. Len(s) -> D]
  BY LenProperties
<1>2. s \in Injection(1 .. Len(s), D)
  BY <1>1 DEF Injection, IsInjective
<1>3. Cardinality(1 .. Len(s)) = Len(s)
  BY <1>1, CardinalityUpTo
<1>4. Cardinality(1 .. Len(s)) <= Cardinality(D)
  BY <1>2, FS_Injection
<1> QED BY <1>1, <1>3, <1>4

\* Follow finds that list: with as many turns as there are nodes no path is cut.
LEMMA FollowPath ==
    ASSUME NEW D, IsFiniteSet(D), NULL \notin D, NEW next \in [D -> D \cup {NULL}],
           NEW start, NEW s, IsPath(next, start, s)
    PROVE  Follow(next, start) = s
<1> DEFINE P == D \cup {NULL}
           N == Cardinality(D)
           n == Len(s)
           Solves(f) == f = [k \in 0 .. N |-> [m \in P |->
                               IF k = 0 \/ m = NULL THEN <<>> ELSE <<m>> \o f[k - 1][next[m]]]]
           path == CHOOSE f : Solves(f)
           S == [P -> Seq(D)]
           base == [m \in P |-> <<>>]
           step == [k \in Nat |-> [g \in S |-> [m \in P |->
                      IF m = NULL THEN <<>> ELSE <<m>> \o g[next[m]]]]]
           rest(i) == [j \in 1 .. n - i + 1 |-> s[i + j - 1]]
<1>1. /\ N \in Nat /\ n \in 0 .. N /\ s \in Seq(D) /\ \A i \in 1 .. n : s[i] \in D
      /\ s = [i \in 1 .. n |-> s[i]]
  <2>1. s \in Seq(D) /\ \A i, j \in 1 .. Len(s) : s[i] = s[j] => i = j
    BY DEF IsPath
  <2>2. N \in Nat /\ n \in 0 .. N
    BY <2>1, OnceLength, FS_CardinalityType
  <2> QED BY <2>1, <2>2, LenProperties, ElementOfSeq
<1>2. \E f : Solves(f)
  <2>1. base \in S
    OBVIOUS
  <2>2. step \in [Nat -> [S -> S]]
    <3>1. ASSUME NEW g \in S, NEW m \in P, m # NULL PROVE <<m>> \o g[next[m]] \in Seq(D)
      <4>1. m \in D /\ next[m] \in P /\ g[next[m]] \in Seq(D)
        BY <3>1
      <4> QED BY <4>1, PrependAt
    <3> HIDE DEF P
    <3>2. ASSUME NEW g \in S
          PROVE  [m \in P |-> IF m = NULL THEN <<>> ELSE <<m>> \o g[next[m]]] \in S
      BY <3>1
    <3> QED BY <3>2
  <2> HIDE DEF base, step, S, N
  <2>3. PICK f : Recursive(f, N, S, base, step)
    BY <1>1, <2>1, <2>2, RecursionUpTo
  <2>4. ASSUME NEW k \in 0 .. N
        PROVE  f[k] = [m \in P |-> IF k = 0 \/ m = NULL THEN <<>>
                                   ELSE <<m>> \o f[k - 1][next[m]]]
    <3>1. CASE k = 0
      BY <2>3, <3>1 DEF Recursive, base
    <3>2. CASE k # 0
      <4>1. k \in 1 .. N /\ k - 1 \in 0 .. N /\ k \in Nat
        BY <1>1, <3>2
      <4>2. f[k] = step[k][f[k - 1]] /\ f[k - 1] \in S
        BY <2>3, <4>1 DEF Recursive
      <4>3. step[k][f[k - 1]]
              = [m \in P |-> IF m = NULL THEN <<>> ELSE <<m>> \o f[k - 1][next[m]]]
        BY <4>1, <4>2 DEF step
      <4> QED BY <3>2, <4>2, <4>3
    <3> QED BY <3>1, <3>2
  <2>5. f = [k \in 0 .. N |-> f[k]]
    BY <2>3 DEF Recursive
  <2> HIDE DEF P
  <2>6. Solves(f)
    BY <2>4, <2>5
  <2> QED BY <2>6
<1>3. Solves(path)
  BY <1>2
<1>4. \A k \in 0 .. N : \A m \in P :
         path[k][m] = IF k = 0 \/ m = NULL THEN <<>> ELSE <<m>> \o path[k - 1][next[m]]
  <2>1. ASSUME NEW k \in 0 .. N
        PROVE  path[k] = [m \in P |-> IF k = 0 \/ m = NULL THEN <<>>
                                      ELSE <<m>> \o path[k - 1][next[m]]]
    <3> HIDE DEF path, N, P
    <3> QED BY <1>3
  <2>2. ASSUME NEW k \in 0 .. N, NEW m \in P
        PROVE  path[k][m] = IF k = 0 \/ m = NULL THEN <<>> ELSE <<m>> \o path[k - 1][next[m]]
    <3> HIDE DEF path, N, P
    <3> QED BY <2>1
  <2> HIDE DEF path, N, P
  <2> QED BY <2>2
<1>5. ASSUME NEW i \in 1 .. n
      PROVE  rest(i) = <<s[i]>> \o IF i < n THEN rest(i + 1) ELSE <<>>
  <2> DEFINE r == IF i < n THEN rest(i + 1) ELSE <<>>
  <2>1. r \in Seq(D) /\ Len(r) = n - i /\ \A j \in 1 .. n - i : r[j] = s[i + j]
    <3>1. CASE i < n
      <4> DEFINE g == rest(i + 1)
                 z == n - i
      <4>1. g \in [1 .. z -> D] /\ z \in Nat
        BY <1>1, <3>1
      <4>2. g \in Seq(D) /\ Len(g) = z
        <5> HIDE DEF g, z
        <5> QED BY <4>1
      <4>3. \A j \in 1 .. n - i : rest(i + 1)[j] = s[i + j]
        BY <1>1, <3>1
      <4> QED BY <3>1, <4>2, <4>3
    <3>2. CASE i = n
      BY <1>1, <3>2
    <3> QED BY <1>1, <3>1, <3>2
  <2> HIDE DEF r
  <2>2. s[i] \in D
    BY <1>1
  <2>3. /\ <<s[i]>> \o r \in Seq(D) /\ Len(<<s[i]>> \o r) = n - i + 1
        /\ \A j \in 1 .. n - i + 1 : (<<s[i]>> \o r)[j] = IF j = 1 THEN s[i] ELSE r[j - 1]
    <3>1. n - i = Len(r) /\ r \in Seq(D)
      BY <2>1
    <3>2. /\ <<s[i]>> \o r \in Seq(D) /\ Len(<<s[i]>> \o r) = Len(r) + 1
          /\ \A j \in 1 .. Len(r) + 1 :
                (<<s[i]>> \o r)[j] = IF j = 1 THEN s[i] ELSE r[j - 1]
      BY <2>2, <3>1, PrependAt
    <3> QED BY <3>1, <3>2
  <2>4. \A j \in 1 .. n - i + 1 : (<<s[i]>> \o r)[j] = rest(i)[j]
    <3> TAKE j \in 1 .. n - i + 1
    <3>1. rest(i)[j] = s[i + j - 1]
      OBVIOUS
    <3>2. CASE j = 1
      BY <1>1, <2>3, <3>1, <3>2
    <3>3. CASE j # 1
      <4>1. j - 1 \in 1 .. n - i /\ i + (j - 1) = i + j - 1
        BY <1>1, <3>3
      <4> QED BY <2>1, <2>3, <3>1, <3>3, <4>1
    <3> QED BY <3>2, <3>3
  <2> DEFINE q == <<s[i]>> \o r
  <2>5. q = [j \in 1 .. n - i + 1 |-> q[j]]
    BY <2>3, LenProperties
  <2> HIDE DEF q
  <2>6. q = rest(i)
    BY <2>4, <2>5 DEF q
  <2> QED BY <2>6 DEF q, r
<1> HIDE DEF rest
<1>6. \A i \in 1 .. n : n - i < N => path[N][s[i]] = rest(i)
  <2> DEFINE T == {k \in 0 .. N : \A i \in 1 .. n : n - i < k => path[k][s[i]] = rest(i)}
  <2> HIDE DEF path
  <2>1. 0 \in T
    BY <1>1
  <2>2. ASSUME NEW k \in 0 .. N - 1, k \in T PROVE k + 1 \in T
    <3> SUFFICES ASSUME NEW i \in 1 .. n, n - i < k + 1 PROVE path[k + 1][s[i]] = rest(i)
      BY <1>1
    <3>1. /\ s[i] \in P /\ s[i] # NULL /\ next[s[i]] = IF i < n THEN s[i + 1] ELSE NULL
          /\ k + 1 \in 0 .. N /\ k + 1 # 0 /\ k + 1 - 1 = k /\ k \in 0 .. N
      BY <1>1 DEF IsPath
    <3>2. path[k + 1][s[i]] = <<s[i]>> \o path[k][next[s[i]]]
      <4> HIDE DEF N, P
      <4>1. path[k + 1][s[i]] = <<s[i]>> \o path[k + 1 - 1][next[s[i]]]
        <5>1. \A K \in 0 .. N : K # 0 => path[K][s[i]] = <<s[i]>> \o path[K - 1][next[s[i]]]
          BY <1>4, <3>1
        <5> QED BY <3>1, <5>1
      <4> QED BY <3>1, <4>1
    <3>3. CASE i < n
      <4>1. i + 1 \in 1 .. n /\ n - (i + 1) < k
        BY <1>1, <3>3
      <4>2. path[k][s[i + 1]] = rest(i + 1)
        BY <2>2, <4>1
      <4> QED BY <1>5, <3>1, <3>2, <3>3, <4>2
    <3>4. CASE ~(i < n)
      <4>1. path[k][NULL] = <<>>
        <5>1. NULL \in P
          OBVIOUS
        <5> HIDE DEF N, P
        <5> QED BY <1>4, <3>1, <5>1
      <4> QED BY <1>5, <3>1, <3>2, <3>4, <4>1
    <3> QED BY <3>3, <3>4
  <2>3. 0 .. N \subseteq T
    <3> HIDE DEF T
    <3> QED BY <1>1, <2>1, <2>2, InductionUpTo
  <2> QED BY <1>1, <2>3
<1>7. Follow(next, start) = path[N][start]
  <2>1. DOMAIN next = D
    OBVIOUS
  <2> QED BY <2>1 DEF Follow
<1>8. CASE s = <<>>
  <2>1. start = NULL /\ NULL \in P /\ N \in 0 .. N
    BY <1>1, <1>8 DEF IsPath
  <2> HIDE DEF path, N, P
  <2>2. path[N][NULL] = <<>>
    BY <1>4, <2>1
  <2> QED BY <1>7, <1>8, <2>1, <2>2
<1>9. CASE s # <<>>
  <2>1. n > 0 /\ 1 \in 1 .. n /\ n - 1 < N /\ start = s[1]
    BY <1>1, <1>9, EmptySeq DEF IsPath
  <2>2. rest(1) = s
    <3>1. \A j \in 1 .. n : rest(1)[j] = s[j]
      BY <1>1 DEF rest
    <3>2. rest(1) = [j \in 1 .. n |-> rest(1)[j]]
      BY <1>1 DEF rest
    <3> QED BY <1>1, <3>1, <3>2
  <2> HIDE DEF path
  <2> QED BY <1>6, <1>7, <2>1, <2>2
<1> QED BY <1>8, <1>9

-----------------------------------------------------------------------------
(* The elements at some positions *)

\* Some numbers up to n in ascending order.
Ascending(p, c, I) ==
    p \in [1 .. c -> I] /\ \A j, k \in 1 .. c : j < k => p[j] < p[k]

\* InOrder is that order, and no number is missing from it.
LEMMA InOrderAscends ==
    ASSUME NEW n \in Nat, NEW I, I \subseteq 1 .. n
    PROVE  /\ Cardinality(I) \in Nat /\ Ascending(InOrder(I), Cardinality(I), I)
           /\ \A i \in I : \E k \in 1 .. Cardinality(I) : InOrder(I)[k] = i
<1> DEFINE Up(m) == I \cap 1 .. m
           T == {m \in 0 .. n : /\ IsFiniteSet(Up(m)) /\ Cardinality(Up(m)) \in Nat
                                /\ \E p : Ascending(p, Cardinality(Up(m)), Up(m))}
<1>1. 0 \in T
  <2>1. Up(0) = {}
    OBVIOUS
  <2>2. IsFiniteSet(Up(0)) /\ Cardinality(Up(0)) = 0
    BY <2>1, FS_EmptySet
  <2>3. [k \in 1 .. 0 |-> 0] \in [1 .. 0 -> Up(0)]
    OBVIOUS
  <2>4. Ascending([k \in 1 .. 0 |-> 0], 0, Up(0))
    BY <2>3 DEF Ascending
  <2> HIDE DEF Up
  <2> QED BY <2>2, <2>4
<1>2. ASSUME NEW m \in 0 .. n - 1, m \in T PROVE m + 1 \in T
  <2> DEFINE U == Up(m)
             V == Up(m + 1)
             c == Cardinality(U)
  <2>1. IsFiniteSet(U) /\ c \in Nat /\ m + 1 \in 0 .. n
    BY <1>2
  <2>2. PICK p : Ascending(p, c, U)
    BY <1>2
  <2>3. CASE m + 1 \in I
    <3>1. V = U \cup {m + 1} /\ m + 1 \notin U
      BY <2>3
    <3>2. IsFiniteSet(V) /\ Cardinality(V) = c + 1
      <4> HIDE DEF U, V
      <4> QED BY <2>1, <3>1, FS_AddElement
    <3> DEFINE q == [k \in 1 .. c + 1 |-> IF k <= c THEN p[k] ELSE m + 1]
    <3>3. \A k \in 1 .. c : p[k] \in U /\ p[k] \in Int /\ p[k] <= m
      <4>1. \A u \in U : u \in Int /\ u <= m
        OBVIOUS
      <4> HIDE DEF U
      <4> QED BY <2>2, <4>1 DEF Ascending
    <3>4. \A k \in 1 .. c + 1 : q[k] = IF k <= c THEN p[k] ELSE m + 1
      OBVIOUS
    <3>5. q \in [1 .. c + 1 -> V]
      <4> HIDE DEF U, V
      <4> QED BY <2>1, <3>1, <3>3
    <3>6. \A j, k \in 1 .. c + 1 : j < k => q[j] < q[k]
      <4> TAKE j, k \in 1 .. c + 1
      <4> HAVE j < k
      <4>1. CASE k <= c
        <5>1. j \in 1 .. c /\ k \in 1 .. c
          BY <2>1, <4>1
        <5> HIDE DEF q, U
        <5>2. p[j] < p[k]
          BY <2>2, <5>1 DEF Ascending
        <5>3. q[j] = p[j] /\ q[k] = p[k]
          BY <3>4, <4>1, <5>1
        <5> QED BY <5>2, <5>3
      <4>2. CASE ~(k <= c)
        <5>1. j \in 1 .. c
          BY <2>1, <4>2
        <5> HIDE DEF q
        <5> QED BY <3>3, <3>4, <4>2, <5>1
      <4> QED BY <4>1, <4>2
    <3> HIDE DEF q, U, V
    <3>7. Ascending(q, Cardinality(V), V)
      BY <3>2, <3>5, <3>6 DEF Ascending
    <3>8. Cardinality(V) \in Nat
      BY <2>1, <3>2
    <3> QED BY <2>1, <3>2, <3>7, <3>8 DEF V
  <2>4. CASE m + 1 \notin I
    <3>1. V = U
      BY <2>4
    <3> HIDE DEF U
    <3> QED BY <2>1, <2>2, <3>1
  <2> QED BY <2>3, <2>4
<1>3. n \in T
  <2> HIDE DEF T
  <2>1. 0 .. n \subseteq T
    BY <1>1, <1>2, InductionUpTo
  <2> QED BY <2>1
<1>4. Up(n) = I
  OBVIOUS
<1> HIDE DEF Up
<1> DEFINE c == Cardinality(I)
           o == InOrder(I)
<1>5. IsFiniteSet(I) /\ c \in Nat /\ \E p : Ascending(p, c, I)
  BY <1>3, <1>4
<1>6. Ascending(o, c, I)
  <2>1. PICK p : Ascending(p, c, I)
    BY <1>5
  <2>2. /\ p \in [1 .. c -> I]
        /\ \A j, k \in DOMAIN p : j < k => p[j] < p[k]
    BY <2>1 DEF Ascending
  <2>3. o \in [1 .. c -> I] /\ \A j, k \in DOMAIN o : j < k => o[j] < o[k]
    BY <2>2 DEF InOrder
  <2> QED BY <2>3 DEF Ascending
<1>7. \A i \in I : \E k \in 1 .. c : o[k] = i
  <2> HIDE DEF o, c
  <2>1. \A j, k \in 1 .. c : o[j] = o[k] => j = k
    <3> TAKE j, k \in 1 .. c
    <3>1. o[j] \in Int /\ o[k] \in Int
      <4>1. \A i \in I : i \in Int
        OBVIOUS
      <4> QED BY <1>6, <4>1 DEF Ascending
    <3>2. (j < k => o[j] < o[k]) /\ (k < j => o[k] < o[j])
      BY <1>6 DEF Ascending
    <3> QED BY <1>5, <3>1, <3>2
  <2>2. o \in Injection(1 .. c, I)
    BY <1>6, <2>1 DEF Ascending, Injection, IsInjective
  <2>3. Cardinality(1 .. c) = Cardinality(I)
    BY <1>5, CardinalityUpTo DEF c
  <2>4. o \in Surjection(1 .. c, I)
    BY <1>5, <2>2, <2>3, FS_Injection
  <2> QED BY <2>4 DEF Surjection
<1> QED BY <1>5, <1>6, <1>7

\* r are the elements of s at the positions p, which are those of I in order.
Picked(r, s, I, p) ==
    /\ Len(r) \in Nat /\ p \in [1 .. Len(r) -> I]
    /\ \A j, k \in 1 .. Len(r) : j < k => p[j] < p[k]
    /\ \A i \in I : \E k \in 1 .. Len(r) : p[k] = i
    /\ \A k \in 1 .. Len(r) : r[k] = s[p[k]]

LEMMA ThosePicked ==
    ASSUME NEW S, NEW s \in Seq(S), NEW I, I \subseteq 1 .. Len(s)
    PROVE  Those(s, I) \in Seq(S) /\ Picked(Those(s, I), s, I, InOrder(I))
<1> DEFINE c == Cardinality(I)
           o == InOrder(I)
           r == [k \in 1 .. c |-> s[o[k]]]
<1>1. Len(s) \in Nat /\ \A i \in 1 .. Len(s) : s[i] \in S
  BY LenProperties, ElementOfSeq
<1>2. /\ c \in Nat /\ Ascending(o, c, I)
      /\ \A i \in I : \E k \in 1 .. c : o[k] = i
  BY <1>1, InOrderAscends
<1> HIDE DEF c, o
<1>3. DOMAIN o = 1 .. c /\ \A k \in 1 .. c : o[k] \in I
  BY <1>2 DEF Ascending
<1>4. Those(s, I) = r
  BY <1>3 DEF Those, o
<1>5. r \in [1 .. c -> S]
  BY <1>1, <1>3
<1>6. r \in Seq(S) /\ Len(r) = c
  BY <1>2, <1>5
<1>7. \A k \in 1 .. c : r[k] = s[o[k]]
  OBVIOUS
<1> HIDE DEF r
<1>8. Picked(r, s, I, o)
  BY <1>2, <1>6, <1>7 DEF Picked, Ascending
<1> QED BY <1>4, <1>6, <1>8 DEF o
=============================================================================
