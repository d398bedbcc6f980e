----------------------------- MODULE ValueLists -----------------------------
(***************************************************************************)
(* What the lists of linklist.h promise: each is an ascending sequence of  *)
(* values, and a file holds one of them.  did is the last operation.       *)
(***************************************************************************)
EXTENDS Integers, Sequences, FiniteSets, Paths

CONSTANTS Lists, Values, NoFile

VARIABLES contents, saved, did

vars == <<contents, saved, did>>

Init == contents = [l \in Lists |-> <<>>] /\ saved = NoFile /\ did = <<>>

\* t has the elements of s, each as often, in ascending order.
Count(s, v) == Cardinality({i \in DOMAIN s : s[i] = v})
IsSorted(t, s) ==
  /\ \A i, j \in DOMAIN t : i < j => t[i] <= t[j]
  /\ \A v \in Values : Count(t, v) = Count(s, v)

\* The elements of s that t has too.
Common(s, t) == Those(s, {i \in DOMAIN s : \E j \in DOMAIN t : t[j] = s[i]})

\* addElement, of a value greater than those in the list.
Add(l, v) ==
  /\ did' = <<"add", l>>
  /\ \A i \in DOMAIN contents[l] : contents[l][i] < v
  /\ contents' = [contents EXCEPT ![l] = Append(@, v)]
  /\ UNCHANGED saved

\* "elements need be ascending ordered after adding elements of another list" (linklist.h:155).
Merge(a, b) ==
  /\ did' = <<"merge", a, b>>
  /\ a # b
  /\ \E all \in {contents'[a]} :
       /\ IsSorted(all, contents[a] \o contents[b])
       /\ contents' = [contents EXCEPT ![a] = all, ![b] = <<>>]
  /\ UNCHANGED saved

\* "only the common elements in two linklist will be reserved" (linklist.h:232).
Intersect(a, b) ==
  /\ did' = <<"intersection", a, b>>
  /\ a # b
  /\ contents' = [contents EXCEPT ![a] = Common(@, contents[b])]
  /\ UNCHANGED saved

Write(l) ==
  /\ did' = <<"write", l>>
  /\ saved' = contents[l]
  /\ contents' = [contents EXCEPT ![l] = <<>>]

Read(l) ==
  /\ did' = <<"read", l>>
  /\ contents[l] = <<>> /\ saved # NoFile
  /\ contents' = [contents EXCEPT ![l] = saved]
  /\ UNCHANGED saved

Destroy(l) ==
  /\ did' = <<"destroy", l>>
  /\ contents' = [contents EXCEPT ![l] = <<>>]
  /\ UNCHANGED saved

Next ==
  \E a \in Lists :
     \/ \E v \in Values : Add(a, v)
     \/ \E b \in Lists : Merge(a, b) \/ Intersect(a, b)
     \/ Write(a) \/ Read(a) \/ Destroy(a)

Spec == Init /\ [][Next]_vars
=============================================================================
