------------------------------ MODULE ListFile ------------------------------
(***************************************************************************)
(* Result lists as the index trees and their files see them: ascending     *)
(* sequences of values (LinkList.tla has the nodes behind them).  A file   *)
(* is a sequence of fields; every field of the code (a flag, a counter, a  *)
(* bit of a bitmap, a key, an offset, a value) is one element, whatever    *)
(* its width, so an offset is a number of fields.  Offsets count from 0.   *)
(***************************************************************************)
EXTENDS Paths

CONSTANT NoList   \* the NULL a query may return instead of a list

ASSUME NoListAssumption == NoList \notin Seq(Nat)

\* The field isLeaf of a node.
\* Mutant: the flag sign-extended.
FlagSigned(isLeaf) == IF isLeaf THEN -1 ELSE 0
Flag(isLeaf) == IF isLeaf THEN 1 ELSE 0

\* LinkList::getSizeOfFile, and its sum over the first lists of a sequence.
ListSize(list) == 1 + Len(list)
ListSizes(lists) == Sums([i \in DOMAIN lists |-> ListSize(lists[i])])
ListsSize(lists) == ListSizes(lists)[Len(lists)]

\* LinkList::write2file: nodeCount, then the values.
ListFields(list) == <<Len(list)>> \o list

\* LinkList::readFromFile.
ReadList(file, at) == SubSeq(file, at + 2, at + 1 + file[at + 1])

\* n lists that lie one behind the other, and where they end.
ReadLists(file, at, n) ==
  LET read[i \in 0 .. n] ==
        IF i = 0 THEN [at |-> at, lists |-> <<>>]
        ELSE LET s == read[i - 1]
                 list == ReadList(file, s.at)
             IN  [at |-> s.at + ListSize(list), lists |-> Append(s.lists, list)]
  IN  read[n]

\* The walk of LinkList::merge: the position before which a value is inserted.
InsertAt(list, value) ==
  CHOOSE p \in 1 .. Len(list) + 1 :
    (p <= Len(list) => value <= list[p]) /\ \A i \in 1 .. p - 1 : list[i] < value

\* LinkList::merge into an empty list, list after list.
Merged(lists) ==
  LET values == Joined(lists)
      merged[k \in 0 .. Len(values)] ==
        IF k = 0 THEN <<>>
        ELSE LET list == merged[k - 1]
                 at == InsertAt(list, values[k])
             IN  [i \in 1 .. k |-> IF i < at THEN list[i] ELSE IF i = at THEN values[k] ELSE list[i - 1]]
  IN  merged[Len(values)]
=============================================================================
