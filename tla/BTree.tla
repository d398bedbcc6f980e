------------------------------- MODULE BTree --------------------------------
(***************************************************************************)
(* util/btree.h and btree_node.h, the index when the program is built with *)
(* -DBTREE.  A tree is a table of nodes, the place of its root in it (0    *)
(* for an empty tree), nodeCount and treeDepth.  key is keyArray up to     *)
(* elemCount; item is childPtr of an inner node and resultArray of a leaf. *)
(* Positions count from 1 and 0 is the code's position -1.                 *)
(***************************************************************************)
EXTENDS NodeFile

CONSTANT MaxPerNode         \* MAX_PER_NODE of btree_node.h, an even number (128)

ASSUME MaxPerNodeAssumption == MaxPerNode \in Nat /\ MaxPerNode > 0 /\ MaxPerNode % 2 = 0

EmptyBTree == [node |-> <<>>, root |-> 0, nodeCount |-> 0, treeDepth |-> 0]
Node(isLeaf, keys, items) == [isLeaf |-> isLeaf, key |-> keys, item |-> items]
Full(node) == Len(node.key) >= MaxPerNode

\* The binary search of findPosition: l and r after i turns of its loop.
Bisect(keys, key) ==
  LET range[i \in 0 .. Len(keys)] ==
        IF i = 0 THEN [l |-> 1, r |-> Len(keys)]
        ELSE LET s == range[i - 1]
                 mid == (s.l + s.r - 2) \div 2 + 1
             IN  IF s.l >= s.r THEN s
                 ELSE [l |-> IF keys[mid] > key THEN s.l ELSE IF keys[mid] < key THEN mid + 1 ELSE mid,
                       r |-> IF keys[mid] < key THEN s.r ELSE mid]
  IN  range[Len(keys)].l

FindPosition(keys, key) ==
  IF keys = <<>> THEN 1 ELSE IF keys[Len(keys)] < key THEN 0 ELSE Bisect(keys, key)

\* The insertion of both addItem: before position pos, or last when pos is 0.
InsertBefore(s, pos, x) ==
  [i \in 1 .. Len(s) + 1 |-> IF i < pos THEN s[i] ELSE IF i = pos THEN x ELSE s[i - 1]]
Insert(node, key, item) ==
  LET pos == FindPosition(node.key, key)
      at == IF pos = 0 THEN Len(node.key) + 1 ELSE pos
  IN  [node EXCEPT !.key = InsertBefore(@, at, key), !.item = InsertBefore(@, at, item)]

HasKey(leaf, key) ==
  LET pos == FindPosition(leaf.key, key) IN pos \in DOMAIN leaf.key /\ leaf.key[pos] = key

\* LeafNode::addItem, on a leaf with room or with the key.
LeafInsert(leaf, key, value) ==
  IF HasKey(leaf, key) THEN [leaf EXCEPT !.item[FindPosition(leaf.key, key)] = Append(@, value)]
  ELSE Insert(leaf, key, <<value>>)

\* The loop of addItem from the root to a leaf.  stack holds the nodes passed and
\* the positions taken, the last first; a key greater than all becomes the last key
\* of each node.
Step(at, key) ==
  LET node == at.tree.node[at.cur]
      found == FindPosition(node.key, key)
      pos == IF found = 0 THEN Len(node.key) ELSE found
  IN  [tree |-> IF found = 0 THEN [at.tree EXCEPT !.node[at.cur].key[pos] = key] ELSE at.tree,
       cur |-> node.item[pos], stack |-> <<[node |-> at.cur, pos |-> pos]>> \o at.stack]
Walk(tree, key) ==
  LET at[i \in 0 .. Len(tree.node)] ==
        IF i = 0 THEN [tree |-> tree, cur |-> tree.root, stack |-> <<>>]
        ELSE LET s == at[i - 1]
             IN  IF s.tree.node[s.cur].isLeaf THEN s ELSE Step(s, key)
  IN  at

\* copyItems and setElemCount: the two halves of a full node.
MidIndex == MaxPerNode \div 2
Items(node, from, to) == Node(node.isLeaf, SubSeq(node.key, from, to), SubSeq(node.item, from, to))
LowerHalf(node) == Items(node, 1, MidIndex)
\* Mutant: the upper half starts one too late.
UpperHalfOff(node) == Items(node, MidIndex + 2, MaxPerNode)
UpperHalf(node) == Items(node, MidIndex + 1, MaxPerNode)

\* A node of its own for the new upper half.
AddNode(tree, node) == [tree EXCEPT !.node = Append(@, node), !.nodeCount = @ + 1]

\* The end of splitNode: the root was split into lower and upper.
LastKey(node) == node.key[Len(node.key)]
NewRoot(tree, lower, upper) ==
  Insert(Insert(Node(FALSE, <<>>, <<>>), LastKey(tree.node[lower]), lower),
         LastKey(tree.node[upper]), upper)
\* Mutant: the new root is not counted.
GrowRootUncounted(tree, lower, upper) ==
  [tree EXCEPT !.node = Append(@, NewRoot(tree, lower, upper)),
               !.root = Len(tree.node) + 1, !.treeDepth = @ + 1]
GrowRoot(tree, lower, upper) ==
  [AddNode(tree, NewRoot(tree, lower, upper)) EXCEPT !.root = Len(tree.node) + 1, !.treeDepth = @ + 1]

\* What the loop of splitNode does with an inner node that is full: midvalue is
\* read from it before the lower half that came up has been put in.
SplitInner(tree, n, key, lower) ==
  LET node == tree.node[n]
      midvalue == node.key[MidIndex]
      up == IF key > midvalue THEN Insert(UpperHalf(node), midvalue, lower) ELSE UpperHalf(node)
      low == IF key > midvalue THEN LowerHalf(node) ELSE Insert(LowerHalf(node), midvalue, lower)
  IN  AddNode([tree EXCEPT !.node[n] = low], up)

\* One turn of the loop: lower and upper are the halves of the node split last, midvalue
\* is the greatest key of the lower one; the parent is on top of the stack.
\* Mutant: where the parent points to the lower half is not changed.
SplitParentStale(s, key) ==
  [s EXCEPT !.tree.node[Head(s.stack).node] = Insert(@, s.midvalue, s.lower), !.done = TRUE]
SplitParent(s, key) ==
  LET n == Head(s.stack).node
      parent == [s.tree.node[n] EXCEPT !.item[Head(s.stack).pos] = s.upper]
  IN  IF ~Full(parent)
      THEN [s EXCEPT !.tree.node[n] = Insert(parent, s.midvalue, s.lower), !.done = TRUE]
      ELSE [tree |-> SplitInner([s.tree EXCEPT !.node[n] = parent], n, key, s.lower),
            stack |-> Tail(s.stack), midvalue |-> parent.key[MidIndex],
            lower |-> n, upper |-> Len(s.tree.node) + 1, done |-> FALSE]

\* splitNode of a full leaf, up to its loop.
SplitLeaf(tree, n, stack, key, value) ==
  LET leaf == tree.node[n]
      midvalue == leaf.key[MidIndex]
      low == IF key > midvalue THEN LowerHalf(leaf) ELSE LeafInsert(LowerHalf(leaf), key, value)
      up == IF key > midvalue THEN LeafInsert(UpperHalf(leaf), key, value) ELSE UpperHalf(leaf)
  IN  [tree |-> AddNode([tree EXCEPT !.node[n] = low], up), stack |-> stack, midvalue |-> midvalue,
       lower |-> n, upper |-> Len(tree.node) + 1, done |-> FALSE]

\* The loop, i turns of it.
SplitUp(start, key) ==
  LET up[i \in 0 .. Len(start.stack)] ==
        IF i = 0 THEN start
        ELSE LET s == up[i - 1] IN IF s.done THEN s ELSE SplitParent(s, key)
  IN  up

\* splitNode.
SplitNode(tree, n, stack, key, value) ==
  LET start == SplitLeaf(tree, n, stack, key, value)
      last == SplitUp(start, key)[Len(stack)]
  IN  IF last.done THEN last.tree ELSE GrowRoot(last.tree, last.lower, last.upper)

\* BTree::addItem.
BTreeAdd(tree, key, value) ==
  IF tree.root = 0
  THEN [AddNode(tree, LeafInsert(Node(TRUE, <<>>, <<>>), key, value)) EXCEPT !.root = 1]
  ELSE LET w == Walk(tree, key)[Len(tree.node)]
           leaf == w.tree.node[w.cur]
       IN  IF HasKey(leaf, key) \/ ~Full(leaf)
           THEN [w.tree EXCEPT !.node[w.cur] = LeafInsert(leaf, key, value)]
           ELSE SplitNode(w.tree, w.cur, w.stack, key, value)

(***************************************************************************)
(* Saving.  An inner node is written as its keys and then the offsets of   *)
(* its children, a leaf as keys and lists in turn.                         *)
(***************************************************************************)
BTreeChildren(tree) ==
  [n \in DOMAIN tree.node |-> IF tree.node[n].isLeaf THEN <<>> ELSE tree.node[n].item]

InnerSize(node) == 2 + 2 * Len(node.key)
\* Mutant: the counters of the lists are not part of the size.
LeafSizeShort(node) == 2 + Len(node.key) + Len(Joined(node.item))
LeafSize(node) == 2 + Len(node.key) + ListsSize(node.item)
BTreeNodeSize(node) == IF node.isLeaf THEN LeafSize(node) ELSE InnerSize(node)

FrontFields(node) == <<Flag(node.isLeaf), Len(node.key)>>
InnerFields(node, offsets) == FrontFields(node) \o node.key \o offsets
LeafFields(node) ==
  FrontFields(node) \o Joined([i \in DOMAIN node.key |-> <<node.key[i]>> \o ListFields(node.item[i])])
BTreeFields(node, offsets) == IF node.isLeaf THEN LeafFields(node) ELSE InnerFields(node, offsets)

\* write2file: nothing at all is written of an empty tree, the file stays as it was.
BTreeWrite(tree, old) ==
  IF tree.root = 0 THEN old
  ELSE WriteNodes(BTreeChildren(tree), [n \in DOMAIN tree.node |-> BTreeNodeSize(tree.node[n])],
                  LAMBDA n, offsets : BTreeFields(tree.node[n], offsets), tree.root)

(***************************************************************************)
(* Loading and querying.                                                   *)
(***************************************************************************)
\* readFromFile of a leaf's keys and lists, n of them from an offset on.
ReadItems(file, at, n) ==
  LET read[i \in 0 .. n] ==
        IF i = 0 THEN [key |-> <<>>, item |-> <<>>, end |-> at]
        ELSE LET s == read[i - 1]
                 list == ReadList(file, s.end + 1)
             IN  [key |-> Append(s.key, file[s.end + 1]), item |-> Append(s.item, list),
                  end |-> s.end + 1 + ListSize(list)]
  IN  read[n]

\* A node at an offset, and where it ends; item is the array of offsets when it is
\* an inner one.
ReadBNode(file, at) ==
  LET n == file[at + 2]
      read == ReadItems(file, at + 2, n)
  IN  IF file[at + 1] = 1 THEN [node |-> Node(TRUE, read.key, read.item), end |-> read.end]
      ELSE [node |-> Node(FALSE, SubSeq(file, at + 3, at + 2 + n),
                          SubSeq(file, at + 3 + n, at + 2 + 2 * n)),
            end |-> at + 2 + 2 * n]

\* The node as readFromFile puts it into the tree; the offsets are not used.
LoadBNode(file, at, due) ==
  LET read == ReadBNode(file, at)
  IN  IF read.node.isLeaf THEN read
      ELSE [read EXCEPT !.node.item = [i \in DOMAIN read.node.key |-> ChildNumber(due, i)]]

\* readFromFile.  treeDepth stays 0.
BTreeRead(file) ==
  LET nodes == ReadNodes(file, LAMBDA at, due : LoadBNode(file, at, due),
                         LAMBDA node : IF node.isLeaf THEN 0 ELSE Len(node.key))
  IN  [node |-> nodes, root |-> 1, nodeCount |-> Len(nodes), treeDepth |-> 0]

\* The first loop of queryFromFile: the offset of the leaf for begin, or of a node all of
\* whose keys are less.
FindLeaf(file, begin) ==
  LET found[i \in 0 .. Len(file)] ==
        IF i = 0 THEN [at |-> 0, done |-> FALSE]
        ELSE LET s == found[i - 1]
                 node == ReadBNode(file, s.at).node
                 pos == FindPosition(node.key, begin)
             IN  IF s.done THEN s
                 ELSE IF node.isLeaf \/ pos = 0 THEN [s EXCEPT !.done = TRUE]
                 ELSE [s EXCEPT !.at = node.item[pos]]
  IN  found[Len(file)].at

\* The second loop: leaf after leaf until a key is greater than end; a file that
\* is at its end before makes the result NULL.
Collect(file, first, pos, end) ==
  LET found[i \in 0 .. Len(file)] ==
        IF i = 0 THEN [at |-> first, lists |-> <<>>, beyond |-> FALSE]
        ELSE LET s == found[i - 1]
                 leaf == ReadBNode(file, s.at)
                 within == Selected(Len(leaf.node.key),
                             {j \in DOMAIN leaf.node.key : (i = 1 => pos <= j) /\ leaf.node.key[j] <= end})
             IN  IF s.beyond \/ s.at >= Len(file) THEN s
                 ELSE [at |-> leaf.end,
                       lists |-> s.lists \o [m \in DOMAIN within |-> leaf.node.item[within[m]]],
                       beyond |-> LastKey(leaf.node) > end]
      last == found[Len(file)]
  IN  IF last.beyond THEN Merged(last.lists) ELSE NoList

BTreeQuery(file, begin, end) ==
  LET leaf == FindLeaf(file, begin)
      pos == FindPosition(ReadBNode(file, leaf).node.key, begin)
  IN  IF pos = 0 THEN NoList ELSE Collect(file, leaf, pos, end)
=============================================================================
