-------------------------------- MODULE Trie --------------------------------
(***************************************************************************)
(* util/trie.h, trie.cpp, trie_node.h and trie_node.cpp.  A trie is a      *)
(* table of nodes and the counter nodeCount; a node is named by its place  *)
(* in the table, the root by 1.  ptr is childPtr of an inner node and      *)
(* resultArray of a leaf; a result list is the sequence of its values      *)
(* (LinkList.tla shows that the lists behave so).  The cache bitPosition   *)
(* is left out: nothing is added to a trie once positions were asked for.  *)
(***************************************************************************)
EXTENDS Bitmap, NodeFile

CONSTANTS TriePerNode,      \* MAX_PER_NODE of trie_node.h, 1 << BITS_PER_NODE
          Depth             \* sizeof(KEY) * 8 / BITS_PER_NODE

ASSUME TriePerNodeAssumption == TriePerNode \in Nat /\ TriePerNode > 1
ASSUME DepthAssumption == Depth \in Nat /\ Depth > 1

Root == 1

\* key >> (Depth - i) * BITS_PER_NODE: the first i digits of a key.
Prefix(key, i) ==
  LET shifted[j \in 0 .. Depth] == IF j = 0 THEN key ELSE shifted[j - 1] \div TriePerNode
  IN  shifted[Depth - i]

\* The i-th digit, the most significant one being the first.
Digit(key, i) == Prefix(key, i) % TriePerNode

NewNode(isLeaf) ==
  [isLeaf |-> isLeaf, elemCount |-> 0, bitmap |-> NewBitmap(TriePerNode), ptr |-> <<>>]
NewTrie == [node |-> <<NewNode(FALSE)>>, nodeCount |-> 1]

\* InterTrieNode::addItem, and the first part of LeafTrieNode::addItem.
SetPointer(node, pos, target) ==
  [node EXCEPT !.elemCount = @ + 1, !.bitmap = SetBit(@, pos),
               !.ptr = [p \in DOMAIN @ \cup {pos} |-> IF p = pos THEN target ELSE @[p]]]

\* One turn of addItem's loop: follow digit d from node cur of the trie, which
\* gets a new child if it has none there.
Descend(at, i, d) ==
  LET cur == at.trie.node[at.cur]
      new == Len(at.trie.node) + 1
  IN  IF GetBit(cur.bitmap, d) THEN [at EXCEPT !.cur = cur.ptr[d]]
      ELSE [trie |-> [node |-> Append([at.trie.node EXCEPT ![at.cur] = SetPointer(cur, d, new)],
                                      NewNode(i = Depth - 1)),
                      nodeCount |-> at.trie.nodeCount + 1],
            cur |-> new]

\* The loop: where addItem is after i turns.
Descent(trie, key) ==
  LET at[i \in 0 .. Depth - 1] == IF i = 0 THEN [trie |-> trie, cur |-> Root]
                                  ELSE Descend(at[i - 1], i, Digit(key, i))
  IN  at

\* LeafTrieNode::addItem.
LeafAdd(leaf, pos, value) ==
  LET known == IF pos \in DOMAIN leaf.ptr THEN leaf ELSE SetPointer(leaf, pos, <<>>)
  IN  [known EXCEPT !.ptr[pos] = Append(@, value)]

\* Trie::addItem.
TrieAdd(trie, key, value) ==
  LET at == Descent(trie, key)[Depth - 1]
  IN  [at.trie EXCEPT !.node[at.cur] = LeafAdd(@, Digit(key, Depth), value)]

(***************************************************************************)
(* Saving.                                                                 *)
(***************************************************************************)
\* What a node points to, in the order of the positions.
Targets(node) == LET pos == OnePositions(node.bitmap)
                 IN  [i \in 1 .. node.elemCount |-> node.ptr[pos[i]]]

TrieChildren(trie) ==
  [n \in DOMAIN trie.node |-> IF trie.node[n].isLeaf THEN <<>> ELSE Targets(trie.node[n])]

\* isLeaf, elemCount, the bitmap, the offsets; a leaf's lists behind them.
HeaderSize(node) == 3 + Len(node.bitmap) + node.elemCount
TrieNodeSize(node) == HeaderSize(node) + IF node.isLeaf THEN ListsSize(Targets(node)) ELSE 0

Header(node, offsets) == <<Flag(node.isLeaf), node.elemCount>> \o Dump(node.bitmap) \o offsets

\* LeafTrieNode::write2file: where each list starts behind the header, then the lists.
ListOffsets(lists) == [i \in DOMAIN lists |-> ListSizes(lists)[i - 1]]
TrieLeafFields(node) ==
  LET lists == Targets(node)
  IN  Header(node, ListOffsets(lists)) \o Joined([i \in DOMAIN lists |-> ListFields(lists[i])])

TrieFields(node, offsets) == IF node.isLeaf THEN TrieLeafFields(node) ELSE Header(node, offsets)

TrieWrite(trie) ==
  WriteNodes(TrieChildren(trie), [n \in DOMAIN trie.node |-> TrieNodeSize(trie.node[n])],
             LAMBDA n, offsets : TrieFields(trie.node[n], offsets), Root)

(***************************************************************************)
(* Loading and querying.                                                   *)
(***************************************************************************)
\* readTrieNode: a node at an offset, and where it ends, which for a leaf is where
\* its lists begin.
ReadNode(file, at) ==
  LET elemCount == file[at + 2]
      bitmap == ReadBitmap(file, at + 3)
      end == at + 3 + Len(bitmap) + elemCount
  IN  [isLeaf |-> file[at + 1] = 1, elemCount |-> elemCount, bitmap |-> bitmap,
       fileOffArray |-> SubSeq(file, end - elemCount + 1, end), end |-> end]

\* The node as readFromFile puts it into the trie: setChildren position by position,
\* and readLinklist for a leaf.
LoadNode(file, at, due) ==
  LET node == ReadNode(file, at)
      pos == OnePositions(node.bitmap)
      place(p) == CHOOSE j \in DOMAIN pos : pos[j] = p
      read == ReadLists(file, node.end, node.elemCount)
  IN  [node |-> [isLeaf |-> node.isLeaf, elemCount |-> node.elemCount, bitmap |-> node.bitmap,
                 ptr |-> [p \in {pos[j] : j \in DOMAIN pos} |->
                            IF node.isLeaf THEN read.lists[place(p)]
                            ELSE ChildNumber(due, place(p))]],
       end |-> IF node.isLeaf THEN read.at ELSE node.end]

\* Trie::readFromFile into an empty trie.
LoadedTrie(nodes) == [node |-> nodes, nodeCount |-> Len(nodes)]
TrieRead(file) ==
  LoadedTrie(ReadNodes(file, LAMBDA at, due : LoadNode(file, at, due),
                       LAMBDA node : IF node.isLeaf THEN 0 ELSE node.elemCount))

\* queryFromFile: a prefix or a key between two bounds (mutant: the upper one excluded).
WithinOpen(p, lo, hi) == lo <= p /\ p < hi
Within(p, lo, hi) == lo <= p /\ p <= hi

\* The places of a node's digits that lead to a prefix or a key within the bounds.
Matching(node, prefix, lo, hi) ==
  LET pos == OnePositions(node.bitmap)
  IN  Selected(Len(pos), {j \in DOMAIN pos : Within(prefix * TriePerNode + pos[j], lo, hi)})

\* One level of queryFromFile: from the nodes of a queue to those of their children
\* whose prefix lies between the prefixes of the bounds.
NextLevel(file, queue, lo, hi) ==
  Joined([k \in DOMAIN queue |->
    LET node == ReadNode(file, queue[k].at)
        pos == OnePositions(node.bitmap)
        js == Matching(node, queue[k].prefix, lo, hi)
    IN  [m \in DOMAIN js |-> [at |-> node.fileOffArray[js[m]],
                              prefix |-> queue[k].prefix * TriePerNode + pos[js[m]]]]])

\* The lists of one leaf whose keys are within the bounds: they lie one behind the other.
LeafMatches(file, leaf, begin, end) ==
  LET node == ReadNode(file, leaf.at)
      js == Matching(node, leaf.prefix, begin, end)
  IN  IF js = <<>> THEN <<>>
      ELSE ReadLists(file, node.end + node.fileOffArray[js[1]], Len(js)).lists

\* Trie::queryFromFile: NULL when no node of some level above the leaves matches.
TrieQuery(file, begin, end) ==
  LET queue[i \in 0 .. Depth - 1] ==
        IF i = 0 THEN <<[at |-> 0, prefix |-> 0]>>
        ELSE NextLevel(file, queue[i - 1], Prefix(begin, i), Prefix(end, i))
      leaves == queue[Depth - 1]
  IN  IF \E i \in 0 .. Depth - 2 : queue[i] = <<>> THEN NoList
      ELSE Merged(Joined([k \in DOMAIN leaves |-> LeafMatches(file, leaves[k], begin, end)]))
=============================================================================
