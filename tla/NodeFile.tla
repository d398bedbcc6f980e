------------------------------ MODULE NodeFile ------------------------------
(***************************************************************************)
(* The way both index trees are saved: Trie::write2file, BTree::write2file *)
(* and the two readFromFile.  A tree is given by the children of each of   *)
(* its nodes, in the order of their positions.                             *)
(*                                                                         *)
(* Nodes go to the file breadth first.  The offset of a node is computed   *)
(* when its parent is written, from the sizes getSizeOfFile announces for  *)
(* the nodes pushed before it, not from what is written.                   *)
(***************************************************************************)
EXTENDS ListFile

\* All that was pushed to the queue when i nodes were taken from it: BreadthFirst(..)[i]
\* without its first i elements is the queue.
BreadthFirst(children, root) ==
  LET pushed[i \in 0 .. Len(children)] ==
        IF i = 0 THEN <<root>>
        ELSE LET queue == pushed[i - 1]
             IN  IF i > Len(queue) THEN queue ELSE queue \o children[queue[i]]
  IN  pushed

\* The file of a tree: size is what a node announces, Fields(n, offsets) what it writes
\* when its children will be at these offsets.
WriteNodes(children, size, Fields(_, _), root) ==
  LET pushed == BreadthFirst(children, root)
      order == pushed[Len(children)]
      start == Sums([i \in DOMAIN order |-> size[order[i]]])
      offsetArray(i) == [j \in DOMAIN children[order[i]] |-> start[Len(pushed[i - 1]) + j - 1]]
  IN  Joined([i \in DOMAIN order |-> Fields(order[i], offsetArray(i))])

\* Reading: nodes come in the order in which they were promised, so a node's children
\* get the numbers behind those already due.
\* Mutant: the numbers start one too early.
ChildNumberOff(due, j) == due + j - 1
ChildNumber(due, j) == due + j

\* NodeAt(at, due) is the node at an offset and where it ends, NumKids(node) how many
\* children it promises.
ReadNodes(file, NodeAt(_, _), NumKids(_)) ==
  LET read[i \in 0 .. Len(file)] ==
        IF i = 0 THEN [at |-> 0, node |-> <<>>, due |-> 1]
        ELSE LET s == read[i - 1]
                 next == NodeAt(s.at, s.due)
             IN  IF Len(s.node) = s.due THEN s
                 ELSE [at |-> next.end, node |-> Append(s.node, next.node),
                       due |-> s.due + NumKids(next.node)]
  IN  read[Len(file)].node
=============================================================================
