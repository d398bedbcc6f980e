----------------------------- MODULE IndexBase ------------------------------
(***************************************************************************)
(* IndexBase of index.h: one index, a trie or (with -DBTREE) a B-tree,     *)
(* and one index file.  buildIndex adds entries, write_index_to_file saves *)
(* the index, deletes it and makes a new one; readFromFile loads a saved   *)
(* one into a new object; queryFromFile searches the file.                 *)
(*                                                                         *)
(* Every step is taken together with the step of KeyIndex, the map it      *)
(* stands for; pending and saved are the variables of that map.            *)
(***************************************************************************)
EXTENDS Trie, BTree

CONSTANTS Keys, Kinds,   \* Kinds: a subset of {"trie", "btree"}
          NoFile,
          MaxAdds, MaxPerKey,   \* bounds: values added to an index of a kind, values per key
          MaxAgain,             \* bound: values added in all when a file is there already
          Bounds                \* the bounds asked for in queries

ASSUME KindsAssumption == Kinds \subseteq {"trie", "btree"}
\* A key has Depth digits.
ASSUME KeysAssumption == \A k \in Keys : k \in Nat /\ Prefix(k, 0) = 0
\* The bounds are numbers, MaxAgain one of values that may be there already.
ASSUME BoundsAssumption == MaxAgain \in Nat /\ \A i \in Kinds : MaxAdds[i] \in Nat /\ MaxAgain <= MaxAdds[i]
\* Queries are asked for keys.
ASSUME QueriesAssumption == \A k \in Bounds : k \in Nat /\ Prefix(k, 0) = 0
\* No file is not a file.
ASSUME NoFileAssumption == NoFile \notin Seq(Nat) \cup [Keys -> Seq(Nat)]

VARIABLES kind,      \* which index the program was built with
          index,     \* the index object
          file,      \* the index file, or NoFile
          value,     \* the value added last; values are offsets and grow
          loaded,    \* the index came from the file: nothing is added to it
          pending, saved   \* the map

vars == <<kind, index, file, value, loaded, pending, saved>>

Map == INSTANCE KeyIndex WITH Values <- Nat

NewIndex == IF kind = "trie" THEN NewTrie ELSE EmptyBTree

Init ==
  /\ kind \in Kinds
  /\ index = NewIndex
  /\ file = NoFile
  /\ value = 0
  /\ loaded = FALSE
  /\ Map!Init

(***************************************************************************)
(* What an index or a file holds.                                          *)
(***************************************************************************)
\* ~Trie and ~BTree: the nodes that come to the front of their queue, in order.
Visited(t) ==
  IF kind = "trie" THEN BreadthFirst(TrieChildren(t), Root)[Len(t.node)]
  ELSE IF t.root = 0 THEN <<>> ELSE BreadthFirst(BTreeChildren(t), t.root)[Len(t.node)]

\* The values filed under a key in an index in memory.
TrieList(t, k) ==
  LET at[i \in 0 .. Depth - 1] ==
        IF i = 0 THEN {Root}
        ELSE {t.node[n].ptr[Digit(k, i)] : n \in {m \in at[i - 1] : Digit(k, i) \in DOMAIN t.node[m].ptr}}
      leaves == {n \in at[Depth - 1] : Digit(k, Depth) \in DOMAIN t.node[n].ptr}
  IN  IF leaves = {} THEN <<>> ELSE t.node[CHOOSE n \in leaves : TRUE].ptr[Digit(k, Depth)]

\* Likewise, given the leaves of a B-tree.
BTreeList(t, leaves, k) ==
  LET holding == {n \in leaves : \E i \in DOMAIN t.node[n].key : t.node[n].key[i] = k}
      leaf == t.node[CHOOSE n \in holding : TRUE]
  IN  IF holding = {} THEN <<>> ELSE leaf.item[CHOOSE i \in DOMAIN leaf.key : leaf.key[i] = k]

Contents(t) ==
  IF kind = "trie" THEN [k \in Keys |-> TrieList(t, k)]
  ELSE LET visited == Visited(t)
           leaves == {n \in {visited[i] : i \in DOMAIN visited} : t.node[n].isLeaf}
       IN  [k \in Keys |-> BTreeList(t, leaves, k)]

Load(f) == IF kind = "trie" THEN TrieRead(f) ELSE BTreeRead(f)
FileContents == IF file = NoFile THEN NoFile ELSE Contents(Load(file))

(***************************************************************************)
(* Actions.                                                                *)
(***************************************************************************)
\* IndexBase::addItem.
AddItem(k) ==
  /\ ~loaded
  /\ value < (IF file = NoFile THEN MaxAdds[kind] ELSE MaxAgain)
  /\ Len(pending[k]) < MaxPerKey[k]
  /\ value' = value + 1
  /\ index' = IF kind = "trie" THEN TrieAdd(index, k, value + 1) ELSE BTreeAdd(index, k, value + 1)
  /\ Map!Add(k, value + 1)
  /\ UNCHANGED <<kind, file, loaded>>

\* write_index_to_file, for one index: write2file, delete, new.
Write ==
  /\ file' = IF kind = "trie" THEN TrieWrite(index) ELSE BTreeWrite(index, file)
  /\ index' = NewIndex
  /\ loaded' = FALSE
  /\ Map!Write(kind = "btree" /\ index.root = 0)
  /\ UNCHANGED <<kind, value>>

\* IndexBase::readFromFile, into a new index.
Read ==
  /\ file # NoFile /\ index = NewIndex /\ ~loaded
  /\ index' = Load(file)
  /\ loaded' = TRUE
  /\ Map!Read
  /\ UNCHANGED <<kind, file, value>>

Next ==
  \/ \E k \in Keys : AddItem(k)
  \/ Write
  \/ Read

Spec == Init /\ [][Next]_vars

(***************************************************************************)
(* Properties.                                                             *)
(***************************************************************************)
TypeOK ==
  /\ kind \in Kinds /\ loaded \in BOOLEAN /\ value \in 0 .. MaxAdds[kind]
  /\ index.nodeCount \in Nat
  /\ kind = "btree" => index.root \in 0 .. Len(index.node) /\ index.treeDepth \in Nat
  /\ file = NoFile \/ \A i \in DOMAIN file : file[i] \in Nat

\* ~Trie and ~BTree: "assert( nodeCount == 0 )" after a walk that deletes every
\* node it meets and counts it down, of an index that was built as of one loaded.
NodesCounted == index.nodeCount = Len(Visited(index))

\* Either tree, built, saved or loaded, holds the map's entries under their keys,
\* each key's values in the order in which they were added.
HoldsMap == Contents(index) = pending /\ FileContents = saved

\* The values saved for the keys between two bounds, and what a query returns of them:
\* a list of these and no others, ascending.
Expected(begin, end) ==
  UNION {{saved[k][i] : i \in DOMAIN saved[k]} : k \in {j \in Keys : begin <= j /\ j <= end}}
IsListOf(list, values) ==
  /\ list # NoList
  /\ {list[i] : i \in DOMAIN list} = values
  /\ \A i, j \in DOMAIN list : i < j => list[i] < list[j]

\* The entries in the leaves of a B-tree, and those of the map.
LeafEntries(t) ==
  LET visited == Visited(t)
      leaves == {n \in {visited[m] : m \in DOMAIN visited} : t.node[n].isLeaf}
      Filed(leaf, i) == {<<leaf.key[i], leaf.item[i][j]>> : j \in DOMAIN leaf.item[i]}
  IN  UNION {UNION {Filed(t.node[n], i) : i \in DOMAIN t.node[n].key} : n \in leaves}
MapEntries(map) == UNION {{<<k, map[k][i]>> : i \in DOMAIN map[k]} : k \in Keys}

\* Every entry added to a B-tree is in a leaf under its key, and nothing else is, in
\* memory and in the file, whatever splits there were: a child filed under a wrong key
\* (splitNode, btree.h:171) hides entries from searches and loses none.
EntriesKept ==
  kind = "btree" =>
    /\ LeafEntries(index) = MapEntries(pending)
    /\ file # NoFile => LeafEntries(Load(file)) = MapEntries(saved)

\* Queries are asked of the file, whatever the index holds.
Saved == file # NoFile /\ index = NewIndex
Ranges == {r \in Bounds \X Bounds : r[1] <= r[2]}

\* A query of a saved trie returns all values of the keys between its bounds and
\* no other, in ascending order; it may return NULL instead of an empty list.
TrieQueryExact ==
  kind = "trie" /\ Saved =>
    \A r \in Ranges :
      LET found == TrieQuery(file, r[1], r[2])
          expected == Expected(r[1], r[2])
      IN  IsListOf(found, expected) \/ (found = NoList /\ expected = {})

\* "We will find all records whose keys are in [begin,end]" (btree.h:436): those of
\* the queries below the greatest key.  A query that is not scans to the end of the
\* file, where the code drops what it found (btree.h:452).
Scanned(r) == \E k \in Keys : k > r[2] /\ saved[k] # <<>>
BTreeQueryExact ==
  kind = "btree" /\ Saved =>
    \A r \in Ranges : Scanned(r) => IsListOf(BTreeQuery(file, r[1], r[2]), Expected(r[1], r[2]))

\* A query of a saved B-tree invents and repeats nothing: what it returns are values
\* of keys up to its upper bound, ascending.  As long as no inner node was split, all
\* but the root being leaves, keys are filed in the right place and it returns all
\* records in its range and no other; BTreeQueryExact is about the splits beyond that.
BTreeQuerySound ==
  kind = "btree" /\ Saved =>
    LET t == Load(file)
        rootIsInner == \A n \in DOMAIN t.node : t.node[n].isLeaf \/ n = t.root
    IN  \A r \in Ranges :
          LET found == BTreeQuery(file, r[1], r[2])
          IN  /\ found # NoList =>
                   IsListOf(found, Expected(0, r[2]) \cap {found[i] : i \in DOMAIN found})
              /\ rootIsInner /\ Scanned(r) => IsListOf(found, Expected(r[1], r[2]))

\* An index loaded from a file is the index that was saved: written again it
\* gives the same file, with the same sizes and offsets.
ReloadedSame ==
  loaded => file = IF kind = "trie" THEN TrieWrite(index) ELSE BTreeWrite(index, file)
=============================================================================
