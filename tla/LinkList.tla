------------------------------ MODULE LinkList ------------------------------
(***************************************************************************)
(* util/linklist.h with LINKNODE_POOL defined, as it is: lists of values   *)
(* whose nodes come from one static array, array[0..cursor-1] being the    *)
(* free ones.  Lists of four tries share that array and the index threads  *)
(* add to them without a lock, so getLinkNode is two steps: the load of    *)
(* cursor, and its store with all that follows, which touches only the     *)
(* node and the thread's own list.  The other operations run while no      *)
(* thread adds: write_index_to_file and the destructors under the          *)
(* protocol of ScanIndex, the queries in programs of one thread.           *)
(*                                                                         *)
(* initLinkNodePool is called nowhere in the repository; the model starts  *)
(* after a call of it (with PoolSize = 0 it is the program as it stands,   *)
(* which stops at the assertion in the first getLinkNode).                 *)
(***************************************************************************)
EXTENDS Integers, Sequences, FiniteSets, Paths

CONSTANTS Threads, Lists,
          Owner,          \* the thread that adds to a list
          Values,
          PoolSize,       \* num of initLinkNodePool
          ArraySize,      \* MAX_LINKNODE
          SkipNum,        \* SKIP_NUM
          MaxAdds, MaxOps,   \* bounds: values added to a list, other operations in all
          NoFile

ASSUME OwnerAssumption == Owner \in [Lists -> Threads]
ASSUME PoolAssumption == PoolSize \in Nat /\ ArraySize \in Nat /\ PoolSize <= ArraySize
ASSUME BoundsAssumption == MaxOps \in Nat /\ MaxAdds \in [Lists -> Nat]
ASSUME ValuesAssumption == Values \subseteq Nat
ASSUME SkipNumAssumption == SkipNum \in Nat \ {0}

Nodes == 1 .. PoolSize

VARIABLES heap,      \* data, next and skip of every node
          array, cursor,
          list,      \* head, tail, skip_pre and nodeCount of every list
          state,     \* how a list may go on being used, see Usable and Growable
          adding,    \* what a thread has loaded in getLinkNode, or Idle
          file,      \* the list in the file, or NoFile
          aborted,   \* assert( cursor > 0 ) failed
          adds, ops, \* additions per list and other operations so far
          wrong,     \* ~LinkList: "There are Something wrong in LinkList"
          did        \* the last operation

vars == <<heap, array, cursor, list, state, adding, file, aborted, adds, ops, wrong, did>>

Idle == [list |-> NULL]

NewNode(v) == [data |-> v, next |-> NULL, skip |-> NULL]
NewList == [head |-> NULL, tail |-> NULL, skip_pre |-> NULL, nodeCount |-> 0]

Init ==
  /\ heap = [n \in Nodes |-> NewNode(0)]
  /\ array = [i \in 0 .. ArraySize - 1 |-> IF i < PoolSize THEN i + 1 ELSE NULL]
  /\ cursor = PoolSize
  /\ list = [l \in Lists |-> NewList]
  /\ state = [l \in Lists |-> "new"]
  /\ adding = [t \in Threads |-> Idle]
  /\ file = NoFile
  /\ aborted = FALSE /\ wrong = FALSE /\ ops = 0 /\ adds = [l \in Lists |-> 0] /\ did = <<>>

\* The nodes of a list in order, at most as many as there are (two lists that share a
\* node may form a ring), and their values.
Nexts(h) == [n \in Nodes |-> h[n].next]
Chain(l) == Follow(Nexts(heap), list[l].head)
Data(l) == LET c == Chain(l) IN [i \in DOMAIN c |-> heap[c[i]].data]
NodesOf(l) == LET c == Chain(l) IN {c[i] : i \in DOMAIN c}

(***************************************************************************)
(* The pool.                                                               *)
(***************************************************************************)
\* Mutant: the cursor is advanced before the store (array[++cursor]).
FreeNodesAbove(nodes) ==
  /\ array' = [i \in DOMAIN array |-> IF i \in cursor + 1 .. cursor + Len(nodes)
                                      THEN nodes[i - cursor] ELSE array[i]]
  /\ cursor' = cursor + Len(nodes)
\* freeLinkNode of a sequence of nodes.
FreeNodes(nodes) ==
  /\ array' = [i \in DOMAIN array |-> IF i \in cursor .. cursor + Len(nodes) - 1
                                      THEN nodes[i - cursor + 1] ELSE array[i]]
  /\ cursor' = cursor + Len(nodes)

\* Mutant: the node is not cleared, its skip is that of its last use.
TakenAsItIs(h, n, v) == [h EXCEPT ![n].data = v, ![n].next = NULL]
\* getLinkNode: the node n with the value v.
Taken(h, n, v) == [h EXCEPT ![n] = NewNode(v)]

\* addElement, and the body of readFromFile's loop, with the node n it was given:
\* s is the heap and the list.
Linked(s, n, v) ==
  LET L == s.list
      fresh == Taken(s.heap, n, v)
      tailed == IF L.head = NULL THEN fresh ELSE [fresh EXCEPT ![L.tail].next = n]
      skipped == IF L.skip_pre = NULL THEN tailed ELSE [tailed EXCEPT ![L.skip_pre].skip = n]
      head == IF L.head = NULL THEN n ELSE L.head
  IN  [heap |-> skipped,
       list |-> [head |-> head, tail |-> n, nodeCount |-> L.nodeCount + 1,
                 skip_pre |-> IF L.nodeCount + 1 = SkipNum THEN head
                              ELSE IF L.skip_pre = NULL THEN NULL
                              ELSE skipped[L.skip_pre].next]]

(***************************************************************************)
(* Use of lists.  A list that was merged into or intersected has a tail    *)
(* that is not its last node: nothing may be added.  One that was          *)
(* intersected also has skips to freed nodes: it may be written, read out  *)
(* or destroyed, not merged or intersected again.  One that was written    *)
(* keeps tail and skip_pre: it may only be destroyed.                      *)
(***************************************************************************)
Growable(l) == state[l] = "new"
Usable(l) == state[l] \in {"new", "merged"}

Alone ==
  /\ ~aborted /\ \A t \in Threads : adding[t] = Idle
  /\ ops < MaxOps /\ ops' = ops + 1 /\ UNCHANGED adds

\* getLinkNode up to the load of cursor.
Load(t, l, v) ==
  /\ ~aborted /\ adding[t] = Idle
  /\ Owner[l] = t /\ Growable(l)
  /\ adds[l] < MaxAdds[l] /\ adds' = [adds EXCEPT ![l] = @ + 1]
  /\ \A n \in NodesOf(l) : heap[n].data < v
  /\ IF cursor > 0
     THEN adding' = [adding EXCEPT ![t] = [list |-> l, value |-> v, at |-> cursor]] /\ UNCHANGED aborted
     ELSE aborted' = TRUE /\ UNCHANGED adding
  /\ UNCHANGED <<heap, array, cursor, list, state, file, ops, wrong, did>>

\* The rest of getLinkNode and of addElement.
Store(t) ==
  LET a == adding[t]
      s == Linked([heap |-> heap, list |-> list[a.list]], array[a.at - 1], a.value)
  IN  /\ ~aborted /\ a # Idle
      /\ cursor' = a.at - 1
      /\ heap' = s.heap
      /\ list' = [list EXCEPT ![a.list] = s.list]
      /\ adding' = [adding EXCEPT ![t] = Idle]
      /\ did' = <<"add", a.list>>
      /\ UNCHANGED <<array, state, file, aborted, adds, ops, wrong>>

\* Mutant: the rest of the list is not linked behind curB.
InsertedAtEnd(h, curA, curB) == [h EXCEPT ![curA].next = curB]
\* curB behind curA.
Inserted(h, curA, curB) == [h EXCEPT ![curA].next = curB, ![curB].next = h[curA].next]

\* One turn of merge's loop: curA goes on, by its skip where that does not lead too
\* far, or curB goes behind curA.
Turn(r) ==
  LET h == r.heap
      next == h[r.curA].next
      skip == h[r.curA].skip
      Less(n) == n # NULL /\ h[n].data < h[r.curB].data
  IN  CASE r.curB = NULL -> r
        [] r.curB # NULL /\ Less(next) -> [r EXCEPT !.curA = IF Less(skip) THEN skip ELSE next]
        [] r.curB # NULL /\ next = NULL -> [r EXCEPT !.heap[r.curA].next = r.curB, !.curB = NULL]
        [] OTHER -> [heap |-> Inserted(h, r.curA, r.curB), curA |-> r.curB, curB |-> h[r.curB].next]
\* The loop takes fewer turns than there are nodes.
Weave(h, curA, curB) ==
  LET turn[k \in 0 .. PoolSize] ==
        IF k = 0 THEN [heap |-> h, curA |-> curA, curB |-> curB] ELSE Turn(turn[k - 1])
  IN  turn[PoolSize].heap

\* merge: tail and skip_pre stay what they were.  Two lists that share a node (two
\* threads took it) would be woven into a ring, in a loop that does not end; the model
\* stops short of it.
Merge(a, b) ==
  LET A == list[a]
      B == list[b]
      swap == A.head = NULL \/ heap[B.head].data < heap[A.head].data
      head == IF swap THEN B.head ELSE A.head
      curB == IF swap THEN A.head ELSE B.head
  IN  /\ Alone /\ a # b /\ Usable(a) /\ Usable(b)
      /\ B.head # NULL
      /\ NodesOf(a) \cap NodesOf(b) = {}
      /\ heap' = Weave(heap, head, curB)
      /\ list' = [list EXCEPT ![a].head = head, ![a].nodeCount = @ + B.nodeCount, ![b] = NewList]
      /\ state' = [state EXCEPT ![a] = "merged", ![b] = "new"]
      /\ did' = <<"merge", a, b>>
      /\ UNCHANGED <<array, cursor, adding, file, aborted, wrong>>

\* Mutant: a skip is taken that leads to v itself.
SkippedTo(n, v) == LET skip == heap[n].skip IN IF skip # NULL /\ v >= heap[skip].data THEN skip ELSE n
\* The skip of n, where it leads to a node that is less than v.
Skipped(n, v) == LET skip == heap[n].skip IN IF skip # NULL /\ v > heap[skip].data THEN skip ELSE n

\* The inner loop of intersection: from curB to the first node that is not less.
Advance(curB, v) ==
  LET at[k \in 0 .. PoolSize] ==
        IF k = 0 THEN curB
        ELSE LET n == at[k - 1]
             IN  IF n = NULL \/ v <= heap[n].data THEN n ELSE heap[Skipped(n, v)].next
  IN  at[PoolSize]

\* The positions of the nodes as whose value the list from curB on has too: the
\* outer loop, at[i] being curB when it is done with the i-th node.
Shared(as, curB) ==
  LET at[i \in 0 .. Len(as)] == IF i = 0 THEN curB ELSE Advance(at[i - 1], heap[as[i]].data)
  IN  {i \in DOMAIN as : at[i] # NULL /\ heap[at[i]].data = heap[as[i]].data}

\* Each of the nodes kept leads to the next one.
Relinked(h, kept) ==
  [m \in Nodes |->
     IF \E i \in DOMAIN kept : kept[i] = m
     THEN LET i == CHOOSE i \in DOMAIN kept : kept[i] = m
          IN  [h[m] EXCEPT !.next = IF i = Len(kept) THEN NULL ELSE kept[i + 1]]
     ELSE h[m]]

\* intersection: skips of the nodes kept stay, also those to freed nodes.
Intersect(a, b) ==
  LET as == Chain(a)
      shared == Shared(as, list[b].head)
      kept == Those(as, shared)
  IN  /\ Alone /\ a # b /\ Usable(a) /\ Usable(b)
      /\ heap' = Relinked(heap, kept)
      /\ list' = [list EXCEPT ![a].head = IF kept = <<>> THEN NULL ELSE kept[1],
                              ![a].nodeCount = Len(kept)]
      /\ FreeNodes(Those(as, DOMAIN as \ shared))
      /\ state' = [state EXCEPT ![a] = "intersected"]
      /\ did' = <<"intersection", a, b>>
      /\ UNCHANGED <<adding, file, aborted, wrong>>

\* Mutant: head keeps the first of the freed nodes.
WriteKeepsHead(l) ==
  /\ Alone /\ state[l] # "written"
  /\ file' = Data(l)
  /\ FreeNodes(Chain(l))
  /\ state' = [state EXCEPT ![l] = "written"]
  /\ did' = <<"write", l>>
  /\ UNCHANGED <<heap, list, adding, aborted, wrong>>
\* write2file.
Write(l) ==
  /\ Alone /\ state[l] # "written"
  /\ file' = Data(l)
  /\ FreeNodes(Chain(l))
  /\ list' = [list EXCEPT ![l].head = NULL, ![l].nodeCount = 0]
  /\ state' = [state EXCEPT ![l] = "written"]
  /\ did' = <<"write", l>>
  /\ UNCHANGED <<heap, adding, aborted, wrong>>

\* readFromFile into a new list.
Read(l) ==
  LET n == Len(file)
      s[i \in 0 .. n] ==
        IF i = 0 THEN [heap |-> heap, list |-> NewList] ELSE Linked(s[i - 1], array[cursor - i], file[i])
  IN  /\ Alone /\ file # NoFile /\ state[l] = "new" /\ list[l] = NewList
      /\ IF n <= cursor
         THEN heap' = s[n].heap /\ list' = [list EXCEPT ![l] = s[n].list] /\ cursor' = cursor - n
              /\ did' = <<"read", l>> /\ UNCHANGED aborted
         ELSE aborted' = TRUE /\ UNCHANGED <<heap, list, cursor, did>>
      /\ UNCHANGED <<array, state, adding, file, wrong>>

\* ~LinkList, and a new list in its place.
Destroy(l) ==
  /\ Alone /\ (state[l] # "new" \/ list[l] # NewList)
  /\ FreeNodes(Chain(l))
  /\ wrong' = (wrong \/ list[l].nodeCount # Len(Chain(l)))
  /\ list' = [list EXCEPT ![l] = NewList]
  /\ state' = [state EXCEPT ![l] = "new"]
  /\ did' = <<"destroy", l>>
  /\ UNCHANGED <<heap, adding, file, aborted>>

Next ==
  \/ \E t \in Threads : (\E l \in Lists, v \in Values : Load(t, l, v)) \/ Store(t)
  \/ \E a, b \in Lists : Merge(a, b) \/ Intersect(a, b)
  \/ \E l \in Lists : Write(l) \/ Read(l) \/ Destroy(l)

Spec == Init /\ [][Next]_vars

(***************************************************************************)
(* Properties.                                                             *)
(***************************************************************************)
TypeOK ==
  /\ heap \in [Nodes -> [data : Values \cup {0}, next : Nodes \cup {NULL}, skip : Nodes \cup {NULL}]]
  /\ array \in [0 .. ArraySize - 1 -> Nodes \cup {NULL}]
  /\ cursor \in 0 .. ArraySize
  /\ list \in [Lists -> [head : Nodes \cup {NULL}, tail : Nodes \cup {NULL},
                         skip_pre : Nodes \cup {NULL}, nodeCount : Nat]]
  /\ state \in [Lists -> {"new", "merged", "intersected", "written"}]

\* Every node is in one place: a free slot of the pool or one list, once.  Nothing
\* is lost by merge, intersection, write2file or the destructor, or freed twice.
NodesAccounted ==
  LET free == [i \in 1 .. cursor |-> array[i - 1]]
      Once(c) == \A i, j \in DOMAIN c : c[i] = c[j] => i = j
      slots == {array[i] : i \in 0 .. cursor - 1}
  IN  /\ Once(free) /\ \A l \in Lists : Once(Chain(l))
      /\ \A l \in Lists : NodesOf(l) \cap slots = {}
      /\ \A l, m \in Lists : l # m => NodesOf(l) \cap NodesOf(m) = {}
      /\ slots \cup UNION {NodesOf(l) : l \in Lists} = Nodes

\* The destructor finds as many nodes as were counted ("There are Something wrong in
\* LinkList", linklist.h:111).
CountsRight == ~wrong

\* merge and intersection may follow a skip instead of a chain of nexts: it leads
\* forward within the list, to a value that is not less.
SkipsForward ==
  \A l \in Lists : Usable(l) =>
    LET c == Chain(l) IN
      \A i \in DOMAIN c :
        heap[c[i]].skip # NULL => \E j \in i + 1 .. Len(c) : c[j] = heap[c[i]].skip

\* Each operation does to the values of the lists what it promises.
Abstract == INSTANCE ValueLists
              WITH contents <- [l \in Lists |-> Data(l)], saved <- file
ImplementsLists == Abstract!Spec
=============================================================================
