----------------------------- MODULE FlowTable -----------------------------
(***************************************************************************)
(* One bucket of the hash table as the program keeps it: LinkNodes in the  *)
(* heap, their nextdata, nextlink and tail pointers, and the counters      *)
(* beside them.  bucket_mutex makes a push and the export of a chain one   *)
(* step each.  The bucket implements FlowLists.  A packet that is cut off  *)
(* leaves its LinkNode behind, which nothing deletes.                      *)
(***************************************************************************)
EXTENDS Integers, Sequences, FiniteSets, Paths

CONSTANTS CutOff,         \* CUTOFF
          Records,        \* [flow, len, sec]: what parsers may push
          MaxNodes,       \* bound: LinkNodes alive at once
          MaxPackets      \* bound: packets pushed in one behaviour

ASSUME FlowTableAssumption ==
    /\ CutOff \in Nat /\ MaxNodes \in Nat \ {0} /\ MaxPackets \in Nat
    /\ \A r \in Records : r.len \in Nat \ {0}

Nodes == 1 .. MaxNodes
Pointer == Nodes \cup {NULL}

VARIABLES
    hash_table,       \* the bucket's head pointer
    node,             \* the LinkNodes that exist: node |-> its four fields
    packet_num,       \* packet_num[bucketID].first
    bucket_size,      \* HASH_PERF's bucket_size[bucketID]
    totalRecordNum,
    dropped,          \* auxiliary, no action reads it: the nodes of packets cut off
    pushed            \* packets pushed so far

vars == <<hash_table, node, packet_num, bucket_size, totalRecordNum, dropped, pushed>>

\* A Record is the packet's [flow, len, sec] and its own file_offset.
Data == [flow : {r.flow : r \in Records}, len : {r.len : r \in Records},
         sec : {r.sec : r \in Records}, file_offset : Nat]
LinkNode == [data : Data, nextdata : Pointer, nextlink : Pointer, tail : Pointer]

\* A pointer to a deleted node is followed no further.
NextLink(heap) == [n \in Nodes |-> IF n \in DOMAIN heap THEN heap[n].nextlink ELSE NULL]
NextData(heap) == [n \in Nodes |-> IF n \in DOMAIN heap THEN heap[n].nextdata ELSE NULL]

Heads(h, heap)   == Follow(NextLink(heap), h)
ChainOf(h, heap) == Follow(NextData(heap), h)

ASet(s) == {s[i] : i \in DOMAIN s}

Init ==
    /\ hash_table = NULL /\ node = [n \in {} |-> NULL]
    /\ packet_num = 0 /\ bucket_size = 0 /\ totalRecordNum = 0
    /\ dropped = {} /\ pushed = 0

-----------------------------------------------------------------------------
(* push_record *)

Fresh == CHOOSE n \in Nodes \ DOMAIN node : TRUE

\* new LinkNode( rec )
NewNode(rec) ==
    [data |-> [flow |-> rec.flow, len |-> rec.len, sec |-> rec.sec,
               file_offset |-> rec.len],
     nextdata |-> NULL, nextlink |-> NULL, tail |-> NULL]

Extend(cur, n) == [m \in DOMAIN node \cup {cur} |-> IF m = cur THEN n ELSE node[m]]

\* The nodes of the nextlink list whose record equals rec; the loop takes the
\* first one.
Equal(rec) == {i \in DOMAIN Heads(hash_table, node) :
                 node[Heads(hash_table, node)[i]].data.flow = rec.flow}
Match(rec) ==
    Heads(hash_table, node)[CHOOSE i \in Equal(rec) : \A j \in Equal(rec) : i <= j]

MayPush == pushed < MaxPackets /\ Nodes \ DOMAIN node # {}

PushFirst(rec) ==
    /\ MayPush /\ hash_table = NULL
    /\ LET cur == Fresh IN
          /\ node' = Extend(cur, [NewNode(rec) EXCEPT !.tail = cur])
          /\ hash_table' = cur
    /\ packet_num' = packet_num + 1 /\ bucket_size' = 1
    /\ totalRecordNum' = totalRecordNum + 1 /\ pushed' = pushed + 1
    /\ UNCHANGED dropped

\* A flow the bucket does not hold: the new node goes in front.
PushFlow(rec) ==
    /\ MayPush /\ hash_table # NULL /\ Equal(rec) = {}
    /\ LET cur == Fresh IN
          /\ node' = Extend(cur, [NewNode(rec) EXCEPT !.tail = cur,
                                                      !.nextlink = hash_table])
          /\ hash_table' = cur
    /\ packet_num' = packet_num + 1 /\ bucket_size' = bucket_size + 1
    /\ totalRecordNum' = totalRecordNum + 1 /\ pushed' = pushed + 1
    /\ UNCHANGED dropped

\* Append the node and its bytes to the chain whose head is ptr (mutant: the
\* bytes are counted on the packet's own record).
LinkedElsewhere(heap, ptr, cur, len) ==
    LET last == heap[ptr].tail
        h1   == [heap EXCEPT ![last].nextdata = cur]
    IN  [h1 EXCEPT ![ptr].tail = cur, ![cur].data.file_offset = @ + len]
Linked(heap, ptr, cur, len) ==
    LET last == heap[ptr].tail
        h1   == [heap EXCEPT ![last].nextdata = cur]
    IN  [h1 EXCEPT ![ptr].tail = cur, ![ptr].data.file_offset = @ + len]

\* Swap the significant fields of the first head and of ptr; a tail that would
\* point at the other head is turned back to its own (mutant: it is not).
SwappedRaw(heap, tmp, ptr) ==
    [heap EXCEPT ![tmp] = [heap[ptr] EXCEPT !.nextlink = heap[tmp].nextlink],
                 ![ptr] = [heap[tmp] EXCEPT !.nextlink = heap[ptr].nextlink]]
Swapped(heap, tmp, ptr) ==
    LET h == [heap EXCEPT ![tmp] = [heap[ptr] EXCEPT !.nextlink = heap[tmp].nextlink],
                          ![ptr] = [heap[tmp] EXCEPT !.nextlink = heap[ptr].nextlink]]
        g == IF h[tmp].tail = ptr THEN [h EXCEPT ![tmp].tail = tmp] ELSE h
    IN  IF g[ptr].tail = tmp THEN [g EXCEPT ![ptr].tail = ptr] ELSE g

PushPacket(rec) ==
    /\ MayPush /\ hash_table # NULL /\ Equal(rec) # {}
    /\ node[Match(rec)].data.file_offset + rec.len <= CutOff
    /\ LET cur == Fresh
           ptr == Match(rec)
       IN  node' = Swapped(Linked(Extend(cur, NewNode(rec)), ptr, cur, rec.len),
                           hash_table, ptr)
    /\ UNCHANGED <<hash_table, dropped>>
    /\ packet_num' = packet_num + 1 /\ bucket_size' = bucket_size + 1
    /\ totalRecordNum' = totalRecordNum + 1 /\ pushed' = pushed + 1

\* Cut off: the packet goes back to the pool; the node and the record made for it
\* stay in the heap with no pointer to them, and packet_num has already counted them.
PushCutOff(rec) ==
    /\ MayPush /\ hash_table # NULL /\ Equal(rec) # {}
    /\ node[Match(rec)].data.file_offset + rec.len > CutOff
    /\ node' = Extend(Fresh, NewNode(rec))
    /\ dropped' = dropped \cup {Fresh}
    /\ packet_num' = packet_num + 1 /\ pushed' = pushed + 1
    /\ UNCHANGED <<hash_table, bucket_size, totalRecordNum>>

-----------------------------------------------------------------------------
(* export_timeout_flows, for one chain that is due and fits *)

\* Unlink heads[i]; pre is the head before it (mutant: pre keeps its link).
RelinkedNot(heap, heads, i) == heap
Relinked(heap, heads, i) ==
    IF i = 1 THEN heap
    ELSE [heap EXCEPT ![heads[i - 1]].nextlink = heap[heads[i]].nextlink]

\* The bucket's head moves when its own chain goes (mutant: it never does).
NewHeadStuck(heads, i) == hash_table
NewHead(heads, i) == IF i = 1 THEN node[heads[1]].nextlink ELSE hash_table

\* export_chain deletes every node of the chain and counts it off.
ExportChain(i) ==
    LET heads == Heads(hash_table, node)
        gone  == ASet(ChainOf(heads[i], node))
        heap  == Relinked(node, heads, i)
    IN  /\ hash_table' = NewHead(heads, i)
        /\ node' = [n \in DOMAIN node \ gone |-> heap[n]]
        /\ totalRecordNum' = totalRecordNum - Len(ChainOf(heads[i], node))
        /\ packet_num' = packet_num - Len(ChainOf(heads[i], node))
        /\ UNCHANGED <<bucket_size, dropped, pushed>>

\* A bound is reached, of packets or of nodes, and the bucket is drained.
Drained == ~MayPush /\ hash_table = NULL /\ UNCHANGED vars

Next == \/ \E rec \in Records : \/ PushFirst(rec) \/ PushFlow(rec)
                                \/ PushPacket(rec) \/ PushCutOff(rec)
        \/ \E i \in DOMAIN Heads(hash_table, node) : ExportChain(i)
        \/ Drained

Spec == Init /\ [][Next]_vars

-----------------------------------------------------------------------------
(* Properties *)

HeadSet == ASet(Heads(hash_table, node))

TypeOK ==
    /\ hash_table \in DOMAIN node \cup {NULL}
    /\ DOMAIN node \subseteq Nodes
    /\ \A n \in DOMAIN node : node[n] \in LinkNode
    /\ packet_num \in Nat /\ bucket_size \in Nat /\ totalRecordNum \in Nat
    /\ dropped \subseteq DOMAIN node

\* The tail of a head is the last node of its own chain, through appends, new
\* flows, swaps of one-node chains and exports (the trouble described at
\* exporter.cpp:235): a wrong tail would graft a packet onto another flow.
TailIsLast ==
    \A h \in HeadSet \cap DOMAIN node :
        LET c == ChainOf(h, node) IN node[h].tail = c[Len(c)]

\* Every node that exists is on exactly one chain, except those of packets that were
\* cut off, which are on none and never deleted (exporter.cpp:173, 205-209); no
\* chain leads to a node that was deleted.  totalRecordNum counts the nodes on chains
\* (exporter.h:62); packet_num, of which an export takes off what totalRecordNum lost,
\* counts the others too, for ever.
NodesOnOneChain ==
    /\ UNION {ASet(ChainOf(h, node)) : h \in HeadSet} = DOMAIN node \ dropped
    /\ \A g, h \in HeadSet :
          g # h => ASet(ChainOf(g, node)) \cap ASet(ChainOf(h, node)) = {}
    /\ totalRecordNum = Cardinality(DOMAIN node \ dropped)
    /\ packet_num = Cardinality(DOMAIN node)

\* The chains the pointers stand for.
ChainAt(h) ==
    [flow |-> node[h].data.flow, file_offset |-> node[h].data.file_offset,
     pkts |-> [i \in DOMAIN ChainOf(h, node) |->
                 LET d == node[ChainOf(h, node)[i]].data
                 IN  [len |-> d.len, sec |-> d.sec]]]

Chains == [i \in DOMAIN Heads(hash_table, node) |->
             ChainAt(Heads(hash_table, node)[i])]

Lists == INSTANCE FlowLists WITH chains <- Chains

\* Pointer by pointer, push_record and the export do to the bucket what
\* PushRecord and Unlink do to a list of chains, so ScanIndex may use those.
ImplementsLists == Lists!Spec
=============================================================================
