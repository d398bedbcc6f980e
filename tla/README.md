# TrafficStorage in TLA+

TrafficStorage captures packets from a network device, groups them by flow in a
hash table, writes the packets of flows that timed out to data files of at most
4 000 000 000 bytes and keeps four index files (source and destination address
and port) beside each data file. This directory models the program in TLA+,
checks the models with TLC and proves theorems about them with TLAPS. Paths are
those of the repository (`src/src/...`).

## 1. The system

| Component | State | Operations | Talks to |
|---|---|---|---|
| Collector (`collector.cpp`, `resourcePool.h`) | pool of `MAX_PACKETS` packets, `pkt_queue`, two mutexes | `collect`, `get_packet`, `set_resource_free`, `~Collector` | libtrace; parsers take from the queue; parsers and the scan thread give packets back |
| Parser (`parser.cpp`), two threads | the packet in hand | `packet_process`, `process_ethernet` | collector; `Exporter::push_record` |
| Exporter, hash table (`exporter.cpp`, `exporter.h`) | `hash_table` of LinkNodes, `bucket_mutex`, `packet_num`, `bucket_size`, `totalRecordNum`, `last_packet_timeval` | `push_record`, `export_chain`, `export_timeout_flows` | parsers push, the scan thread exports |
| Exporter, scan thread | `file_is_full`, `fileID`, `exit_signal` | `scan_hash_table` | index threads through `queueLock`, `readCode`, `emptyCond`, `fullCond` |
| Index (`index.cpp`, `index.h`), four threads | `linkNodePool`, `readCode`, four tries, `exit_signal` | `index_thread_start`, `buildIndex`, `write_index_to_file`, `clear_linkNodePool` | the scan thread |
| FileWriter, FileManager | `file_size`, `file_num` | `write_file`, `reset_file`, `apply_file_ID` | the scan thread |
| Record | header fields, time stamp, `file_offset` | `hash`, `equals`, `inc_file_offset` | all of the exporter |
| IndexBase (`index.h`) with Trie or BTree (`util/trie*`, `util/btree*`), Bitmap | nodes, `nodeCount`, one index file | `addItem`, `write2file`, `readFromFile`, `queryFromFile` | one index thread adds, the scan thread saves; each key has a LinkList |
| LinkList (`util/linklist.h`) | nodes with `next` and `skip`, counts, a static pool of nodes shared by all lists | `addElement`, `merge`, `intersection`, `write2file`, `readFromFile` | the leaves of all indexes |
| main (`main.cpp`) | | start, cancel, signal, join, delete | everything |

What is hard in it:

* the index threads read `linkNodePool` and write their tries **without** a lock;
  only the protocol of `readCode` bits and two condition variables keeps the
  scan thread away;
* one index thread tests `readCode` after it has unlocked `queueLock`;
* `last_packet_timeval` and `totalRecordNum` are written by racing threads, and
  a pool push has no mutex;
* the shutdown is a chain of cancels, signals and joins; any lost wakeup hangs it;
* bounded resources: the packet pool, `linkNodePool`, the data file, file names;
* pointer surgery: the heads of two chains trade their contents, not their places;
* the lists of all indexes share one node pool without a lock, and their skip
  pointers outlive merges;
* an index file promises offsets before the nodes they point to are written.

`PROJECT.json` lists these hazards with their lines and the properties on them.

## 2. The modules

| Module | Models |
|---|---|
| `Bucket` | one bucket as a list of chains: `push_record` and unlinking as operators |
| `FileWriter` | the 32-bit size arithmetic, refusal of writes, file names |
| `ScanIndex` | the core: parsers, scan thread, index threads, data and index files, shutdown |
| `BatchHandoff` | the abstract hand-over between scan thread and index threads |
| `FlowTable` | one bucket as LinkNodes with `nextdata`, `nextlink`, `tail` and its counters |
| `FlowLists` | the abstract bucket that `FlowTable` implements; it uses `Bucket`'s operators |
| `Pipeline` | ownership of packets between pool, queue, parsers, table and scan thread; the shutdown of main |
| `Backpressure` | the packet pool in time: stamps, timeouts, exhaustion |
| `LinkList` | lists of values down to `next`, `skip`, the node pool and the two steps of `getLinkNode` |
| `ValueLists` | the abstract lists that `LinkList` implements: ascending sequences and one file |
| `Paths` | where a pointer leads; the elements of a sequence at some positions; sums; sequences one behind the other |
| `Bitmap`, `ListFile` | pure operators: words and bits; a list in memory and in a file |
| `NodeFile` | breadth-first saving with offsets promised in advance, and loading, for any kind of node |
| `Trie`, `BTree` | pure operators: addition, splits, saving, loading, queries in a file |
| `IndexBase` | one index and its file in time, a trie or a B-tree |
| `KeyIndex` | the abstract index: a map from keys to lists of values |
| `MC...` | constants, bounds and symmetry for TLC |
| `ScanIndexProofs` | theorems about `ScanIndex`: protocol and batches, the abstract hand-over, then chains and data files |
| `FlowTableProofs`, `LinkListProofs` | the pointer theorems of `FlowTable` and of `LinkList`, and their refinements |
| `PipelineProofs`, `BackpressureProofs` | theorems about packets and their pool |
| `IndexBaseProofs` | theorems about `IndexBase`: bitmaps, lists and trees in a file, then the trie and its queries |
| `BTreeProofs` | theorems about `IndexBase`: the B-tree and its file, and what holds of either index |
| `DataLemmas` | induction on lengths and sizes, recursive functions, sequences less one element, what a pointer leads through, elements at some positions |

`ScanIndex` EXTENDS `Bucket` and `FileWriter` and implements `BatchHandoff`
(`Handoff` is the INSTANCE, `ImplementsHandoff` the property). `FlowTable`
implements `FlowLists`, whose steps are exactly the operators `ScanIndex` uses,
so the pointer level and the thread level meet in `Bucket`. `Pipeline` abstracts
the table to a set of packets and the exporter's choice of flows to any choice;
`Backpressure` keeps only counts and stamps. `Trie` and `BTree` both EXTEND
`NodeFile` and use it with their own children, sizes and fields; `IndexBase` takes every step
together with the step of `KeyIndex` it stands for, and `HoldsMap` says that the
index and its file are what the map says. Lists in `Trie` and `BTree` are plain
sequences; `LinkList` shows that the pointer lists behave as such (`ImplementsLists`).
What `IndexBase` promises is what `ScanIndex` assumes of a trie: the list of the
entries added to it, saved at once and emptied.

### ScanIndex against the code

* `spc` is the scan thread's place in `scan_hash_table`. It holds `queueLock` at
  the places of `QueueLockPlaces` and `bucket_mutex[bucket]` at "chain" and
  "write". `exiting` tells the exit branch (lines 49-82) from the normal round.
* An index thread's critical section (lock, loop test, unlock; or lock, `^=`,
  unlock) is one step, since nothing inside is visible elsewhere. `buildIndex`
  is one step per record, because it runs unlocked and asks for `size()` anew
  in each turn. `IndexPeek` is the test of `readCode` after the unlock.
* A wait on a condition variable is membership of `fullWait`, or `scanWaiting`;
  a woken thread tests its condition again. `SpuriousWakeup` may wake anyone.
* `Stamp` writes `last_packet_timeval` before the bucket's mutex is taken, as in
  `push_record`; two parsers interleave there.
* `StartScan` may choose either timeout in a normal round because
  `totalRecordNum` is read without a lock while others change it.
* `datFile` records per exported chain the offset of its first and of its last
  packet; `WriteFile` leaves `file_size` alone when `write_file` refuses, and the
  chain is exported and indexed all the same, as in `export_chain`.
* `linkNodePool` drops a record when it is full, as `push_resource` does.
* A capture may end at any moment when no parser is between two steps of a packet.

### FlowTable against the code

A LinkNode is a record with the four fields of `exporter.h:42`; the heap is a
function from the nodes that exist, so `delete` removes from its domain. Swapping
exchanges `data`, `tail`, `nextdata` of two heads, then turns a tail back that
points at the other head. `HASH_PERF`'s `bucket_size` is included. `push_record` makes the
LinkNode before it knows whether the packet is cut off, and its early return leaves
that node and its Record in the heap: `PushCutOff` adds a node no pointer leads to. The
auxiliary variable `dropped` remembers these nodes for `NodesOnOneChain`, which says that
exactly they are on no chain; no action reads it but to extend it.

### Pipeline against the code

A push to the pool is two steps, the load of `cursor` and the stores, because
`collect` makes its last push without the mutex (line 160). `GetFree` and the
queue operations are critical sections of one step. A parser can be cancelled at
its first `printf` and at `pthread_testcancel`; the result of `get_packet` is an
earlier step than the test. main cancels and joins one parser after the other.

### Backpressure against the code

A packet is its flow and the second libtrace gave it, which never goes back in the order of capture
(`Tick`). `Capture` fills a packet of the pool and queues it. A parser takes it
(`GetPacket`), throws it away (`Reject`) or writes its second to `last_packet_timeval`
with no lock (`Stamp`), and then, under the bucket's mutex, appends it (`Insert`) or
returns it to the pool (`CutOff`). Between its two steps anything may happen, so a stamp may be
overwritten by an older one. A round of the scan thread copies the stamp once and chooses its timeout
(`StartScan`), then visits bucket by bucket, each under its mutex (`Visit`), while flows begin and
grow. A flow is due by its first packet (`exporter.cpp:339`). `totalRecordNum` is
exact here, the racy updates of `exporter.cpp:252` are not modelled; no data file is full
and no index thread late, which is `ScanIndex`'s subject; and the exit scan, with a timeout
of 0, is left to `ScanIndex` as well. When a flow may be cut off is left open.

`NoEarlyExport` compares what the scan thread does by its copy with the capture's own
clock. `OldFlowExported` speaks of every stamp that is written or still to be written: if a flow is old by
all of them it leaves the table, whatever order the parsers write them in and even if no packet
ever comes again. A flow that is old by some of them only may stay: the last parser may
write the oldest.

### LinkList against the code

The heap maps a node to its `data`, `next` and `skip`; `array[0..cursor-1]` are the
free nodes, as in the class. `getLinkNode` is two steps, `Load` (the read of
`cursor`) and `Store` (its write, the node's fields and the rest of `addElement`,
which touches nothing another thread's list should own). The other operations run
while no thread adds and are one step each. `state` is no variable of the
program: it records which operations a list is still fit for. After a merge `tail`
is not the last node, after an intersection skips lead to freed nodes, after
`write2file` `tail` and `skip_pre` stay set; no caller adds, merges or intersects such
lists, and `Growable` and `Usable` keep the model to that. A list is filled in ascending order, which
`AscendingOffsets` of `ScanIndex` provides. `initLinkNodePool` is called nowhere in
the repository; the model starts after a call of it. Without one the first
`addElement` stops the program at `assert( cursor > 0 )` (`linklist.h:76`).

### Trie, BTree and IndexBase against the code

A tree is a table of nodes named by their places, since nothing but identity
matters of a pointer. A file is a sequence of fields, each one element wide, and
an offset counts fields; sizes and offsets are computed as the code does, from
`getSizeOfFile` before anything is written, so a size that disagrees with what is
written shows up as a query that reads the wrong place. `FILE` variants are
modelled, as `USE_FILEIO` is defined in the Makefile. `treeDepth` is
kept because splits change it; loading leaves it 0, as in the code. B-tree positions count
from 1 and position -1 is 0. `BTreeQuery` is NULL when a scan meets the end of the file, because
`queryFromFile` drops what it found (`btree.h:452`); a query of a trie is NULL
when a level above the leaves has no match and empty when only the leaves have none.

## 3. Runs

| Run | Checks | Result |
|---|---|---|
| `scan_index` | `TypeOK`, `Exclusion`, `CurrentFaithful`, `IndexFaithful`, `AscendingOffsets`, `ChainsAccounted`, `FlowStoredWhole`, `IndexFilesAgree` | hold |
| `scan_index_live` | `ExitCompletes`, `BatchTaken`, `ImplementsHandoff` | hold |
| `flow_table` | `TypeOK`, `TailIsLast`, `NodesOnOneChain`, `ImplementsLists` | hold |
| `pipeline` | `OneOwner`, `Conserved`, `ShutdownCompletes` | hold |
| `backpressure` | `NoEarlyExport`, `ExhaustedRecovers`, `OldFlowExported` | hold |
| `link_list` | `TypeOK`, `NodesAccounted`, `CountsRight`, `SkipsForward`, `ImplementsLists` | hold, for one thread |
| `index` | `TypeOK`, `NodesCounted`, `HoldsMap`, `EntriesKept`, `TrieQueryExact`, `BTreeQuerySound`, `ReloadedSame` | hold |

The other runs each check what a comment or a check in the source says and TLC refutes it:

| Run | What the code does |
|---|---|
| `exit_full` | the last export stops at a full data file, the rest of the table is lost |
| `flow_stored_whole` | the capacity test wraps modulo 2^32 with the build's `CUTOFF` of 1 GiB; packets are dropped |
| `pool_controlled` | a pool push without the mutex loses a packet |
| `btree_split` | `splitNode` overwrites `midvalue` before it has filed the lower half under it (`btree.h:171`); queries miss records |
| `list_pool` | two index threads take the same list node (`linklist.h:77`); the destructor finds more nodes than were counted |

Further disagreements met on the way have no run of their own. The index stores
where a flow's last packet starts (`exporter.cpp:288`), not the start of the flow
(`index.cpp:150`). The age of a flow counts from its first packet
(`exporter.cpp:339`), not from its last (`exporter.cpp:323`). Parsers that are cancelled leave packets in the
queue (`parser.cpp:50`), which `collector.cpp:32` says are waited for. A pool that
is exhausted within one timeout stops the clock exports depend on, so nothing
brings the table below the bound of `collector.h:21` again: this is the second way out
that `ExhaustedRecovers` has to allow. No query of a B-tree returns anything when its
upper bound is at or beyond the greatest key (`btree.h:451-454`), though the comment
at `btree.h:436` promises all records in the range; the properties of queries
ask for them only below the greatest key. The last export
also takes a racy stamp for the time of day and passes over flows whose stamps
are later (`exporter.cpp:175, 339`). `apply_file_ID` wraps at `MAX_FILE_NUM` and
hands out names that hold data, which `reset_file` truncates
(`fileManager.h:34-36`). `packet_num` keeps counting packets that were cut off
(`exporter.h:73`, `exporter.cpp:183`), whose LinkNode and Record nothing deletes, and `bucket_size` counts packets rather than
flows and never goes down (`exporter.h:68`, `exporter.cpp:215`). Two comments disagree with constants and need no run: `CUTOFF` is 1 GiB
where its comment says 20k, and `FLOW_TIMEOUT` is 20 seconds where its comment
says 3 minutes (`exporter.h:28-30`).

### Bounds, and why they are enough

* `scan_index`: two parsers (one can be between `Stamp` and `Insert` while the
  other does anything), two index threads (one can be first or last to clear its
  bit), one bucket shared by two flows, three or four packets, files of 3 bytes
  and two file names, so that files fill, rotate and names come round; `CutOff`
  2 so that a packet is cut off. `PoolSize` 2 is never exceeded in this run.
* `scan_index_live`: two buckets, two packets, no symmetry (it is unsound for
  liveness). `PoolSize` is 1: two small packets leave the table in one batch, the second
  finds `linkNodePool` full and is in no index (`exporter.cpp:291`); two large
  ones need two files.
* `flow_table`: three flows, four nodes at once, five pushes: chains of one and
  of several nodes at the first, a middle and the last place.
* `pipeline`: three packets, two parsers: the pool can be empty while each thread
  but one holds a packet.
* `link_list`: two lists of at most three and two values out of four, four
  nodes, skips over two nodes (500 in the code), three operations besides additions: a merge
  that follows a skip, one that weaves, an intersection that skips, a list loaded
  from the file and merged again, and a pool that runs out.
* `index`: keys of three digits of two bits over words of three bits, so that a
  bitmap has two words; seven keys that share none, one or two digits, one with two
  values; B-tree nodes of four keys, so that the root, a leaf, splits and both
  halves fill up again. A second split on the way up is what `btree_split`
  reaches, with nodes of two keys; there `EntriesKept`, `NodesCounted`, `ReloadedSame` and
  `BTreeQuerySound` still hold (107,669 states, checked by naming them in that configuration in
  place of `BTreeQueryExact`), while `HoldsMap` does not.
* `list_pool`: one list of one value and one of two, a pool of three.
* `backpressure`: two flows in two buckets, two parsers and three packets, so that the pool can
  be exhausted with packets in the queue, in both parsers' hands or all in the table, and one
  parser may stamp and push between two steps of the other and of a round; three
  seconds with timeouts of one and two, so that stamps, timeouts and the choice between them
  matter. How many packets are captured is not bounded.
* `exit_full`, `flow_stored_whole`: the traces of `scan_index`, and one that fills a file up to
  where the sum wraps.

`MaxNodes`, `MaxPackets`, `MaxSec`, `MaxAdds`, `MaxAgain`, `MaxPerKey`, `MaxOps` and `Bounds`
are the only bounds the program does not have. `CHECK_DEADLOCK FALSE` appears where the
system may really stop: in `LinkList`, which stops at its bounds and at the assertion on an empty pool.

### Fairness

Weak fairness for each thread: a thread that can go on does. Nothing is assumed
of packets arriving, of time going on (`Tick` and `Capture` of `Backpressure` may never
happen again), of the capture ending, or of spurious wakeups. Mutexes need
no strong fairness in `ScanIndex` and `Pipeline`, since after the exit signal, or the end of the
capture, only finitely many operations compete for them. In `Backpressure` the scan thread
and the parsers meet at the mutex of a bucket as long as packets come; everybody leaves it soon, and it
is assumed that nobody is passed over for ever.

## 4. Theorems

| Theorem | States |
|---|---|
| `ScanIndexProofs!TypeCorrect` | `Spec => []TypeOK` |
| `ExclusionHolds` | `Spec => []Exclusion` |
| `CurrentFaithfulHolds`, `IndexFaithfulHolds` | `Spec /\ []PoolHasRoom => []...` |
| `HandoffImplemented` | `Spec => ImplementsHandoff` |
| `IndexFilesAgreeHolds` | `Spec => []IndexFilesAgree` |
| `ChainsAccountedHolds` | `Spec => []ChainsAccounted` |
| `FlowStoredWholeHolds`, `AscendingOffsetsHolds` | `Spec /\ []SumInRange => []...` |
| `FlowTableProofs!FlowTableTypeCorrect` | `Spec => []TypeOK` |
| `TailIsLastHolds`, `NodesOnOneChainHolds` | `Spec => []TailIsLast`, `Spec => []NodesOnOneChain` |
| `ImplementsListsHolds` | `Spec => ImplementsLists` |
| `LinkListProofs!LinkListTypeCorrect` | `Spec /\ []NoOverlap => []TypeOK` |
| `NodesAccountedHolds`, `CountsRightHolds`, `SkipsForwardHolds` | `Spec /\ []NoOverlap => []...` |
| `ImplementsValueListsHolds` | `Spec /\ []NoOverlap => ImplementsLists` |
| `IndexBaseProofs!TrieHoldsMap` | `Spec => [](kind = "trie" => HoldsMap)` |
| `TrieQueryIsExact` | `Spec => []TrieQueryExact` |
| `BTreeProofs!TypeCorrect` | `Spec => []TypeOK` |
| `NodesAreCounted`, `ReloadedIsSame` | `Spec => []NodesCounted`, `Spec => []ReloadedSame`, for both indexes |
| `EntriesAreKept` | `Spec => []EntriesKept` (of the B-tree) |
| `ScanIndexProofs!HandoffAgrees` | `Handoff!Spec => []Handoff!IndexesAgree` |
| `BackpressureProofs!NoEarlyExportHolds` | `Spec => NoEarlyExport` |
| `PipelineProofs!PipelineTypeCorrect` | `Spec => []TypeOK` |
| `PipelineProofs!OneOwnerHolds` | `Spec => []OneOwner` |
| `PipelineProofs!ConservedHolds` | `Spec => []Conserved` |

They hold for every number of parsers, index threads, flows, buckets, lists and
nodes, every trace and every size, under the assumptions named in the modules.

`Exclusion` is not inductive. What carries it is `Protocol`: a thread inside
`buildIndex` has its bit of `readCode` up; the bits are all down from the moment
the scan thread stops waiting until it raises them; and between the second
raising of the exit branch and its unlock no thread passes its wait. The two
faithfulness theorems add `Copying`: a thread's own copy is a prefix of the batch
while it builds, nothing otherwise, and the pool is empty at rotation and in the
last section. Their premise `PoolHasRoom` is needed: with a million records in
one batch `push_resource` drops the next (`exporter.cpp:291`), and the entry is
missing. `IndexFilesAgree` needs no premise: a dropped record is missing from
every index. It is proved from `BatchHandoff`'s steps alone (`HandoffAgrees`) and carried over by the refinement,
whose mapping hides the bits raised inside the exit branch's last section until
the unlock hands them over.

`OneOwner` is not inductive either: after the push without the lock another
thread may hold a cursor higher than the pool's, and its store makes slots above
the cursor count again. `PoolOwned` therefore speaks of all slots that are in
the pool or that such a store will bring back (`InPool`), and says that none of
their packets is anywhere else. `Conserved` needs `InStep` (before that push, a
thread that pushes has loaded the cursor as it still is) and `NotFull`: the pool
cannot be full while a thread has a packet, by the library's theorem on
injections between finite sets of equal size. Both hold because every push but
the collector's is under the mutex (`Locked`) and nobody pushes once `main`
deletes the collector (`Joined`).

`NoEarlyExport` needs no more than that every second the program keeps, in the queue, in a parser's hand, in
`last_packet_timeval`, in the scan thread's copy and as the first of a flow, is one the capture
has passed (`IInv` of `BackpressureProofs`): the age the scan thread computes is never greater than the true one.

`ChainsAccounted` is inductive once it is known what `Grow`, the trade of places
and `Unlink` do to the sum of a chain (`BytesAppend`, `BytesTail`). The two
theorems about data files are not: what is written so far must be
related to the file. `SizeWhole` says that `file_size` and the bytes of the chain
that are still to be written stay within `MAX_FILE_SIZE` together, so no write is
refused; `OffsetsBelow` that every offset listed of the current file lies below
where the next chain starts. The premise `SumInRange` says that the
32-bit sum of the capacity test (`exporter.cpp:341`) does not wrap when it is
formed. It cannot be dropped: with the build's `CUTOFF` of 2^30 it is false of some
executions, and the run `flow_stored_whole` shows what happens then.

`FlowTable`'s three invariants are proved together with the refinement, from
`IInv`: there are a sequence of heads and, for each, a sequence of nodes, such that
`nextlink` threads the heads and `nextdata` the nodes of each chain (`Linear`), no
node is on two chains (`Disjoint`), every node but those of packets cut off is on one (`Covering`) and a
head's `tail` is its chain's last node (`Tails`); and these chains, read off, are
the sequence of `FlowLists` (`Represents`). `TailIsLast` is needed for the other
two, as an append goes where the tail points. The swap of `exporter.cpp:241` is
treated as a trade: the two heads change places at the front of their chains while
the rest of each chain stays (`TradeShape`); that a tail is turned back is
exactly the case of a chain of one node, whose last node is its head. `Counted` says
that `packet_num` is the number of nodes there are and `totalRecordNum` of those on chains: an
export takes the same number from both, and the early return of a cut-off adds to the first
only. Both need that the nodes left behind are never taken for new ones and never reached by a
pointer. `FollowPath` connects this to the model: the function `Follow` that
walks pointers finds the path, since a path without repetition has at most
`MaxNodes` nodes.

The theorems about `LinkList` have a premise, `NoOverlap`: no two threads are
between the load of `cursor` and its store. The code does not provide it:
`getLinkNode` takes no lock and four index threads call it, and the run `list_pool`
shows two of them with one node. The theorems say that nothing else is wrong with the
lists; with a lock in `getLinkNode` their premise would hold. The invariant is that of
`FlowTable` with a pool: there are sequences of nodes, one for each list,
that together with the free slots are all nodes, none of them twice (`Split`);
`head` and `next` thread them (`Chained`), their values ascend (`Ordered`), a list that
may grow ends in `tail` (`Growing`), and the skips of a list that may be merged or
intersected lead to later nodes of it (`Forward`). A thread in `getLinkNode` has loaded the
cursor as it still is, and its value belongs behind those of its list (`Loading`).
What the sequences are is a witness that each operation replaces, so each has a lemma
(`StoreStep`, `MergeStep`, ...) that names the new one and says what it does to the values.

The two loops need invariants of their own. `Woven` is merge's: the nodes up to
`curA` are in place, `curA` may go on in the first list by `next` or by `skip`, and a
skip of a node in place may lead into the rest, which is still to be woven in; every turn
takes a node from the rest or goes on, so `PoolSize` turns suffice. `Finds` is
that of intersection's inner loop: whether it goes on by a skip or not, no node
that is not less than the value sought has been passed, which needs `Forward` and
`Ordered` of the other list. `ReadSoFar` is the loop of `readFromFile`. That the abstract
`Common` and the list that intersection leaves are the same rests on `InOrderAscends` and
`ThosePicked`: positions in ascending order exist and none is missing. That merge
leaves each value as often as before is a bijection of nodes (`CountIs`).

A trie is proved about through two functions that give each node its level and
the digits that lead to it (`TrieOK`, and `IsTrie` when they exist). A child lies
one level below its parent and has its digits with one more behind, the
leaves are the nodes of level `Depth - 1`, and no two nodes have one level and the
same digits; so the
table is a tree (`TrieIsTree`), and `TrieList` finds for a key the one node that has
its digits, or none (`FiledAt`, `FiledNone`). `addItem` is followed turn by turn:
what it has reached after i turns is a trie with the digits of the key's first i
(`ArrivedAt`, `TrieAddOK`). That the file has what was meant is a chain of facts: `BreadthFirstAll`
says that the queue lists every node once, children in
the order of their parents (`IsOrder`); `WriteNodes` puts each node where the sizes of
those before it add up to, which is the offset its parent promised, because each node
writes as many fields as it announces (`FieldsAre`); and reading a
node at its place gives it back (`NodeRead`). A loaded trie is the saved one with
its nodes numbered in the order of the file (`Renumbered`, `TrieReadIs`), a trie with the
same lists that is written as it was. `TrieInv` says of the system that
the index is a trie with the map's lists, and that the file is what some trie with the saved
lists wrote. TLC cannot enumerate what `IsTrie` says there is; the run checks what follows from it.

A query is followed level by level. After i turns of the loop in `queryFromFile` the
queue holds the offsets and prefixes of exactly those nodes of level i whose prefix
lies between the prefixes of the bounds, in ascending order of the prefixes (`IsLevel`,
`NextLevelOK`); that no key between the bounds is lost rests on `DigitsOrder`: of two
keys the smaller has no greater prefix. A level without such a node means that no key
between the bounds was filed (`Ancestors`: a key that was has a node on every level). The
lists of a leaf lie in the file one behind the other in the order of their digits, so
reading from the first within the bounds finds those and no others (`LeafPart`). What is left is that
`merge` gives one ascending list of what the lists hold (`MergedIs`), which needs that no value
is in two lists. This is what `QueryInv` adds to `TrieInv`: the lists of a trie ascend, no
two of them share a value and none holds one greater than `value`, in memory and in the file
(`Distinct`). It holds because the values are offsets in a file that grows.

Of a B-tree the keys of inner nodes say nothing that could be relied on, as `splitNode`
may file a child under another key than its greatest (`btree.h:171`). What is true of
every B-tree is its shape: each node has as many items as keys and at most `MaxPerNode`, and
there are heights with which the table is a tree (`Wood`, with the root as the only node
without a parent, `BTreeOK`): a child is one lower than its parent, no node has two
parents, and every other node has one. The heights are the witness that the
proof carries: the walk of `addItem` goes down one height at a time, so it ends at a leaf within
as many turns as there are nodes, and `stack` is the way back up (`Passed`). While
`splitNode` goes up, the upper half of the node split last is a second root (`HalfDone`): each
turn hangs it into the parent, which then has to take back the lower half or be split too, and when the stack is
empty the new root takes both halves. Along the way each step says what it does to
the entries of the leaves (`EntryAdded`, `SameEntries`, `EntryIn`), which gives `BTreeAddOK`: `addItem`
files one value under its key in one leaf, and every other entry is where a leaf has it. A
saved B-tree is read back with its nodes numbered in the order of the file (`BReadIs`), by the
lemmas on `NodeFile` that serve the trie, and is written as it was (`BRenumberedSame`).
`BTreeInv` is the invariant: the index is a B-tree with the map's entries, and the file is
what some B-tree with the saved entries wrote.

The lemmas on operators (`Position`, `PushRecord`, `Unlink`, `WriteFile`) are in
`ScanIndexProofs`, those on bitmaps, lists and nodes in a file in `IndexBaseProofs`.
`DataLemmas` holds what they share:
`LeastNatural`, the well-ordering of the naturals that a `CHOOSE` of a least element
needs; `InductionUpTo`, induction for a set of numbers in place of a predicate,
which every prover here can instantiate; `RecursionUpTo`, that a function defined by
recursion exists and satisfies its equation, from which sums over sequences, loops and paths
along pointers are computed; and what a sequence is after one element left it.

Assumed of the constants of the index: a node has more than one child (`TriePerNode`),
a key more than one digit (`Depth`) and no more than those, a word at least one bit
(`WordBits`), a B-tree node an even number of places (`MaxPerNode`); `NoFile` is not a file, and
`NoList` is not a list,
queries are asked for keys of `Depth` digits, and `MaxAgain` and `MaxAdds` are numbers.

Only model-checked: liveness, which the prover does not reach, and of the B-tree
`HoldsMap` and `BTreeQuerySound`. `HoldsMap` is not true of every B-tree: with nodes of two keys
queries miss records (`btree_split`), and adding 1, 2, 6, 18 and 2 again files 2 a second time, in another
leaf, as the search no longer finds the first. With nodes of
four keys and the seven values of the run `index` no inner node is split, and it holds.
`BTreeQuerySound` asks for exact results only of B-trees no inner node of which was split, and
of all others that a query returns nothing else than values of keys up to its upper bound, each once.
`EntriesAreKept` is what remains true whatever the splits did.

## 5. Not modelled

* Of `util/`: the Bloom filter and the string hashes (used by nothing; `merge` and
  `copyBitmap` of the former would not compile if instantiated), the variants on
  file descriptors (`USE_FILEIO` is defined), `NODE_POOL` (not defined), `Bitmap::clear`,
  `merge`, `copy` and `dump2array` (not called), and the cache `bitPosition`, of which
  nothing is visible as long as an index is not changed after its positions were asked for.
* `Trie::addItem` and `splitNode` end without a `return`; the model takes it
  that they return, and nobody looks at the value.
* `export_longer_chains` (never called), `flows.txt`, `write2db` (compiled out),
  statistics, formatting and logging.
* Start-up: the models begin when all constructors have run. The global
  `Exporter` starts its scan thread before it has set `exit_signal` and
  `fileWriter`; zero initialisation and the empty table make that harmless.
* libtrace, libtraceFile (not built), JsonBox (vendored), string hashes (unused).
* Failures of `fopen`, `fwrite` and of memory allocation.

## 6. Plan

1. `RecordCount`: `totalRecordNum` and `packet_num` under different mutexes.
2. `DataFile`: `reset_file` and `write_file` when `fopen` or `fwrite` fails.
