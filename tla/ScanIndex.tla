------------------------------ MODULE ScanIndex ------------------------------
(***************************************************************************)
(* The scan thread of the exporter, the index threads it feeds, the parser *)
(* threads that fill the hash table, and main's shutdown.                  *)
(*                                                                         *)
(* Every round the scan thread moves the flows that timed out from the     *)
(* hash table to the data file and leaves one record per flow in           *)
(* linkNodePool; it raises one bit of readCode per index thread and        *)
(* broadcasts fullCond.  Every index thread copies the pool into its own   *)
(* index and clears its bit; the one that finds readCode zero signals      *)
(* emptyCond, and the scan thread may recycle the pool.                    *)
(*                                                                         *)
(* An index thread's critical sections on queueLock are one step each: no  *)
(* other thread can see inside them.  The scan thread holds queueLock over *)
(* many steps, which the parsers and the index threads interleave with.    *)
(***************************************************************************)
EXTENDS Bucket, FileWriter, FiniteSets

CONSTANTS
    Parsers,          \* the NUM parser threads
    Codes,            \* indexFlag: the INDEXCODE bits that are in use
    Flows,            \* the 5-tuples of the trace
    BucketSize,       \* BUCKETSIZE
    HashOf,           \* Flows -> buckets: rec->hash() % BUCKETSIZE
    Lens, Secs,       \* capture lengths and time stamps of the packets
    Traces,           \* the packet sequences the collector may deliver
    FlowTimeout,      \* FLOW_TIMEOUT
    FastTimeout,      \* the 5 seconds used above POOL_PACKETS_UPBOUNDER
    PoolSize,         \* capacity of linkNodePool
    NoRecord          \* a parser that holds no packet

Record == [flow : Flows, len : Lens, sec : Secs]
Buckets == 0 .. BucketSize - 1

ASSUME ScanIndexAssumption ==
    /\ BucketSize \in Nat \ {0}
    /\ HashOf \in [Flows -> Buckets]
    /\ Lens \subseteq Nat \ {0}
    /\ Secs \subseteq Nat
    /\ Traces \subseteq Seq(Record)
    /\ FlowTimeout \in Nat /\ FastTimeout \in Nat
    /\ PoolSize \in Nat
    /\ CutOff \in Nat

VARIABLES
    trace,              \* packets not yet taken by a parser
    ppc, prec,          \* parser threads: where they are and their record
    last_packet_sec,    \* last_packet_timeval.tv_sec
    table,              \* hash_table
    spc, exiting,       \* scan thread: where it is; inside the exit branch
    bucket, ptr, tv, timeout,  \* locals of export_timeout_flows
    chain,              \* local of export_chain: what is still to be written
    fileID,             \* local of scan_hash_table
    file_num, file_size, file_is_full,
    datFile,            \* contents of the data files
    idxFile,            \* contents of the index files
    linkNodePool, readCode,
    scanWaiting,        \* the scan thread sleeps on emptyCond
    fullWait,           \* index threads asleep on fullCond
    ipc,                \* index threads
    index, part,        \* the tries: earlier batches, and this batch so far
    index_exit_signal,  \* Index::exit_signal
    exit_signal,        \* Exporter::exit_signal
    main

parserVars == <<trace, ppc, prec, last_packet_sec>>
scanVars   == <<spc, exiting, bucket, ptr, tv, timeout, chain>>
fileVars   == <<fileID, file_num, file_size, file_is_full, datFile, idxFile>>
shareVars  == <<linkNodePool, readCode, scanWaiting, fullWait>>
indexVars  == <<ipc, index, part, index_exit_signal>>
mainVars   == <<exit_signal, main>>
vars == <<parserVars, table, scanVars, fileVars, shareVars, indexVars, mainVars>>

NoChain == [flow |-> NoRecord, first |-> 0, pkts |-> <<>>]
NoIndex == [c \in Codes |-> <<>>]

\* queueLock is held by the scan thread at these places.
QueueLockPlaces == {"clear", "rotate", "checkexit", "start", "bucket", "chain",
                    "write", "publish", "mark", "flush", "finish"}
HoldsQueueLock == spc \in QueueLockPlaces
HoldsBucketMutex(b) == spc \in {"chain", "write"} /\ bucket = b

ScanPlaces == QueueLockPlaces \cup {"acquire", "notify", "lastcall", "done"}

\* The constructors have run: file 0 is open, every thread is at its loop.
Init ==
    /\ trace \in Traces
    /\ ppc = [p \in Parsers |-> "idle"] /\ prec = [p \in Parsers |-> NoRecord]
    /\ last_packet_sec = 0
    /\ table = [b \in Buckets |-> <<>>]
    /\ spc = "acquire" /\ exiting = FALSE
    /\ bucket = 0 /\ ptr = 1 /\ tv = 0 /\ timeout = 0 /\ chain = NoChain
    /\ fileID = ApplyFileID(0) /\ file_num = NextFileNum(0)
    /\ file_size = 0 /\ file_is_full = FALSE
    /\ datFile = [id \in FileIDs |-> <<>>]
    /\ idxFile = [id \in FileIDs |-> NoIndex]
    /\ linkNodePool = <<>> /\ readCode = {}
    /\ scanWaiting = FALSE /\ fullWait = {}
    /\ ipc = [c \in Codes |-> "acquire"]
    /\ index = NoIndex /\ part = NoIndex
    /\ index_exit_signal = FALSE /\ exit_signal = FALSE /\ main = "run"

-----------------------------------------------------------------------------
(* Parsers *)

\* get_packet and new Ipv4Record.
Take(p) ==
    /\ ppc[p] = "idle" /\ trace # <<>> /\ main = "run"
    /\ ppc' = [ppc EXCEPT ![p] = "stamp"]
    /\ prec' = [prec EXCEPT ![p] = Head(trace)]
    /\ trace' = Tail(trace)
    /\ UNCHANGED <<last_packet_sec, table, scanVars, fileVars, shareVars,
                   indexVars, mainVars>>

\* last_packet_timeval is written before any mutex is taken.
Stamp(p) ==
    /\ ppc[p] = "stamp"
    /\ ppc' = [ppc EXCEPT ![p] = "push"]
    /\ last_packet_sec' = prec[p].sec
    /\ UNCHANGED <<trace, prec, table, scanVars, fileVars, shareVars,
                   indexVars, mainVars>>

\* push_record under the bucket's mutex.
Insert(p) ==
    LET b == HashOf[prec[p].flow] IN
    /\ ppc[p] = "push"
    /\ ~HoldsBucketMutex(b)
    /\ table' = [table EXCEPT ![b] = PushRecord(@, prec[p])]
    /\ ppc' = [ppc EXCEPT ![p] = "idle"]
    /\ prec' = [prec EXCEPT ![p] = NoRecord]
    /\ UNCHANGED <<trace, last_packet_sec, scanVars, fileVars, shareVars,
                   indexVars, mainVars>>

ParserStep(p) == Take(p) \/ Stamp(p) \/ Insert(p)

-----------------------------------------------------------------------------
(* The scan thread: waiting for the index threads *)

\* Lock queueLock and find a bit of readCode still up: sleep on emptyCond.
ScanWait ==
    /\ spc = "acquire" /\ ~scanWaiting
    /\ readCode # {}
    /\ scanWaiting' = TRUE
    /\ UNCHANGED <<parserVars, table, scanVars, fileVars, linkNodePool, readCode,
                   fullWait, indexVars, mainVars>>

\* Lock queueLock (or return from the wait with it) and find readCode zero.
ScanEnter ==
    /\ spc = "acquire" /\ ~scanWaiting
    /\ readCode = {}
    /\ spc' = "clear"
    /\ UNCHANGED <<parserVars, table, exiting, bucket, ptr, tv, timeout, chain,
                   fileVars, shareVars, indexVars, mainVars>>

\* clear_linkNodePool deletes the records; the exit branch goes on to its end.
ScanClear ==
    /\ spc = "clear"
    /\ linkNodePool' = <<>>
    /\ spc' = IF exiting THEN "mark" ELSE "rotate"
    /\ UNCHANGED <<parserVars, table, exiting, bucket, ptr, tv, timeout, chain,
                   fileVars, readCode, scanWaiting, fullWait, indexVars, mainVars>>

\* What write_index_to_file does: each trie goes to the file and starts anew
\* (mutant: the tries are not replaced).
WriteIndexKeep(id) ==
    /\ idxFile' = [idxFile EXCEPT ![id] = [c \in Codes |-> index[c] \o part[c]]]
    /\ UNCHANGED <<index, part>>
WriteIndex(id) ==
    /\ idxFile' = [idxFile EXCEPT ![id] = [c \in Codes |-> index[c] \o part[c]]]
    /\ index' = NoIndex /\ part' = NoIndex

\* The file is full: write its indexes, take the next file name, truncate it.
Rotate ==
    /\ spc = "rotate" /\ file_is_full
    /\ WriteIndex(fileID)
    /\ fileID' = ApplyFileID(file_num) /\ file_num' = NextFileNum(file_num)
    /\ datFile' = [datFile EXCEPT ![fileID'] = <<>>]
    /\ file_size' = 0 /\ file_is_full' = FALSE
    /\ spc' = "checkexit"
    /\ UNCHANGED <<parserVars, table, exiting, bucket, ptr, tv, timeout, chain,
                   shareVars, ipc, index_exit_signal, mainVars>>

KeepFile ==
    /\ spc = "rotate" /\ ~file_is_full
    /\ spc' = "checkexit"
    /\ UNCHANGED <<parserVars, table, exiting, bucket, ptr, tv, timeout, chain,
                   fileVars, shareVars, indexVars, mainVars>>

\* get_exit_signal chooses the branch.
CheckExitSignal ==
    /\ spc = "checkexit"
    /\ exiting' = exit_signal
    /\ spc' = "start"
    /\ UNCHANGED <<parserVars, table, bucket, ptr, tv, timeout, chain,
                   fileVars, shareVars, indexVars, mainVars>>

-----------------------------------------------------------------------------
(* The scan thread: export_timeout_flows and export_chain *)

\* totalRecordNum is read without a lock while parsers and the scan thread
\* update it, so either of the two timeouts may be chosen.
StartScan ==
    /\ spc = "start"
    /\ tv' = last_packet_sec
    /\ timeout' \in IF exiting THEN {0} ELSE {FastTimeout, FlowTimeout}
    /\ bucket' = 0
    /\ spc' = "bucket"
    /\ UNCHANGED <<parserVars, table, exiting, ptr, chain, fileVars, shareVars,
                   indexVars, mainVars>>

LockBucket ==
    /\ spc = "bucket"
    /\ bucket < BucketSize /\ ~file_is_full
    /\ ptr' = 1
    /\ spc' = "chain"
    /\ UNCHANGED <<parserVars, table, exiting, bucket, tv, timeout, chain,
                   fileVars, shareVars, indexVars, mainVars>>

EndScan ==
    /\ spc = "bucket"
    /\ bucket = BucketSize \/ file_is_full
    /\ spc' = "publish"
    /\ bucket' = 0 /\ ptr' = 1 /\ tv' = 0 /\ timeout' = 0
    /\ UNCHANGED <<parserVars, table, exiting, chain, fileVars, shareVars,
                   indexVars, mainVars>>

\* The age of a chain is taken from its head, the flow's first packet.
Due(ch) == tv - Head(ch.pkts).sec >= timeout

SkipChain ==
    /\ spc = "chain" /\ ptr <= Len(table[bucket])
    /\ ~Due(table[bucket][ptr])
    /\ ptr' = ptr + 1
    /\ UNCHANGED <<parserVars, table, spc, exiting, bucket, tv, timeout, chain,
                   fileVars, shareVars, indexVars, mainVars>>

\* The flow would not fit: stop the whole scan.
FileFull ==
    /\ spc = "chain" /\ ptr <= Len(table[bucket])
    /\ Due(table[bucket][ptr])
    /\ ~Fits(file_size, table[bucket][ptr].file_offset)
    /\ file_is_full' = TRUE
    /\ bucket' = bucket + 1
    /\ spc' = "bucket"
    /\ UNCHANGED <<parserVars, table, exiting, ptr, tv, timeout, chain, fileID,
                   file_num, file_size, datFile, idxFile, shareVars, indexVars,
                   mainVars>>

UnlinkChain ==
    /\ spc = "chain" /\ ptr <= Len(table[bucket])
    /\ Due(table[bucket][ptr])
    /\ Fits(file_size, table[bucket][ptr].file_offset)
    /\ chain' = [flow |-> table[bucket][ptr].flow, first |-> file_size,
                 pkts |-> table[bucket][ptr].pkts]
    /\ table' = [table EXCEPT ![bucket] = Unlink(@, ptr)]
    /\ spc' = "write"
    /\ UNCHANGED <<parserVars, exiting, bucket, ptr, tv, timeout, fileVars,
                   shareVars, indexVars, mainVars>>

EndBucket ==
    /\ spc = "chain" /\ ptr > Len(table[bucket])
    /\ bucket' = bucket + 1
    /\ spc' = "bucket"
    /\ UNCHANGED <<parserVars, table, exiting, ptr, tv, timeout, chain, fileVars,
                   shareVars, indexVars, mainVars>>

\* A packet that is not the chain's last: written, freed, its record deleted.
WritePacket ==
    /\ spc = "write" /\ Len(chain.pkts) > 1
    /\ file_size' = WriteFile(file_size, Head(chain.pkts).len)
    /\ chain' = [chain EXCEPT !.pkts = Tail(@)]
    /\ UNCHANGED <<parserVars, table, spc, exiting, bucket, ptr, tv, timeout,
                   fileID, file_num, file_is_full, datFile, idxFile, shareVars,
                   indexVars, mainVars>>

\* push_resource drops the record when linkNodePool is at its capacity
\* (mutant: one place is wasted).
PushResourceEarly(pool, rec) ==
    IF Len(pool) + 1 >= PoolSize THEN pool ELSE Append(pool, rec)
PushResource(pool, rec) == IF Len(pool) >= PoolSize THEN pool ELSE Append(pool, rec)

\* The last packet: its record carries its offset to the index threads.
WriteLast ==
    /\ spc = "write" /\ Len(chain.pkts) = 1
    /\ file_size' = WriteFile(file_size, Head(chain.pkts).len)
    /\ datFile' = [datFile EXCEPT ![fileID] = Append(@,
                     [flow |-> chain.flow, first |-> chain.first, off |-> file_size])]
    /\ linkNodePool' = PushResource(linkNodePool,
                                    [flow |-> chain.flow, off |-> file_size])
    /\ chain' = NoChain
    /\ spc' = "chain"
    /\ UNCHANGED <<parserVars, table, exiting, bucket, ptr, tv, timeout, fileID,
                   file_num, file_is_full, idxFile, readCode, scanWaiting,
                   fullWait, indexVars, mainVars>>

-----------------------------------------------------------------------------
(* The scan thread: handing over and shutting down *)

\* Who still sleeps on fullCond after the broadcast (mutant: cond_signal).
BroadcastWakesOne == IF fullWait = {} THEN {}
                     ELSE fullWait \ {CHOOSE c \in fullWait : TRUE}
Broadcast == {}

\* readCode = indexFlag; unlock queueLock.
Publish ==
    /\ spc = "publish"
    /\ readCode' = Codes
    /\ spc' = "notify"
    /\ UNCHANGED <<parserVars, table, exiting, bucket, ptr, tv, timeout, chain,
                   fileVars, linkNodePool, scanWaiting, fullWait, indexVars,
                   mainVars>>

\* Broadcast fullCond, then sleep or, when exiting, wait once more.
Notify ==
    /\ spc = "notify"
    /\ fullWait' = Broadcast
    /\ spc' = "acquire"
    /\ UNCHANGED <<parserVars, table, exiting, bucket, ptr, tv, timeout, chain,
                   fileVars, linkNodePool, readCode, scanWaiting, indexVars,
                   mainVars>>

\* readCode = indexFlag over an empty pool, so that every index thread wakes.
Mark ==
    /\ spc = "mark"
    /\ readCode' = Codes
    /\ spc' = "flush"
    /\ UNCHANGED <<parserVars, table, exiting, bucket, ptr, tv, timeout, chain,
                   fileVars, linkNodePool, scanWaiting, fullWait, indexVars,
                   mainVars>>

Flush ==
    /\ spc = "flush"
    /\ WriteIndex(fileID)
    /\ spc' = "finish"
    /\ UNCHANGED <<parserVars, table, exiting, bucket, ptr, tv, timeout, chain,
                   fileID, file_num, file_size, file_is_full, datFile, shareVars,
                   ipc, index_exit_signal, mainVars>>

\* index->set_exit_signal(); unlock queueLock.
Finish ==
    /\ spc = "finish"
    /\ index_exit_signal' = TRUE
    /\ spc' = "lastcall"
    /\ UNCHANGED <<parserVars, table, exiting, bucket, ptr, tv, timeout, chain,
                   fileVars, shareVars, ipc, index, part, mainVars>>

\* Broadcast fullCond, close the data file, pthread_exit.
LastCall ==
    /\ spc = "lastcall"
    /\ fullWait' = Broadcast
    /\ spc' = "done"
    /\ UNCHANGED <<parserVars, table, exiting, bucket, ptr, tv, timeout, chain,
                   fileVars, linkNodePool, readCode, scanWaiting, indexVars,
                   mainVars>>

ExportStep == \/ StartScan \/ LockBucket \/ EndScan \/ SkipChain \/ FileFull
              \/ UnlinkChain \/ EndBucket \/ WritePacket \/ WriteLast

ScanStep == \/ ScanWait \/ ScanEnter \/ ScanClear \/ Rotate \/ KeepFile
            \/ CheckExitSignal \/ ExportStep \/ Publish \/ Notify
            \/ Mark \/ Flush \/ Finish \/ LastCall

-----------------------------------------------------------------------------
(* The index threads *)

\* Lock queueLock, find the own bit of readCode down: sleep on fullCond.
IndexWait(c) ==
    /\ ipc[c] = "acquire" /\ c \notin fullWait /\ ~HoldsQueueLock
    /\ c \notin readCode
    /\ fullWait' = fullWait \cup {c}
    /\ UNCHANGED <<parserVars, table, scanVars, fileVars, linkNodePool, readCode,
                   scanWaiting, indexVars, mainVars>>

\* Lock queueLock, find the own bit up, unlock, and read the pool unlocked.
IndexTake(c) ==
    /\ ipc[c] = "acquire" /\ c \notin fullWait /\ ~HoldsQueueLock
    /\ c \in readCode
    /\ ipc' = [ipc EXCEPT ![c] = "build"]
    /\ UNCHANGED <<parserVars, table, scanVars, fileVars, shareVars, index, part,
                   index_exit_signal, mainVars>>

\* One turn of buildIndex's loop, which asks for the pool's size every time.
IndexAdd(c) ==
    /\ ipc[c] = "build" /\ Len(part[c]) < Len(linkNodePool)
    /\ part' = [part EXCEPT ![c] = Append(@, linkNodePool[Len(@) + 1])]
    /\ UNCHANGED <<parserVars, table, scanVars, fileVars, shareVars, ipc, index,
                   index_exit_signal, mainVars>>

\* readCode ^ code (mutant: the whole word is zeroed).
ToggleAll(c) == {}
Toggle(c) == (readCode \ {c}) \cup ({c} \ readCode)

\* Lock queueLock, readCode ^= code, unlock.
IndexClear(c) ==
    /\ ipc[c] = "build" /\ Len(part[c]) >= Len(linkNodePool) /\ ~HoldsQueueLock
    /\ readCode' = Toggle(c)
    /\ index' = [index EXCEPT ![c] = @ \o part[c]]
    /\ part' = [part EXCEPT ![c] = <<>>]
    /\ ipc' = [ipc EXCEPT ![c] = "peek"]
    /\ UNCHANGED <<parserVars, table, scanVars, fileVars, linkNodePool,
                   scanWaiting, fullWait, index_exit_signal, mainVars>>

\* readCode == 0 is tested after the unlock.
IndexPeek(c) ==
    /\ ipc[c] = "peek"
    /\ ipc' = [ipc EXCEPT ![c] = IF readCode = {} THEN "signal" ELSE "checkexit"]
    /\ UNCHANGED <<parserVars, table, scanVars, fileVars, shareVars, index, part,
                   index_exit_signal, mainVars>>

\* Only the scan thread ever waits on emptyCond.
IndexSignal(c) ==
    /\ ipc[c] = "signal"
    /\ scanWaiting' = FALSE
    /\ ipc' = [ipc EXCEPT ![c] = "checkexit"]
    /\ UNCHANGED <<parserVars, table, scanVars, fileVars, linkNodePool, readCode,
                   fullWait, index, part, index_exit_signal, mainVars>>

IndexCheckExit(c) ==
    /\ ipc[c] = "checkexit"
    /\ ipc' = [ipc EXCEPT ![c] = IF index_exit_signal THEN "done" ELSE "acquire"]
    /\ UNCHANGED <<parserVars, table, scanVars, fileVars, shareVars, index, part,
                   index_exit_signal, mainVars>>

IndexStep(c) == \/ IndexWait(c) \/ IndexTake(c) \/ IndexAdd(c) \/ IndexClear(c)
                \/ IndexPeek(c) \/ IndexSignal(c) \/ IndexCheckExit(c)

\* pthread_cond_wait may return without a signal.
SpuriousWakeup ==
    /\ \/ /\ scanWaiting /\ scanWaiting' = FALSE
          /\ UNCHANGED fullWait
       \/ /\ \E c \in fullWait : fullWait' = fullWait \ {c}
          /\ UNCHANGED scanWaiting
    /\ UNCHANGED <<parserVars, table, scanVars, fileVars, linkNodePool, readCode,
                   indexVars, mainVars>>

-----------------------------------------------------------------------------
(* main *)

\* collect has returned and the parsers are joined, between two packets each;
\* what they leave in the queue (see Pipeline) stays in trace.
SetExitSignal ==
    /\ main = "run" /\ \A p \in Parsers : ppc[p] = "idle"
    /\ exit_signal' = TRUE
    /\ main' = "join"
    /\ UNCHANGED <<parserVars, table, scanVars, fileVars, shareVars, indexVars>>

\* pthread_join on the scan thread, then on every index thread.
Join ==
    /\ main = "join" /\ spc = "done" /\ \A c \in Codes : ipc[c] = "done"
    /\ main' = "done"
    /\ UNCHANGED <<parserVars, table, scanVars, fileVars, shareVars, indexVars,
                   exit_signal>>

Terminated == main = "done" /\ UNCHANGED vars

Next == \/ \E p \in Parsers : ParserStep(p)
        \/ ScanStep
        \/ \E c \in Codes : IndexStep(c)
        \/ SpuriousWakeup
        \/ SetExitSignal
        \/ Join
        \/ Terminated

\* The threads are real threads: each goes on as long as it can.  No fairness
\* for spurious wakeups, nor for the end of the capture.
Fairness == /\ \A p \in Parsers : WF_vars(ParserStep(p))
            /\ WF_vars(ScanStep)
            /\ \A c \in Codes : WF_vars(IndexStep(c))
            /\ WF_vars(Join)

Spec == Init /\ [][Next]_vars
FairSpec == Spec /\ Fairness
-----------------------------------------------------------------------------
(* Types *)

Packet == [len : Lens, sec : Secs]
Chain  == [flow : Flows, file_offset : Nat, pkts : Seq(Packet) \ {<<>>}]
Size   == 0 .. Word - 1
Entry  == [flow : Flows, off : Size]
Extent == [flow : Flows, first : Size, off : Size]

TypeOK ==
    /\ trace \in Seq(Record)
    /\ ppc \in [Parsers -> {"idle", "stamp", "push"}]
    /\ prec \in [Parsers -> Record \cup {NoRecord}]
    /\ \A p \in Parsers : ppc[p] # "idle" => prec[p] \in Record
    /\ last_packet_sec \in Nat
    /\ table \in [Buckets -> Seq(Chain)]
    /\ spc \in ScanPlaces /\ exiting \in BOOLEAN
    /\ bucket \in 0 .. BucketSize /\ ptr \in Nat \ {0}
    /\ spc \in {"chain", "write"} => bucket \in Buckets
    /\ tv \in Nat /\ timeout \in Nat
    /\ chain \in [flow : Flows \cup {NoRecord}, first : Size, pkts : Seq(Packet)]
    /\ spc = "write" => chain.flow \in Flows /\ chain.pkts # <<>>
    /\ fileID \in FileIDs /\ file_num \in Nat
    /\ file_size \in Size /\ file_is_full \in BOOLEAN
    /\ datFile \in [FileIDs -> Seq(Extent)]
    /\ idxFile \in [FileIDs -> [Codes -> Seq(Entry)]]
    /\ linkNodePool \in Seq(Entry)
    /\ readCode \in SUBSET Codes
    /\ scanWaiting \in BOOLEAN /\ fullWait \in SUBSET Codes
    /\ ipc \in [Codes -> {"acquire", "build", "peek", "signal", "checkexit", "done"}]
    /\ index \in [Codes -> Seq(Entry)] /\ part \in [Codes -> Seq(Entry)]
    /\ index_exit_signal \in BOOLEAN /\ exit_signal \in BOOLEAN
    /\ main \in {"run", "join", "done"}

-----------------------------------------------------------------------------
(* Safety *)

\* While the scan thread clears, fills or writes out what the index threads
\* read and write without a lock (linkNodePool, the tries), none of them is
\* inside buildIndex (exporter.cpp:28-89 against index.cpp:34-37).
Exclusion == HoldsQueueLock => \A c \in Codes : ipc[c] # "build"

\* The scan thread is between clearing the pool and handing it over.
Filling == spc \in {"rotate", "checkexit", "start", "bucket", "chain", "write",
                    "publish"}

\* Why it holds: a thread in buildIndex has its bit up; the bits are all down
\* from the moment the scan thread stops waiting until it raises them again;
\* and between Mark and the unlock no thread gets past its wait.
Protocol ==
    /\ \A c \in Codes : ipc[c] = "build" => c \in readCode
    /\ (Filling \/ spc \in {"clear", "mark"}) => readCode = {}
    /\ spc \in {"flush", "finish"} => \A c \in Codes : ipc[c] # "build"

\* The index entries a data file calls for: one per exported chain.
Entries(extents) ==
    [i \in DOMAIN extents |-> [flow |-> extents[i].flow, off |-> extents[i].off]]

\* What index c has still to take: the batch that is being filled, or one it
\* has not cleared its bit for.
Outstanding(c) == IF Filling \/ c \in readCode THEN linkNodePool ELSE <<>>

\* The data file being written and each trie never disagree: what the trie
\* holds, and the batch it has still to take, are the chains of the data file.
\* (Until the last flush; index.cpp:148-183, exporter.cpp:88, 291.)
CurrentFaithful ==
    spc \notin {"finish", "lastcall", "done"} =>
        \A c \in Codes : index[c] \o Outstanding(c) = Entries(datFile[fileID])

\* Why it holds, with Protocol: a thread's own copy is a prefix of the batch
\* while it builds and nothing otherwise, and the pool is empty at rotation
\* and in the exit branch's last section.
Copying ==
    /\ \A c \in Codes : ipc[c] # "build" => part[c] = <<>>
    /\ \A c \in Codes : ipc[c] = "build" =>
          /\ Len(part[c]) <= Len(linkNodePool)
          /\ \A i \in 1 .. Len(part[c]) : part[c][i] = linkNodePool[i]
    /\ spc \in {"rotate", "mark", "flush"} => linkNodePool = <<>>

\* linkNodePool has room for the record of the chain that is being exported.
PoolHasRoom == spc = "write" => Len(linkNodePool) < PoolSize

\* Every data file that was closed has, in each of its index files, one entry
\* per exported chain at the offset export_chain recorded: rotation and exit
\* never write an index that lacks a batch or holds part of one.
IndexFaithful ==
    \A id \in FileIDs : (id # fileID \/ spc \in {"finish", "lastcall", "done"}) =>
        \A c \in Codes : idxFile[id][c] = Entries(datFile[id])

\* The index files of one data file list the same records in the same order,
\* even a name's earlier ones that rotation has not replaced yet.
IndexFilesAgree ==
    \A id \in FileIDs : \A c, d \in Codes : idxFile[id][c] = idxFile[id][d]

\* Offsets ascend strictly in the data file, and so in every list of a trie:
\* LinkList::merge and intersection rely on it (util/linklist.h:156-277).
AscendingOffsets ==
    /\ \A id \in FileIDs : \A i, j \in DOMAIN datFile[id] :
          i < j => datFile[id][i].off < datFile[id][j].first
    /\ \A id \in FileIDs : \A i \in DOMAIN datFile[id] :
          datFile[id][i].first <= datFile[id][i].off

\* The pkts of a chain and the counter the capacity test trusts
\* (exporter.cpp:341) stay together through appends, swaps and unlinks, and no
\* flow outgrows CUTOFF by growing (exporter.cpp:199).
Bytes(pkts) == LET sum[i \in 0 .. Len(pkts)] ==
                     IF i = 0 THEN 0 ELSE sum[i - 1] + pkts[i].len
               IN  sum[Len(pkts)]
ChainsAccounted ==
    \A b \in Buckets : \A i \in DOMAIN table[b] :
        /\ table[b][i].file_offset = Bytes(table[b][i].pkts)
        /\ Len(table[b][i].pkts) > 1 => table[b][i].file_offset <= CutOff
        /\ HashOf[table[b][i].flow] = b
        /\ \A j \in DOMAIN table[b] : table[b][i].flow = table[b][j].flow => i = j

\* "current file could store all packets of this flow or not ?"
\* (exporter.cpp:340): a flow that passed the capacity test is stored whole,
\* write_file refuses none of its packets, whose -1 export_chain ignores
\* (exporter.cpp:283).  True while MaxFileSize + CutOff < Word; with the
\* build's CUTOFF of 2^30 the 32-bit sum of the test wraps.
FlowStoredWhole == spc = "write" => ~Refuses(file_size)

\* The sum the capacity test takes stays below 2^32, so that the test compares
\* what it means to.
SumInRange ==
    spc = "chain" /\ ptr <= Len(table[bucket]) =>
        file_size + table[bucket][ptr].file_offset < Word

-----------------------------------------------------------------------------
(* What comments of the source say and the program does not do *)

\* "export all records in hash table when received exit signal"
\* (exporter.cpp:50): after the shutdown no packet is left in the hash table.
ExitDrainsTable == main = "done" => \A b \in Buckets : table[b] = <<>>

-----------------------------------------------------------------------------
(* Liveness *)

\* Once main asks, the scan thread drains, flushes and stops, every index
\* thread wakes and stops, and main joins them all: no wakeup is lost.
ExitCompletes == exit_signal ~> main = "done"

\* A bit of readCode that is raised is cleared by its thread, unless that
\* thread has already stopped.
BatchTaken == \A c \in Codes : c \in readCode ~> (c \notin readCode \/ ipc[c] = "done")

-----------------------------------------------------------------------------
(* Refinement *)

\* Inside the exit branch's last critical section the raised bits are not yet
\* visible: the batch they announce is handed over by the unlock (Finish).
Handoff == INSTANCE BatchHandoff WITH
    Files   <- FileIDs,
    stage   <- IF Filling \/ spc \in {"mark", "flush", "finish"}
               THEN "filling" ELSE "handed",
    batch   <- linkNodePool,
    owners  <- IF spc \in {"flush", "finish"} THEN {} ELSE readCode,
    taken   <- index,
    archive <- idxFile

\* The protocol of locks, wait loops and bits implements the abstract handoff.
ImplementsHandoff == Handoff!Spec
=============================================================================
