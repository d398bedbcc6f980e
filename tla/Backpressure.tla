---------------------------- MODULE Backpressure ----------------------------
(***************************************************************************)
(* How the packet pool fills and empties in time.  A packet carries the    *)
(* second it was captured in; each parser writes that of the packet it     *)
(* pushes to last_packet_timeval before it locks the bucket, so with two   *)
(* parsers the stamp may go back.  A round of the scan thread copies it    *)
(* once and exports, bucket by bucket, the flows whose first packet is old *)
(* enough by it: when the pool is exhausted that clock stands still.       *)
(*                                                                         *)
(* The locks, the pool's order and the data file are left to Pipeline and  *)
(* ScanIndex: no data file is full here and no index thread is late.       *)
(***************************************************************************)
EXTENDS Integers, Sequences, FiniteSets, Bags

CONSTANTS
    Flows,
    Parsers,
    NumBuckets,        \* BUCKETSIZE
    BucketOf,          \* hash() % BUCKETSIZE of a flow, from 1
    PoolSize,          \* MAX_PACKETS
    UpBounder,         \* POOL_PACKETS_UPBOUNDER, MAX_PACKETS*3/4
    FlowTimeout,       \* FLOW_TIMEOUT
    FastTimeout,       \* the 5 seconds used above UpBounder
    MaxSec             \* bound: the last second of the model's clock

ASSUME BackpressureAssumption ==
    /\ IsFiniteSet(Flows) /\ NumBuckets \in Nat \ {0}
    /\ BucketOf \in [Flows -> 1 .. NumBuckets]
    /\ PoolSize \in Nat \ {0} /\ UpBounder \in 0 .. PoolSize
    /\ FlowTimeout \in Nat \ {0} /\ FastTimeout \in 1 .. FlowTimeout
    /\ MaxSec \in Nat \ {0}

VARIABLES
    now,               \* the second of the packets being captured
    pkt_queue,         \* captured packets: flow and second
    pc, hand,          \* per parser: place, the packet it works on
    last_packet_sec,   \* last_packet_timeval.tv_sec
    first, count,      \* per flow: second of its first packet, packets held
    bucket,            \* the scan thread: the bucket it is about to visit, 0 asleep
    tv, timeout        \* and the locals of export_timeout_flows

tableVars == <<first, count>>
scanVars  == <<bucket, tv, timeout>>
vars == <<now, pkt_queue, pc, hand, last_packet_sec, tableVars, scanVars>>

Packet == [flow : Flows, sec : 0 .. MaxSec]
NoPacket == [flow |-> {}, sec |-> 0]

Live == {f \in Flows : count[f] > 0}
totalRecordNum == BagCardinality([f \in Live |-> count[f]])
Busy == {p \in Parsers : pc[p] # "get"}
Free == PoolSize - Len(pkt_queue) - Cardinality(Busy) - totalRecordNum

\* The exporter is a global object, so the stamp starts at 0.
Init ==
    /\ now = 1 /\ pkt_queue = <<>>
    /\ pc = [p \in Parsers |-> "get"] /\ hand = [p \in Parsers |-> NoPacket]
    /\ last_packet_sec = 0
    /\ first = [f \in Flows |-> 0] /\ count = [f \in Flows |-> 0]
    /\ bucket = 0 /\ tv = 0 /\ timeout = FlowTimeout

\* The seconds of the packets never go back in the order they are captured in.
Tick ==
    /\ now < MaxSec
    /\ now' = now + 1
    /\ UNCHANGED <<pkt_queue, pc, hand, last_packet_sec, tableVars, scanVars>>

\* The collector fills a packet of the pool; with none free it sleeps.
Capture(f) ==
    /\ Free > 0
    /\ pkt_queue' = Append(pkt_queue, [flow |-> f, sec |-> now])
    /\ UNCHANGED <<now, pc, hand, last_packet_sec, tableVars, scanVars>>

-----------------------------------------------------------------------------
(* The parsers *)

GetPacket(p) ==
    /\ pc[p] = "get" /\ pkt_queue # <<>>
    /\ hand' = [hand EXCEPT ![p] = Head(pkt_queue)]
    /\ pkt_queue' = Tail(pkt_queue)
    /\ pc' = [pc EXCEPT ![p] = "parse"]
    /\ UNCHANGED <<now, last_packet_sec, tableVars, scanVars>>

\* The parser is done with its packet, which is free or in the table.
Finish(p) ==
    /\ pc' = [pc EXCEPT ![p] = "get"]
    /\ hand' = [hand EXCEPT ![p] = NoPacket]
    /\ UNCHANGED <<now, pkt_queue, last_packet_sec, scanVars>>

\* Not a packet the exporter wants: back to the pool.
Reject(p) == pc[p] = "parse" /\ Finish(p) /\ UNCHANGED tableVars

\* push_record, before the mutex.
Stamp(p) ==
    /\ pc[p] = "parse"
    /\ last_packet_sec' = hand[p].sec
    /\ pc' = [pc EXCEPT ![p] = "push"]
    /\ UNCHANGED <<now, pkt_queue, hand, tableVars, scanVars>>

\* push_record, from lock to unlock (mutant: first is the last packet's second).
InsertLast(p) ==
    /\ pc[p] = "push"
    /\ LET f == hand[p].flow IN
          /\ count' = [count EXCEPT ![f] = @ + 1]
          /\ first' = [first EXCEPT ![f] = hand[p].sec]
    /\ Finish(p)
Insert(p) ==
    /\ pc[p] = "push"
    /\ LET f == hand[p].flow IN
          /\ count' = [count EXCEPT ![f] = @ + 1]
          /\ first' = IF count[f] = 0 THEN [first EXCEPT ![f] = hand[p].sec] ELSE first
    /\ Finish(p)

\* The flow has reached CUTOFF: back to the pool.
CutOff(p) ==
    /\ pc[p] = "push" /\ count[hand[p].flow] > 0
    /\ Finish(p) /\ UNCHANGED tableVars

ParserStep(p) == GetPacket(p) \/ Reject(p) \/ Stamp(p) \/ Insert(p) \/ CutOff(p)

-----------------------------------------------------------------------------
(* The scan thread *)

Timeout == IF totalRecordNum > UpBounder THEN FastTimeout ELSE FlowTimeout

\* SCAN_INTERVAL is over: the timeout of the round and its copy of the stamp.
StartScan ==
    /\ bucket = 0
    /\ bucket' = 1 /\ tv' = last_packet_sec /\ timeout' = Timeout
    /\ UNCHANGED <<now, pkt_queue, pc, hand, last_packet_sec, tableVars>>

\* Seconds are signed: a flow begun after tv was copied is not old (mutants: the
\* difference is unsigned; a flow of just the timeout is kept).
DueUnsigned(f) == (tv - first[f]) % 2^16 >= timeout
DueLater(f) == tv - first[f] > timeout
Due(f) == tv - first[f] >= timeout

\* One bucket under its mutex: export_chain frees all packets of a flow that is due.
Visit ==
    /\ bucket # 0
    /\ count' = [f \in Flows |->
                   IF f \in Live /\ BucketOf[f] = bucket /\ Due(f) THEN 0 ELSE count[f]]
    /\ bucket' = IF bucket = NumBuckets THEN 0 ELSE bucket + 1
    /\ UNCHANGED <<now, pkt_queue, pc, hand, last_packet_sec, first, tv, timeout>>

ScanStep == StartScan \/ Visit

Next == \/ Tick \/ (\E f \in Flows : Capture(f))
        \/ (\E p \in Parsers : ParserStep(p))
        \/ ScanStep

\* The threads go on; that packets arrive or that time does is not assumed.
Fairness == WF_vars(ScanStep) /\ \A p \in Parsers : WF_vars(ParserStep(p))

Spec == Init /\ [][Next]_vars
FairSpec == Spec /\ Fairness
-----------------------------------------------------------------------------
\* A flow is exported only when its first packet is as old as the timeout of the
\* round by the capture's own clock, although the round goes by a copy of a stamp
\* that racing parsers write and flows begin while it runs.
NoEarlyExport ==
    [][\A f \in Flows :
         count[f] > 0 /\ count'[f] = 0 => now - first[f] >= timeout]_vars

\* Nothing is captured, parsed or due by the stamp as it stands.
Starved ==
    /\ Free = 0 /\ pkt_queue = <<>> /\ Busy = {}
    /\ \A f \in Live : last_packet_sec - first[f] < Timeout

\* An exhausted pool recovers, or all threads wait for one another for good: the
\* collector for the pool, the pool for the scan thread, the scan thread for the
\* stamp of a packet the collector cannot capture (collector.cpp:144-151,
\* exporter.cpp:85-87, 312, 339).
ExhaustedRecovers == (Free = 0) ~> (Free > 0 \/ []Starved)

\* The stamps that are written or still to be written.
Stamps == {last_packet_sec} \cup {hand[p].sec : p \in {q \in Parsers : pc[q] = "parse"}}
             \cup {pkt_queue[i].sec : i \in DOMAIN pkt_queue}

\* A flow that is old enough by every stamp is exported, however the parsers
\* reorder them and without another packet of the flow or of any other.
OldFlowExported ==
    \A f \in Flows :
        (count[f] > 0 /\ \A s \in Stamps : s - first[f] >= FlowTimeout) ~> (count[f] = 0)

=============================================================================
