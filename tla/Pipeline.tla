------------------------------ MODULE Pipeline ------------------------------
(***************************************************************************)
(* Who owns a PACKET: the collector's resource pool, its queue, a parser,  *)
(* the exporter's hash table, the scan thread; and how main shuts the      *)
(* threads down and frees the packets.                                     *)
(*                                                                         *)
(* pkt_queue is only used under packet_queue_mutex, so an operation on it  *)
(* is one step.  A push to the pool is two, because collect() makes one    *)
(* without pool_resource_mutex and the others can fall between its halves: *)
(* the cursor is loaded, then the slot and the cursor are stored.  Slots   *)
(* count from 1: queue[cursor++] is slots[cursor + 1].                     *)
(***************************************************************************)
EXTENDS Integers, Sequences, FiniteSets

CONSTANTS
    Packets,        \* the MAX_PACKETS packets the constructor allocates
    Parsers,        \* the NUM parser threads
    Collector,      \* the thread in collect(), which is main's
    Scanner,        \* the exporter's scan thread
    None            \* no packet, no thread

PoolSize == Cardinality(Packets)
Pushers  == Parsers \cup {Scanner}      \* the callers of Collector::set_resource_free
Threads  == Pushers \cup {Collector}

ASSUME PipelineAssumption ==
    /\ IsFiniteSet(Packets) /\ Packets # {}
    /\ None \notin Packets \cup Threads
    /\ Collector \notin Pushers /\ Scanner \notin Parsers

VARIABLES
    slots, cursor,       \* ResourcePool: queue, cursor
    mutex,               \* the thread that holds pool_resource_mutex
    pkt_queue,
    pc, packet,          \* per thread: place, local variable packet
    seen,                \* the cursor a push has loaded
    held,                \* packets of the records in the exporter's hash table
    cancelled,           \* parsers main has called pthread_cancel on
    exit_signal,         \* Exporter::exit_signal
    destroyed,           \* packets given to trace_destroy_packet
    main

poolVars == <<slots, cursor, mutex>>
mainVars == <<cancelled, exit_signal, destroyed, main>>
vars == <<poolVars, pkt_queue, pc, packet, seen, held, mainVars>>

\* ~Collector empties the pool, so the order the constructor filled it in does
\* not matter: any enumeration of the packets.
Init ==
    /\ slots \in {f \in [1 .. PoolSize -> Packets] :
                    \A i, j \in 1 .. PoolSize : f[i] = f[j] => i = j}
    /\ cursor = PoolSize /\ mutex = None
    /\ pkt_queue = <<>>
    /\ pc = [t \in Threads |-> CASE t = Collector -> "get"
                                 [] t = Scanner   -> "scan"
                                 [] OTHER         -> "start"]
    /\ packet = [t \in Threads |-> None] /\ seen = [t \in Threads |-> 0]
    /\ held = {}
    /\ cancelled = {} /\ exit_signal = FALSE /\ destroyed = {}
    /\ main = "collect"

Go(t, from, to) == pc[t] = from /\ pc' = [pc EXCEPT ![t] = to]

-----------------------------------------------------------------------------
(* The collector *)

\* get_free_resource between lock and unlock.
GetFree ==
    /\ cursor > 0 /\ mutex = None
    /\ Go(Collector, "get", "read")
    /\ packet' = [packet EXCEPT ![Collector] = slots[cursor]]
    /\ cursor' = cursor - 1
    /\ UNCHANGED <<slots, mutex, pkt_queue, seen, held, mainVars>>

\* The pool is empty: sleep( 5 ) and try again.
NoneFree ==
    /\ cursor <= 0 /\ mutex = None
    /\ Go(Collector, "get", "sleep")
    /\ UNCHANGED <<poolVars, pkt_queue, packet, seen, held, mainVars>>

WakeUp ==
    /\ Go(Collector, "sleep", "get")
    /\ UNCHANGED <<poolVars, pkt_queue, packet, seen, held, mainVars>>

\* read_packet returned 0: the packet goes to the queue.
ReadPacket ==
    /\ Go(Collector, "read", "get")
    /\ pkt_queue' = Append(pkt_queue, packet[Collector])
    /\ packet' = [packet EXCEPT ![Collector] = None]
    /\ UNCHANGED <<poolVars, seen, held, mainVars>>

\* read_packet returned -1: the packet goes back, with no lock taken, and the
\* loop ends.
GiveBack ==
    /\ Go(Collector, "read", "store")
    /\ seen' = [seen EXCEPT ![Collector] = cursor]
    /\ UNCHANGED <<poolVars, pkt_queue, packet, held, mainVars>>

-----------------------------------------------------------------------------
(* The pool *)

\* push_resource's condition and the load of cursor, after set_resource_free
\* has locked the mutex (mutant: it does not lock).
FreeUnlocked(t) ==
    /\ Go(t, "free", "store")
    /\ seen' = [seen EXCEPT ![t] = cursor]
    /\ UNCHANGED <<poolVars, pkt_queue, packet, held, mainVars>>
Free(t) ==
    /\ mutex = None
    /\ Go(t, "free", "store")
    /\ mutex' = t
    /\ seen' = [seen EXCEPT ![t] = cursor]
    /\ UNCHANGED <<slots, cursor, pkt_queue, packet, held, mainVars>>

\* Where a thread goes on after it has pushed.
AfterPush(t) == CASE t = Collector -> "done"
                  [] t = Scanner   -> "scan"
                  [] OTHER         -> "get"

\* queue[cursor++] = res, unless the pool is full, whose -1 nobody looks at;
\* set_resource_free then unlocks.
Store(t) ==
    /\ Go(t, "store", AfterPush(t))
    /\ IF seen[t] >= PoolSize THEN UNCHANGED <<slots, cursor>>
       ELSE /\ slots' = [slots EXCEPT ![seen[t] + 1] = packet[t]]
            /\ cursor' = seen[t] + 1
    /\ mutex' = IF mutex = t THEN None ELSE mutex
    /\ packet' = [packet EXCEPT ![t] = None]
    /\ seen' = [seen EXCEPT ![t] = 0]
    /\ UNCHANGED <<pkt_queue, held, mainVars>>

-----------------------------------------------------------------------------
(* The parsers *)

\* thread_func has begun and packet_process has printed its line.
Start(p) ==
    /\ Go(p, "start", "get")
    /\ UNCHANGED <<poolVars, pkt_queue, packet, seen, held, mainVars>>

\* printf is a cancellation point: a cancel that is pending takes effect.
CancelledAtStart(p) ==
    /\ p \in cancelled
    /\ Go(p, "start", "cancelled")
    /\ UNCHANGED <<poolVars, pkt_queue, packet, seen, held, mainVars>>

GetPacket(p) ==
    /\ pkt_queue # <<>>
    /\ Go(p, "get", "parse")
    /\ packet' = [packet EXCEPT ![p] = Head(pkt_queue)]
    /\ pkt_queue' = Tail(pkt_queue)
    /\ UNCHANGED <<poolVars, seen, held, mainVars>>

\* get_packet returned NULL.
NoPacket(p) ==
    /\ pkt_queue = <<>>
    /\ Go(p, "get", "test")
    /\ UNCHANGED <<poolVars, pkt_queue, packet, seen, held, mainVars>>

\* pthread_testcancel: what get_packet saw may be out of date by now
\* (mutant: the loop continues without the test).
TestCancelNever(p) ==
    /\ Go(p, "test", "get")
    /\ UNCHANGED <<poolVars, pkt_queue, packet, seen, held, mainVars>>
TestCancel(p) ==
    /\ Go(p, "test", IF p \in cancelled THEN "cancelled" ELSE "get")
    /\ UNCHANGED <<poolVars, pkt_queue, packet, seen, held, mainVars>>

\* No layer 2 or 3, not Ethernet, not IPv4, or push_record cuts it off: in
\* each case the packet is freed.
Reject(p) ==
    /\ Go(p, "parse", "free")
    /\ UNCHANGED <<poolVars, pkt_queue, packet, seen, held, mainVars>>

\* push_record keeps it.
Push(p) ==
    /\ Go(p, "parse", "get")
    /\ held' = held \cup {packet[p]}
    /\ packet' = [packet EXCEPT ![p] = None]
    /\ UNCHANGED <<poolVars, pkt_queue, seen, mainVars>>

ParserStep(p) == \/ Start(p) \/ CancelledAtStart(p) \/ GetPacket(p) \/ NoPacket(p)
                 \/ TestCancel(p) \/ Reject(p) \/ Push(p) \/ Free(p) \/ Store(p)

-----------------------------------------------------------------------------
(* The scan thread *)

\* export_chain takes a record out of the table, writes it, frees its packet
\* (mutant: the record stays linked).
ExportKeepsLink(pkt) ==
    /\ Go(Scanner, "scan", "free")
    /\ packet' = [packet EXCEPT ![Scanner] = pkt]
    /\ UNCHANGED <<poolVars, pkt_queue, seen, held, mainVars>>
Export(pkt) ==
    /\ Go(Scanner, "scan", "free")
    /\ packet' = [packet EXCEPT ![Scanner] = pkt]
    /\ held' = held \ {pkt}
    /\ UNCHANGED <<poolVars, pkt_queue, seen, mainVars>>

\* pthread_exit; what the last round leaves in the table is ScanIndex's matter.
ScanExit ==
    /\ exit_signal
    /\ Go(Scanner, "scan", "done")
    /\ UNCHANGED <<poolVars, pkt_queue, packet, seen, held, mainVars>>

ScanStep == \/ \E pkt \in held : Export(pkt)
            \/ Free(Scanner) \/ Store(Scanner) \/ ScanExit

-----------------------------------------------------------------------------
(* main, after collect() *)

Cancel ==
    /\ main = "collect" /\ pc[Collector] = "done"
    /\ \E p \in Parsers \ cancelled : cancelled' = cancelled \cup {p}
    /\ main' = "join"
    /\ UNCHANGED <<poolVars, pkt_queue, pc, packet, seen, held, exit_signal, destroyed>>

\* The parsers are cancelled and joined one after the other.
Join ==
    /\ main = "join" /\ \A p \in cancelled : pc[p] = "cancelled"
    /\ main' = IF cancelled = Parsers THEN "exporter" ELSE "collect"
    /\ UNCHANGED <<poolVars, pkt_queue, pc, packet, seen, held, cancelled,
                   exit_signal, destroyed>>

SetExitSignal ==
    /\ main = "exporter" /\ ~exit_signal
    /\ exit_signal' = TRUE
    /\ UNCHANGED <<poolVars, pkt_queue, pc, packet, seen, held, cancelled,
                   destroyed, main>>

JoinScan ==
    /\ main = "exporter" /\ pc[Scanner] = "done"
    /\ main' = "delete"
    /\ UNCHANGED <<poolVars, pkt_queue, pc, packet, seen, held, cancelled,
                   exit_signal, destroyed>>

\* ~Collector destroys what the pool holds.
Destroy ==
    /\ main = "delete" /\ cursor > 0
    /\ destroyed' = destroyed \cup {slots[cursor]}
    /\ cursor' = cursor - 1
    /\ UNCHANGED <<slots, mutex, pkt_queue, pc, packet, seen, held, cancelled,
                   exit_signal, main>>

Return ==
    /\ main = "delete" /\ cursor <= 0
    /\ main' = "end"
    /\ UNCHANGED <<poolVars, pkt_queue, pc, packet, seen, held, cancelled,
                   exit_signal, destroyed>>

Terminated == main = "end" /\ UNCHANGED vars

CollectorStep == GetFree \/ NoneFree \/ WakeUp \/ ReadPacket \/ GiveBack \/ Store(Collector)
MainStep == Cancel \/ Join \/ SetExitSignal \/ JoinScan \/ Destroy \/ Return

Next == \/ CollectorStep \/ ScanStep \/ MainStep \/ Terminated
        \/ \E p \in Parsers : ParserStep(p)

\* Threads go on as long as they can; whether the capture ends is left open.
Fairness == /\ WF_vars(CollectorStep) /\ WF_vars(ScanStep) /\ WF_vars(MainStep)
            /\ \A p \in Parsers : WF_vars(ParserStep(p))

Spec == Init /\ [][Next]_vars
FairSpec == Spec /\ Fairness
-----------------------------------------------------------------------------
TypeOK ==
    /\ slots \in [1 .. PoolSize -> Packets] /\ cursor \in 0 .. PoolSize
    /\ mutex \in Pushers \cup {None}
    /\ pkt_queue \in Seq(Packets)
    /\ pc \in [Threads -> {"get", "sleep", "read", "start", "parse", "test", "scan",
                           "free", "store", "done", "cancelled"}]
    /\ packet \in [Threads -> Packets \cup {None}]
    /\ seen \in [Threads -> 0 .. PoolSize]
    /\ held \subseteq Packets /\ destroyed \subseteq Packets
    /\ cancelled \subseteq Parsers /\ exit_signal \in BOOLEAN
    /\ main \in {"collect", "join", "exporter", "delete", "end"}

-----------------------------------------------------------------------------
(* Ownership *)

Pooled == {slots[i] : i \in 1 .. cursor}
Queued == {pkt_queue[i] : i \in DOMAIN pkt_queue}
Local  == {packet[t] : t \in Threads} \ {None}

\* A packet has one owner: no packet is in two places, or twice in one, so no
\* thread parses, writes, frees or destroys a packet another one uses.  This
\* holds even after the push without the lock (collector.cpp:160).
OneOwner ==
    /\ \A i, j \in 1 .. cursor : slots[i] = slots[j] => i = j
    /\ \A i, j \in DOMAIN pkt_queue : pkt_queue[i] = pkt_queue[j] => i = j
    /\ \A t, u \in Threads : packet[t] = packet[u] => t = u \/ packet[t] = None
    /\ (Pooled \cup Queued \cup Local) \cap (held \cup destroyed) = {}
    /\ held \cap destroyed = {}
    /\ Pooled \cap (Queued \cup Local) = {} /\ Queued \cap Local = {}

\* No packet is lost while the capture runs: the pool never runs dry because
\* of packets that nobody owns, and a push never finds the pool full.
NoneLost == Pooled \cup Queued \cup Local \cup held \cup destroyed = Packets
Conserved == pc[Collector] \notin {"store", "done"} => NoneLost

-----------------------------------------------------------------------------
(* What comments of the source say and the program does not do *)

\* "control the operation of ResoucePool" (collector.h:38) says of the mutex
\* that pushes are serialised: every packet stays accounted for.
PoolControlled == NoneLost

-----------------------------------------------------------------------------
\* Once the capture has ended, main cancels and joins every thread, destroys
\* the packets of the pool and returns.
ShutdownCompletes == (pc[Collector] = "done") ~> (main = "end")
=============================================================================
