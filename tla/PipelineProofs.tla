--------------------------- MODULE PipelineProofs ---------------------------
(***************************************************************************)
(* Every packet has one owner, for every number of packets and parsers,    *)
(* also after the push without the lock; and until that push none is lost. *)
(***************************************************************************)
EXTENDS Pipeline, FiniteSetTheorems, TLAPS

\* Where each thread can be, and when it has a packet in hand.
Roles ==
    /\ pc[Collector] \in {"get", "sleep", "read", "store", "done"}
    /\ pc[Scanner] \in {"scan", "free", "store", "done"}
    /\ \A p \in Parsers : pc[p] \in {"start", "get", "parse", "test", "free",
                                     "store", "cancelled"}
Holding ==
    \A t \in Threads : packet[t] # None <=> pc[t] \in {"read", "parse", "free", "store"}

\* A push under the mutex has it; nobody pushes once main deletes the collector.
Locked == \A t \in Pushers : pc[t] = "store" => mutex = t
Joined ==
    /\ main # "collect" \/ cancelled # {} => pc[Collector] = "done"
    /\ main \in {"exporter", "delete", "end"} => \A p \in Parsers : pc[p] = "cancelled"
    /\ main \in {"delete", "end"} => pc[Scanner] = "done"

\* The slots that are in the pool, or will be again when a push that has
\* loaded its cursor stores it: the push without the lock may set the cursor
\* below what another thread has loaded.
InPool(i) == i <= cursor \/ \E t \in Threads : pc[t] = "store" /\ i <= seen[t]
Pool == {i \in 1 .. PoolSize : InPool(i)}

PoolOwned ==
    /\ \A i, j \in Pool : slots[i] = slots[j] => i = j
    /\ \A i \in Pool : \A j \in DOMAIN pkt_queue : slots[i] # pkt_queue[j]
    /\ \A i \in Pool : \A t \in Threads : slots[i] # packet[t]
    /\ \A i \in Pool : slots[i] \notin held \cup destroyed
QueueOwned ==
    /\ \A i, j \in DOMAIN pkt_queue : pkt_queue[i] = pkt_queue[j] => i = j
    /\ \A i \in DOMAIN pkt_queue : \A t \in Threads : pkt_queue[i] # packet[t]
    /\ \A i \in DOMAIN pkt_queue : pkt_queue[i] \notin held \cup destroyed
LocalOwned ==
    /\ \A t, u \in Threads : packet[t] = packet[u] => t = u \/ packet[t] = None
    /\ \A t \in Threads : packet[t] \notin held \cup destroyed
    /\ held \cap destroyed = {}

Shape == TypeOK /\ Roles /\ Holding /\ Locked /\ Joined
Owned == PoolOwned /\ QueueOwned /\ LocalOwned
Inv   == Shape /\ Owned

-----------------------------------------------------------------------------
\* The pool has room for at least one packet.
LEMMA PoolSizeType == PoolSize \in Nat \ {0}
  BY PipelineAssumption, FS_CardinalityType, FS_EmptySet DEF PoolSize

\* The collector, the scan thread and the parsers are different threads.
LEMMA ThreadFacts ==
    /\ Collector \in Threads /\ Scanner \in Threads /\ Collector # Scanner
    /\ \A p \in Parsers : p \in Threads /\ p \in Pushers /\ p # Collector /\ p # Scanner
    /\ Scanner \in Pushers /\ Pushers \subseteq Threads
    /\ \A t \in Threads : t \in Pushers \/ t = Collector
    /\ Collector \notin Pushers
    /\ None \notin Packets /\ None \notin Threads
  BY PipelineAssumption DEF Threads, Pushers

-----------------------------------------------------------------------------
\* Init puts every thread at the first line of its loop, with no packet.
LEMMA ShapeInit == Init => Shape
<1> SUFFICES ASSUME Init PROVE Shape
  OBVIOUS
<1> USE PoolSizeType, ThreadFacts DEF Init
<1>1. /\ pc[Collector] = "get" /\ pc[Scanner] = "scan"
      /\ \A p \in Parsers : pc[p] = "start"
  OBVIOUS
<1>2. \A t \in Threads : pc[t] \in {"get", "scan", "start"}
  OBVIOUS
<1>3. TypeOK
  <2>1. pc \in [Threads -> {"get", "scan", "start"}]
    OBVIOUS
  <2>2. slots \in [1 .. PoolSize -> Packets] /\ cursor \in 0 .. PoolSize
    OBVIOUS
  <2>3. pkt_queue \in Seq(Packets)
    OBVIOUS
  <2>4. packet \in [Threads -> Packets \cup {None}] /\ seen \in [Threads -> 0 .. PoolSize]
    OBVIOUS
  <2>5. QED
    BY <2>1, <2>2, <2>3, <2>4 DEF TypeOK
<1>4. Roles /\ Joined
  BY <1>1 DEF Roles, Joined
<1>5. Holding /\ Locked
  BY <1>2 DEF Holding, Locked
<1>6. QED
  BY <1>3, <1>4, <1>5 DEF Shape

\* Every step keeps the threads in their roles, a packet in hand exactly where
\* the code has one, the mutex with the push, and the joins in order.
LEMMA ShapeNext == Shape /\ [Next]_vars => Shape'
<1> SUFFICES ASSUME Shape, [Next]_vars PROVE Shape'
  OBVIOUS
<1> USE PoolSizeType, ThreadFacts DEF Shape, TypeOK, Roles, Holding, Locked, Joined
<1>1. CASE GetFree
  BY <1>1 DEF GetFree, Go, poolVars, mainVars
<1>2. CASE NoneFree
  BY <1>2 DEF NoneFree, Go, poolVars, mainVars
<1>3. CASE WakeUp
  BY <1>3 DEF WakeUp, Go, poolVars, mainVars
<1>4. CASE ReadPacket
  BY <1>4 DEF ReadPacket, Go, poolVars, mainVars
<1>5. CASE GiveBack
  <2>1. pc[Collector] = "read" /\ pc' = [pc EXCEPT ![Collector] = "store"]
    BY <1>5 DEF GiveBack, Go
  <2>2. seen' \in [Threads -> 0 .. PoolSize]
    BY <1>5 DEF GiveBack
  <2>3. TypeOK'
    BY <2>1, <2>2, <1>5 DEF GiveBack, poolVars, mainVars
  <2>4. Roles' /\ Holding'
    BY <2>1, <1>5 DEF GiveBack, poolVars, mainVars
  <2>5. Locked'
    <3>1. \A t \in Pushers : pc'[t] = pc[t]
      BY <2>1
    <3>2. QED
      BY <3>1, <1>5 DEF GiveBack, poolVars
  <2>6. Joined'
    BY <2>1, <1>5 DEF GiveBack, mainVars
  <2>7. QED
    BY <2>3, <2>4, <2>5, <2>6
<1>6. ASSUME NEW t \in Threads, Store(t) PROVE Shape'
  <2> DEFINE to == AfterPush(t)
  <2>0. /\ t = Collector => to = "done"
        /\ t = Scanner => to = "scan"
        /\ t \in Parsers => to = "get"
    BY DEF AfterPush, Threads, Pushers
  <2>1. pc[t] = "store" /\ pc' = [pc EXCEPT ![t] = to]
    BY <1>6 DEF Store, Go
  <2> HIDE DEF to
  <2>2. TypeOK'
    <3>1. to \in {"done", "scan", "get"}
      BY <2>0 DEF Threads, Pushers
    <3>2. slots' \in [1 .. PoolSize -> Packets] /\ cursor' \in 0 .. PoolSize
      <4>1. CASE seen[t] >= PoolSize
        BY <4>1, <1>6 DEF Store
      <4>2. CASE ~(seen[t] >= PoolSize)
        <5>1. packet[t] \in Packets /\ seen[t] \in 0 .. PoolSize
          BY <2>1
        <5>2. seen[t] + 1 \in 1 .. PoolSize
          BY <4>2, <5>1
        <5>3. slots' = [slots EXCEPT ![seen[t] + 1] = packet[t]] /\ cursor' = seen[t] + 1
          BY <4>2, <1>6 DEF Store
        <5>4. QED
          BY <5>1, <5>2, <5>3
      <4>3. QED
        BY <4>1, <4>2
    <3>3. QED
      BY <3>1, <3>2, <2>1, <1>6 DEF Store, mainVars
  <2>3. Roles'
    BY <2>0, <2>1 DEF Threads, Pushers
  <2>4. Holding'
    <3>1. to \notin {"read", "parse", "free", "store"}
      BY <2>0 DEF Threads, Pushers
    <3>2. packet' = [packet EXCEPT ![t] = None]
      BY <1>6 DEF Store
    <3>3. QED
      BY <3>1, <3>2, <2>1
  <2>5. Locked'
    <3>1. \A u \in Pushers : pc'[u] = "store" => u # t /\ pc[u] = "store"
      BY <2>0, <2>1 DEF Threads, Pushers
    <3>2. QED
      BY <3>1, <2>1, <1>6 DEF Store
  <2>6. Joined'
    BY <2>0, <2>1, <1>6 DEF Store, mainVars, Threads, Pushers
  <2>7. QED
    BY <2>2, <2>3, <2>4, <2>5, <2>6
<1>7. CASE \E t \in Pushers : Free(t)
  BY <1>7 DEF Free, Go, mainVars
<1>8. CASE \E p \in Parsers : Start(p)
  BY <1>8 DEF Start, Go, poolVars, mainVars
<1>9. CASE \E p \in Parsers : CancelledAtStart(p)
  BY <1>9 DEF CancelledAtStart, Go, poolVars, mainVars
<1>10. CASE \E p \in Parsers : GetPacket(p)
  BY <1>10 DEF GetPacket, Go, poolVars, mainVars
<1>11. CASE \E p \in Parsers : NoPacket(p)
  BY <1>11 DEF NoPacket, Go, poolVars, mainVars
<1>12. CASE \E p \in Parsers : TestCancel(p)
  BY <1>12 DEF TestCancel, Go, poolVars, mainVars
<1>13. CASE \E p \in Parsers : Reject(p)
  BY <1>13 DEF Reject, Go, poolVars, mainVars
<1>14. CASE \E p \in Parsers : Push(p)
  BY <1>14 DEF Push, Go, poolVars, mainVars
<1>15. CASE \E pkt \in held : Export(pkt)
  BY <1>15 DEF Export, Go, poolVars, mainVars
<1>16. CASE ScanExit
  BY <1>16 DEF ScanExit, Go, poolVars, mainVars
<1>17. CASE Cancel
  BY <1>17 DEF Cancel, poolVars
<1>18. CASE Join
  BY <1>18 DEF Join, poolVars
<1>19. CASE SetExitSignal
  BY <1>19 DEF SetExitSignal, poolVars
<1>20. CASE JoinScan
  BY <1>20 DEF JoinScan, poolVars
<1>21. CASE Destroy
  BY <1>21 DEF Destroy, poolVars
<1>22. CASE Return
  BY <1>22 DEF Return, poolVars
<1>23. CASE UNCHANGED vars
  BY <1>23 DEF vars, poolVars, mainVars
<1>24. QED
  BY <1>1, <1>2, <1>3, <1>4, <1>5, <1>6, <1>7, <1>8, <1>9, <1>10, <1>11, <1>12, <1>13, <1>14, <1>15, <1>16, <1>17, <1>18, <1>19, <1>20, <1>21, <1>22, <1>23
  DEF Next, CollectorStep, ParserStep, ScanStep, MainStep, Terminated

-----------------------------------------------------------------------------
\* The slots of Pool hold packets.
LEMMA PoolType == Shape => /\ Pool \subseteq 1 .. PoolSize
                           /\ \A i \in Pool : slots[i] \in Packets
  BY PoolSizeType DEF Shape, TypeOK, Pool

\* At first all packets are in the pool, each in one slot.
LEMMA OwnedInit == Init => Owned
<1> SUFFICES ASSUME Init PROVE Owned
  OBVIOUS
<1> USE DEF Init
<1>1. Shape
  BY ShapeInit
<1>2. \A t \in Threads : packet[t] = None
  OBVIOUS
<1>3. PoolOwned
  BY <1>1, <1>2, PoolType, ThreadFacts DEF PoolOwned, Pool
<1>4. QueueOwned /\ LocalOwned
  <2>1. None \notin held \cup destroyed
    OBVIOUS
  <2>2. QED
    BY <1>2, <2>1 DEF QueueOwned, LocalOwned
<1>5. QED
  BY <1>3, <1>4 DEF Owned

\* A step that moves no packet, and lets no push in but one that has loaded
\* the cursor as it is, keeps every owner.
LEMMA NothingMoves ==
  ASSUME Shape, Owned,
         UNCHANGED <<slots, cursor, pkt_queue, packet, held, destroyed>>,
         \A t \in Threads : pc'[t] = "store" =>
            (pc[t] = "store" /\ seen'[t] = seen[t]) \/ seen'[t] = cursor
  PROVE  Owned'
<1>1. Pool' \subseteq Pool
  BY DEF Pool, InPool
<1>2. QED
  BY <1>1 DEF Owned, PoolOwned, QueueOwned, LocalOwned

\* With the mutex free and the collector in its loop no push is under way.
LEMMA NoPush ==
  ASSUME Shape, mutex = None, pc[Collector] # "store"
  PROVE  /\ \A t \in Threads : pc[t] # "store"
         /\ Pool = 1 .. cursor
<1>1. \A t \in Threads : pc[t] # "store"
  BY ThreadFacts DEF Shape, Locked
<1>2. QED
  BY <1>1, PoolSizeType DEF Pool, InPool, Shape, TypeOK

-----------------------------------------------------------------------------
\* The packet the collector takes was the pool's topmost and leaves it.
LEMMA GetFreeOwned == Shape /\ Owned /\ GetFree => Owned'
<1> SUFFICES ASSUME Shape, Owned, GetFree PROVE Owned'
  OBVIOUS
<1> USE PoolSizeType, ThreadFacts
<1>1. /\ cursor \in Nat /\ cursor > 0 /\ cursor' = cursor - 1
      /\ packet' = [packet EXCEPT ![Collector] = slots[cursor]]
      /\ pc[Collector] = "get" /\ pc' = [pc EXCEPT ![Collector] = "read"]
      /\ mutex = None
      /\ UNCHANGED <<slots, pkt_queue, held, destroyed>>
  BY DEF GetFree, Go, mainVars, Shape, TypeOK
<1>2. Pool = 1 .. cursor /\ \A t \in Threads : pc[t] # "store"
  BY <1>1, NoPush
<1>3. \A t \in Threads : pc'[t] # "store"
  BY <1>1, <1>2 DEF Shape, TypeOK
<1>4. Pool' \subseteq Pool /\ cursor \in Pool /\ cursor \notin Pool'
  BY <1>1, <1>2, <1>3 DEF Pool, InPool
<1>5. \A t \in Threads : packet'[t] = IF t = Collector THEN slots[cursor] ELSE packet[t]
  BY <1>1 DEF Shape, TypeOK
<1>6. PoolOwned'
  BY <1>1, <1>4, <1>5 DEF Owned, PoolOwned
<1>7. QueueOwned'
  BY <1>1, <1>4, <1>5 DEF Owned, QueueOwned, PoolOwned
<1>8. LocalOwned'
  BY <1>1, <1>4, <1>5 DEF Owned, LocalOwned, PoolOwned
<1>9. QED
  BY <1>6, <1>7, <1>8 DEF Owned

\* The packet the collector queues was its own.
LEMMA ReadPacketOwned == Shape /\ Owned /\ ReadPacket => Owned'
<1> SUFFICES ASSUME Shape, Owned, ReadPacket PROVE Owned'
  OBVIOUS
<1> USE PoolSizeType, ThreadFacts
<1>1. /\ pc[Collector] = "read" /\ pc' = [pc EXCEPT ![Collector] = "get"]
      /\ pkt_queue' = Append(pkt_queue, packet[Collector])
      /\ packet' = [packet EXCEPT ![Collector] = None]
      /\ UNCHANGED <<slots, cursor, seen, held, destroyed>>
  BY DEF ReadPacket, Go, poolVars, mainVars
<1>2. packet[Collector] \in Packets /\ pkt_queue \in Seq(Packets)
  BY <1>1 DEF Shape, TypeOK, Holding
<1>3. /\ DOMAIN pkt_queue' = 1 .. Len(pkt_queue) + 1 /\ DOMAIN pkt_queue = 1 .. Len(pkt_queue)
      /\ pkt_queue'[Len(pkt_queue) + 1] = packet[Collector]
      /\ \A i \in 1 .. Len(pkt_queue) : pkt_queue'[i] = pkt_queue[i]
      /\ Len(pkt_queue) \in Nat
  BY <1>1, <1>2
<1>4. \A i \in DOMAIN pkt_queue' : \/ i \in DOMAIN pkt_queue /\ pkt_queue'[i] = pkt_queue[i]
                                   \/ i = Len(pkt_queue) + 1 /\ pkt_queue'[i] = packet[Collector]
  BY <1>3
<1>5. \A i \in DOMAIN pkt_queue' : pkt_queue'[i] \in Packets
  BY <1>2, <1>4
<1>6. \A t \in Threads : packet'[t] = IF t = Collector THEN None ELSE packet[t]
  BY <1>1 DEF Shape, TypeOK
<1>7. Pool' \subseteq Pool
  BY <1>1 DEF Pool, InPool, Shape, TypeOK
<1>8. PoolOwned'
  BY <1>1, <1>4, <1>6, <1>7, PoolType DEF Owned, PoolOwned
<1>9. QueueOwned'
  <2>1. \A i, j \in DOMAIN pkt_queue' : pkt_queue'[i] = pkt_queue'[j] => i = j
    BY <1>4 DEF Owned, QueueOwned
  <2>2. \A i \in DOMAIN pkt_queue' : \A t \in Threads : pkt_queue'[i] # packet'[t]
    BY <1>2, <1>4, <1>5, <1>6 DEF Owned, QueueOwned, LocalOwned
  <2>3. \A i \in DOMAIN pkt_queue' : pkt_queue'[i] \notin held' \cup destroyed'
    BY <1>1, <1>4 DEF Owned, QueueOwned, LocalOwned
  <2>4. QED
    BY <2>1, <2>2, <2>3 DEF QueueOwned
<1>10. LocalOwned'
  BY <1>1, <1>6 DEF Owned, LocalOwned, Shape, TypeOK
<1>11. QED
  BY <1>8, <1>9, <1>10 DEF Owned

\* The packet a parser takes was the queue's first and leaves it.
LEMMA GetPacketOwned ==
  ASSUME NEW p \in Parsers, Shape, Owned, GetPacket(p) PROVE Owned'
<1> USE PoolSizeType, ThreadFacts
<1>1. /\ pkt_queue # <<>>
      /\ pc[p] = "get" /\ pc' = [pc EXCEPT ![p] = "parse"]
      /\ packet' = [packet EXCEPT ![p] = Head(pkt_queue)]
      /\ pkt_queue' = Tail(pkt_queue)
      /\ UNCHANGED <<slots, cursor, seen, held, destroyed>>
  BY DEF GetPacket, Go, poolVars, mainVars
<1>2. pkt_queue \in Seq(Packets)
  BY DEF Shape, TypeOK
<1>3. /\ 1 \in DOMAIN pkt_queue /\ Head(pkt_queue) = pkt_queue[1]
      /\ \A i \in DOMAIN pkt_queue' : /\ i \in Nat /\ i + 1 # 1 /\ i + 1 \in DOMAIN pkt_queue
                                      /\ pkt_queue'[i] = pkt_queue[i + 1]
  BY <1>1, <1>2
<1>4. \A t \in Threads : packet'[t] = IF t = p THEN pkt_queue[1] ELSE packet[t]
  BY <1>1, <1>3 DEF Shape, TypeOK
<1>5. Pool' \subseteq Pool
  BY <1>1 DEF Pool, InPool, Shape, TypeOK
<1>6. PoolOwned'
  BY <1>1, <1>3, <1>4, <1>5 DEF Owned, PoolOwned
<1>7. QueueOwned'
  <2>1. \A i, j \in DOMAIN pkt_queue' : pkt_queue'[i] = pkt_queue'[j] => i = j
    <3>1. SUFFICES ASSUME NEW i \in DOMAIN pkt_queue', NEW j \in DOMAIN pkt_queue',
                          pkt_queue'[i] = pkt_queue'[j]
                   PROVE  i = j
      OBVIOUS
    <3>2. i + 1 = j + 1
      BY <1>3, <3>1 DEF Owned, QueueOwned
    <3>3. QED
      BY <1>3, <3>2
  <2>2. \A i \in DOMAIN pkt_queue' : \A t \in Threads : pkt_queue'[i] # packet'[t]
    BY <1>3, <1>4 DEF Owned, QueueOwned
  <2>3. \A i \in DOMAIN pkt_queue' : pkt_queue'[i] \notin held' \cup destroyed'
    BY <1>1, <1>3 DEF Owned, QueueOwned
  <2>4. QED
    BY <2>1, <2>2, <2>3 DEF QueueOwned
<1>8. LocalOwned'
  BY <1>1, <1>3, <1>4 DEF Owned, LocalOwned, QueueOwned
<1>9. QED
  BY <1>6, <1>7, <1>8 DEF Owned

\* The packet of a record a parser links was the parser's, that of a record
\* the scan thread takes out becomes the scan thread's.
LEMMA TableOwned ==
  ASSUME Shape, Owned, (\E p \in Parsers : Push(p)) \/ (\E pkt \in held : Export(pkt))
  PROVE  Owned'
<1> USE PoolSizeType, ThreadFacts
<1>1. Pool' \subseteq Pool
  BY DEF Push, Export, Go, poolVars, Pool, InPool, Shape, TypeOK
<1>2. ASSUME NEW p \in Parsers, Push(p) PROVE Owned'
  <2>1. /\ pc[p] = "parse" /\ packet' = [packet EXCEPT ![p] = None]
        /\ held' = held \cup {packet[p]}
        /\ UNCHANGED <<slots, pkt_queue, destroyed>>
    BY <1>2 DEF Push, Go, poolVars, mainVars
  <2>2. packet[p] \in Packets
    BY <2>1 DEF Shape, TypeOK, Holding
  <2>3. \A t \in Threads : packet'[t] = IF t = p THEN None ELSE packet[t]
    BY <2>1 DEF Shape, TypeOK
  <2>4. \A i \in DOMAIN pkt_queue : pkt_queue[i] \in Packets
    BY DEF Shape, TypeOK
  <2>5. PoolOwned'
    BY <1>1, <2>1, <2>3, PoolType DEF Owned, PoolOwned
  <2>6. QueueOwned'
    BY <2>1, <2>3, <2>4 DEF Owned, QueueOwned
  <2>7. LocalOwned'
    BY <2>1, <2>2, <2>3 DEF Owned, LocalOwned, Shape, TypeOK
  <2>8. QED
    BY <2>5, <2>6, <2>7 DEF Owned
<1>3. ASSUME NEW pkt \in held, Export(pkt) PROVE Owned'
  <2>1. /\ packet' = [packet EXCEPT ![Scanner] = pkt]
        /\ held' = held \ {pkt}
        /\ UNCHANGED <<slots, pkt_queue, destroyed>>
    BY <1>3 DEF Export, Go, poolVars, mainVars
  <2>2. \A t \in Threads : packet'[t] = IF t = Scanner THEN pkt ELSE packet[t]
    BY <2>1 DEF Shape, TypeOK
  <2>3. PoolOwned'
    BY <1>1, <2>1, <2>2 DEF Owned, PoolOwned
  <2>4. QueueOwned'
    BY <2>1, <2>2 DEF Owned, QueueOwned
  <2>5. LocalOwned'
    BY <2>1, <2>2 DEF Owned, LocalOwned
  <2>6. QED
    BY <2>3, <2>4, <2>5 DEF Owned
<1>4. QED
  BY <1>2, <1>3

\* A push adds to the pool at most the slot it writes, and that slot then has
\* the packet of the thread; a push that finds the pool full only loses it.
LEMMA StoreOwned == ASSUME NEW t \in Threads, Shape, Owned, Store(t) PROVE Owned'
<1> USE PoolSizeType, ThreadFacts
<1> DEFINE top == seen[t] + 1
<1>1. /\ pc[t] = "store" /\ pc' = [pc EXCEPT ![t] = AfterPush(t)]
      /\ packet' = [packet EXCEPT ![t] = None] /\ seen' = [seen EXCEPT ![t] = 0]
      /\ UNCHANGED <<pkt_queue, held, destroyed>>
  BY DEF Store, Go, mainVars
<1>2. AfterPush(t) # "store"
  BY DEF AfterPush
<1>3. packet[t] \in Packets /\ seen[t] \in 0 .. PoolSize
  BY <1>1 DEF Shape, TypeOK, Holding
<1>4. \A u \in Threads : packet'[u] = IF u = t THEN None ELSE packet[u]
  BY <1>1 DEF Shape, TypeOK
<1>5. \A u \in Threads : pc'[u] = "store" => pc[u] = "store" /\ seen'[u] = seen[u]
  BY <1>1, <1>2 DEF Shape, TypeOK
<1>6. \A i \in Pool' : \/ i \in Pool /\ slots'[i] = slots[i]
                       \/ i = top /\ slots'[i] = packet[t]
  <2>1. CASE seen[t] >= PoolSize
    <3>1. UNCHANGED <<slots, cursor>>
      BY <2>1 DEF Store
    <3>2. QED
      BY <3>1, <1>5 DEF Pool, InPool
  <2>2. CASE ~(seen[t] >= PoolSize)
    <3>1. slots' = [slots EXCEPT ![top] = packet[t]] /\ cursor' = top
      BY <2>2 DEF Store
    <3>2. \A i \in 1 .. PoolSize : slots'[i] = IF i = top THEN packet[t] ELSE slots[i]
      BY <3>1 DEF Shape, TypeOK
    <3>3. \A i \in Pool' : i \in 1 .. PoolSize /\ (i \in Pool \/ i = top)
      BY <1>1, <1>3, <1>5, <3>1 DEF Pool, InPool
    <3>4. QED
      BY <3>2, <3>3
  <2>3. QED
    BY <2>1, <2>2
<1> HIDE DEF top
<1>7. \A i \in Pool' : slots'[i] \in Packets
  BY <1>3, <1>6, PoolType
<1>8. PoolOwned'
  <2>1. \A i, j \in Pool' : slots'[i] = slots'[j] => i = j
    BY <1>6 DEF Owned, PoolOwned
  <2>2. \A i \in Pool' : \A j \in DOMAIN pkt_queue' : slots'[i] # pkt_queue'[j]
    BY <1>1, <1>6 DEF Owned, PoolOwned, QueueOwned
  <2>3. \A i \in Pool' : \A u \in Threads : slots'[i] # packet'[u]
    BY <1>3, <1>4, <1>6, <1>7 DEF Owned, PoolOwned, LocalOwned
  <2>4. \A i \in Pool' : slots'[i] \notin held' \cup destroyed'
    BY <1>1, <1>6 DEF Owned, PoolOwned, LocalOwned
  <2>5. QED
    BY <2>1, <2>2, <2>3, <2>4 DEF PoolOwned
<1>9. QueueOwned'
  <2>1. \A i \in DOMAIN pkt_queue : pkt_queue[i] \in Packets
    BY DEF Shape, TypeOK
  <2>2. QED
    BY <1>1, <1>4, <2>1 DEF Owned, QueueOwned
<1>10. LocalOwned'
  BY <1>1, <1>4 DEF Owned, LocalOwned, Shape, TypeOK
<1>11. QED
  BY <1>8, <1>9, <1>10 DEF Owned

\* The packet main destroys was the pool's topmost and leaves it; by then no
\* thread pushes.
LEMMA DestroyOwned == Shape /\ Owned /\ Destroy => Owned'
<1> SUFFICES ASSUME Shape, Owned, Destroy PROVE Owned'
  OBVIOUS
<1> USE PoolSizeType, ThreadFacts
<1>1. /\ main = "delete" /\ cursor \in Nat /\ cursor > 0 /\ cursor' = cursor - 1
      /\ destroyed' = destroyed \cup {slots[cursor]}
      /\ UNCHANGED <<slots, pkt_queue, pc, packet, seen, held>>
  BY DEF Destroy, Shape, TypeOK
<1>2. \A t \in Threads : pc[t] # "store"
  BY <1>1 DEF Shape, Joined, Threads, Pushers
<1>3. Pool' \subseteq Pool /\ cursor \in Pool /\ cursor \notin Pool'
  BY <1>1, <1>2 DEF Pool, InPool, Shape, TypeOK
<1>4. PoolOwned'
  BY <1>1, <1>3 DEF Owned, PoolOwned
<1>5. QueueOwned'
  BY <1>1, <1>3 DEF Owned, QueueOwned, PoolOwned
<1>6. LocalOwned'
  BY <1>1, <1>3 DEF Owned, LocalOwned, PoolOwned
<1>7. QED
  BY <1>4, <1>5, <1>6 DEF Owned

\* Every other step moves no packet.
LEMMA OwnedNext == Shape /\ Owned /\ [Next]_vars => Owned'
<1> SUFFICES ASSUME Shape, Owned, [Next]_vars PROVE Owned'
  OBVIOUS
<1> USE ThreadFacts DEF Shape, TypeOK
<1>1. CASE GetFree
  BY <1>1, GetFreeOwned DEF Shape
<1>2. CASE ReadPacket
  BY <1>2, ReadPacketOwned
<1>3. CASE \E p \in Parsers : GetPacket(p)
  BY <1>3, GetPacketOwned
<1>4. CASE (\E p \in Parsers : Push(p)) \/ (\E pkt \in held : Export(pkt))
  BY <1>4, TableOwned
<1>5. CASE \E t \in Threads : Store(t)
  BY <1>5, StoreOwned
<1>6. CASE Destroy
  BY <1>6, DestroyOwned
<1>7. CASE NoneFree \/ WakeUp \/ GiveBack \/ ScanExit
  BY <1>7, NothingMoves DEF NoneFree, WakeUp, GiveBack, ScanExit, Go, poolVars, mainVars
<1>8. CASE \E t \in Pushers : Free(t)
  BY <1>8, NothingMoves DEF Free, Go, mainVars
<1>9. CASE \E p \in Parsers : Start(p) \/ CancelledAtStart(p) \/ NoPacket(p)
                              \/ TestCancel(p) \/ Reject(p)
  BY <1>9, NothingMoves
     DEF Start, CancelledAtStart, NoPacket, TestCancel, Reject, Go, poolVars, mainVars
<1>10. CASE Cancel \/ Join \/ SetExitSignal \/ JoinScan \/ Return \/ UNCHANGED vars
  BY <1>10, NothingMoves
     DEF Cancel, Join, SetExitSignal, JoinScan, Return, vars, poolVars, mainVars
<1>11. QED
  BY <1>1, <1>2, <1>3, <1>4, <1>5, <1>6, <1>7, <1>8, <1>9, <1>10
  DEF Next, CollectorStep, ParserStep, ScanStep, MainStep, Terminated

-----------------------------------------------------------------------------
\* The slots under the cursor are slots of Pool, and a packet in hand is never
\* None.
LEMMA InvOneOwner == Inv => OneOwner
<1> SUFFICES ASSUME Shape, Owned PROVE OneOwner
  BY DEF Inv
<1>1. 1 .. cursor \subseteq Pool
  BY PoolSizeType DEF Pool, InPool, Shape, TypeOK
<1>2. \A i, j \in 1 .. cursor : slots[i] = slots[j] => i = j
  BY <1>1 DEF Owned, PoolOwned
<1>3. Pooled \cap (Queued \cup Local \cup held \cup destroyed) = {}
  BY <1>1 DEF Owned, PoolOwned, Pooled, Queued, Local
<1>4. Queued \cap (Local \cup held \cup destroyed) = {} /\ Local \cap (held \cup destroyed) = {}
  BY DEF Owned, QueueOwned, LocalOwned, Queued, Local
<1>5. QED
  BY <1>2, <1>3, <1>4 DEF OneOwner, Owned, QueueOwned, LocalOwned

\* Every thread is where its code can be, its packet and the mutex included:
\* every state is of the type TypeOK gives it.
THEOREM PipelineTypeCorrect == Spec => []TypeOK
<1>1. Init => Shape
  BY ShapeInit
<1>2. Shape /\ [Next]_vars => Shape'
  BY ShapeNext
<1>3. Shape => TypeOK
  BY DEF Shape
<1>4. QED
  BY <1>1, <1>2, <1>3, PTL DEF Spec

\* For any number of packets and parsers, a packet has one owner, also when
\* collect() has pushed one without the lock (collector.cpp:160): a push that
\* has loaded an old cursor may lose packets but never hands one out twice.
THEOREM OneOwnerHolds == Spec => []OneOwner
<1>1. Init => Inv
  BY ShapeInit, OwnedInit DEF Inv
<1>2. Inv /\ [Next]_vars => Inv'
  BY ShapeNext, OwnedNext DEF Inv
<1>3. Inv => OneOwner
  BY InvOneOwner
<1>4. QED
  BY <1>1, <1>2, <1>3, PTL DEF Spec

-----------------------------------------------------------------------------
(* Conserved *)

\* Before the push without the lock, a push stores the cursor it loaded plus
\* one, since no other step has moved the cursor in between.
InStep == pc[Collector] \notin {"store", "done"} =>
            \A t \in Pushers : pc[t] = "store" => seen[t] = cursor
Kept == InStep /\ Conserved

Somewhere(x) == \/ \E i \in 1 .. cursor : slots[i] = x
                \/ \E i \in DOMAIN pkt_queue : pkt_queue[i] = x
                \/ \E t \in Threads : packet[t] = x
                \/ x \in held \/ x \in destroyed

\* NoneLost says that every packet is somewhere.
LEMMA NoneLostMeans == Shape => (NoneLost <=> \A x \in Packets : Somewhere(x))
<1> SUFFICES ASSUME Shape PROVE NoneLost <=> \A x \in Packets : Somewhere(x)
  OBVIOUS
<1>1. Pooled \cup Queued \cup Local \cup held \cup destroyed \subseteq Packets
  <2>1. Pooled \subseteq Packets /\ Queued \subseteq Packets /\ Local \subseteq Packets
    BY PoolSizeType DEF Shape, TypeOK, Pooled, Queued, Local
  <2>2. QED
    BY <2>1 DEF Shape, TypeOK
<1>2. \A x \in Packets :
        Somewhere(x) <=> x \in Pooled \cup Queued \cup Local \cup held \cup destroyed
  BY ThreadFacts DEF Somewhere, Pooled, Queued, Local
<1>3. QED
  BY <1>1, <1>2 DEF NoneLost

\* While a thread has a packet, the pool is not full: the packets in it are
\* different, and the thread's is not among them.
LEMMA NotFull ==
  ASSUME Shape, Owned, NEW t \in Threads, packet[t] # None
  PROVE  cursor < PoolSize
<1> USE PoolSizeType
<1>1. SUFFICES ASSUME cursor = PoolSize PROVE FALSE
  BY DEF Shape, TypeOK
<1>2. slots \in [1 .. PoolSize -> Packets] /\ packet[t] \in Packets
  BY DEF Shape, TypeOK
<1>3. Pool = 1 .. PoolSize
  BY <1>1 DEF Pool, InPool
<1>4. slots \in Injection(1 .. PoolSize, Packets)
  BY <1>2, <1>3 DEF Owned, PoolOwned, Injection, IsInjective
<1>5. Cardinality(1 .. PoolSize) = Cardinality(Packets)
  BY FS_Interval DEF PoolSize
<1>6. slots \in Surjection(1 .. PoolSize, Packets)
  BY <1>4, <1>5, FS_Injection, PipelineAssumption
<1>7. PICK i \in 1 .. PoolSize : slots[i] = packet[t]
  BY <1>2, <1>6 DEF Surjection
<1>8. QED
  BY <1>3, <1>7 DEF Owned, PoolOwned

\* A push before the end of the capture adds its packet to those in the pool.
LEMMA StoreKeeps ==
  ASSUME Shape, Owned, Kept, NEW t \in Threads, Store(t),
         pc'[Collector] \notin {"store", "done"}
  PROVE  /\ \A x \in Packets : Somewhere(x) => Somewhere(x)'
         /\ \A u \in Pushers : pc'[u] # "store"
<1> USE PoolSizeType, ThreadFacts
<1>1. /\ pc[t] = "store" /\ pc' = [pc EXCEPT ![t] = AfterPush(t)]
      /\ packet' = [packet EXCEPT ![t] = None]
      /\ UNCHANGED <<pkt_queue, held, destroyed>>
  BY DEF Store, Go, mainVars
<1>2. t # Collector /\ t \in Pushers /\ pc'[Collector] = pc[Collector]
  BY <1>1 DEF AfterPush, Shape, TypeOK
<1>3. seen[t] = cursor /\ cursor \in Nat
  BY <1>1, <1>2 DEF Kept, InStep, Shape, TypeOK
<1>4. cursor < PoolSize
  BY <1>1, NotFull DEF Shape, Holding
<1>5. slots' = [slots EXCEPT ![cursor + 1] = packet[t]] /\ cursor' = cursor + 1
  BY <1>3, <1>4 DEF Store
<1>6. /\ slots'[cursor + 1] = packet[t]
      /\ \A i \in 1 .. cursor : slots'[i] = slots[i]
      /\ \A i \in 1 .. cursor : i \in 1 .. cursor'
      /\ cursor + 1 \in 1 .. cursor'
  BY <1>3, <1>4, <1>5 DEF Shape, TypeOK
<1>7. \A u \in Threads : u # t => packet'[u] = packet[u]
  BY <1>1 DEF Shape, TypeOK
<1>8. \A x \in Packets : Somewhere(x) => Somewhere(x)'
  BY <1>1, <1>6, <1>7 DEF Somewhere
<1>9. \A u \in Pushers : pc'[u] # "store"
  <2>1. \A u \in Pushers \ {t} : pc'[u] = pc[u]
    BY <1>1 DEF Shape, TypeOK
  <2>2. \A u \in Pushers \ {t} : pc[u] # "store"
    BY <1>1, <1>2 DEF Shape, Locked
  <2>3. pc'[t] # "store"
    BY <1>1 DEF Shape, TypeOK, AfterPush
  <2>4. QED
    BY <2>1, <2>2, <2>3
<1>10. QED
  BY <1>8, <1>9

\* No step before the push without the lock loses a packet.
LEMMA KeptNext == Shape /\ Owned /\ Kept /\ [Next]_vars => Kept'
<1> SUFFICES ASSUME Shape, Owned, Kept, [Next]_vars PROVE Kept'
  OBVIOUS
<1> SUFFICES ASSUME pc'[Collector] \notin {"store", "done"}
             PROVE  /\ \A x \in Packets : Somewhere(x)'
                    /\ \A t \in Pushers : pc'[t] = "store" => seen'[t] = cursor'
  <2>1. Shape'
    BY ShapeNext
  <2>2. (NoneLost <=> \A x \in Packets : Somewhere(x))'
    BY <2>1, NoneLostMeans, PTL
  <2>3. QED
    BY <2>2 DEF Kept, InStep, Conserved
<1> USE PoolSizeType, ThreadFacts
<1>1. pc[Collector] \notin {"store", "done"}
  BY DEF Next, CollectorStep, ParserStep, ScanStep, MainStep, Terminated, Go, AfterPush,
         GetFree, NoneFree, WakeUp, ReadPacket, GiveBack, Free, Store, Start,
         CancelledAtStart, GetPacket, NoPacket, TestCancel, Reject, Push, Export, ScanExit,
         Cancel, Join, SetExitSignal, JoinScan, Destroy, Return, vars, Shape, TypeOK
<1>2. /\ \A x \in Packets : Somewhere(x)
      /\ \A t \in Pushers : pc[t] = "store" => seen[t] = cursor
  BY <1>1, NoneLostMeans DEF Kept, InStep, Conserved
<1>3. CASE GetFree
  <2>1. \A t \in Threads : pc'[t] # "store"
    BY <1>1, <1>3, NoPush DEF GetFree, Go, Shape, TypeOK
  <2>2. \A x \in Packets : Somewhere(x) => Somewhere(x)'
    <3>1. /\ cursor \in Nat /\ cursor > 0 /\ cursor' = cursor - 1
          /\ packet' = [packet EXCEPT ![Collector] = slots[cursor]]
          /\ UNCHANGED <<slots, pkt_queue, held, destroyed>>
      BY <1>3 DEF GetFree, mainVars, Shape, TypeOK
    <3>2. /\ packet'[Collector] = slots[cursor]
          /\ \A t \in Threads : t # Collector => packet'[t] = packet[t]
          /\ packet[Collector] = None
      BY <1>3, <3>1 DEF GetFree, Go, Shape, TypeOK, Holding
    <3>3. \A i \in 1 .. cursor : i \in 1 .. cursor' \/ i = cursor
      BY <3>1
    <3>4. QED
      BY <3>1, <3>2, <3>3 DEF Somewhere
  <2>3. QED
    BY <1>2, <2>1, <2>2
<1>4. CASE ReadPacket
  <2>1. /\ pkt_queue' = Append(pkt_queue, packet[Collector])
        /\ \A t \in Threads : t # Collector => packet'[t] = packet[t]
        /\ UNCHANGED <<slots, cursor, seen, held, destroyed>>
        /\ packet[Collector] \in Packets /\ pkt_queue \in Seq(Packets)
    BY <1>4 DEF ReadPacket, Go, poolVars, mainVars, Shape, TypeOK, Holding
  <2>2. /\ \A i \in DOMAIN pkt_queue : i \in DOMAIN pkt_queue' /\ pkt_queue'[i] = pkt_queue[i]
        /\ \E i \in DOMAIN pkt_queue' : pkt_queue'[i] = packet[Collector]
    <3>1. Len(pkt_queue) + 1 \in DOMAIN pkt_queue'
          /\ pkt_queue'[Len(pkt_queue) + 1] = packet[Collector]
      BY <2>1
    <3>2. QED
      BY <2>1, <3>1
  <2>3. \A x \in Packets : Somewhere(x)'
    BY <1>2, <2>1, <2>2 DEF Somewhere
  <2>4. QED
    BY <1>2, <1>4, <2>1, <2>3 DEF ReadPacket, Go, Shape, TypeOK
<1>5. ASSUME NEW p \in Parsers, GetPacket(p)
      PROVE  /\ \A x \in Packets : Somewhere(x)'
             /\ \A t \in Pushers : pc'[t] = "store" => seen'[t] = cursor'
  <2>1. /\ pkt_queue # <<>> /\ pkt_queue' = Tail(pkt_queue) /\ pkt_queue \in Seq(Packets)
        /\ packet[p] = None /\ packet'[p] = Head(pkt_queue)
        /\ \A t \in Threads : t # p => packet'[t] = packet[t]
        /\ UNCHANGED <<slots, cursor, seen, held, destroyed>>
    BY <1>5 DEF GetPacket, Go, poolVars, mainVars, Shape, TypeOK, Holding
  <2>2. \A i \in DOMAIN pkt_queue : \/ pkt_queue[i] = packet'[p]
                                    \/ \E j \in DOMAIN pkt_queue' : pkt_queue'[j] = pkt_queue[i]
    <3>1. SUFFICES ASSUME NEW i \in DOMAIN pkt_queue, i # 1
                   PROVE  \E j \in DOMAIN pkt_queue' : pkt_queue'[j] = pkt_queue[i]
      BY <2>1
    <3>2. i - 1 \in DOMAIN pkt_queue' /\ pkt_queue'[i - 1] = pkt_queue[i]
      BY <2>1, <3>1
    <3>3. QED
      BY <3>2
  <2>3. \A x \in Packets : Somewhere(x)'
    BY <1>2, <2>1, <2>2 DEF Somewhere
  <2>4. QED
    BY <1>2, <1>5, <2>1, <2>3 DEF GetPacket, Go, Shape, TypeOK
<1>6. ASSUME NEW p \in Parsers, Push(p)
      PROVE  /\ \A x \in Packets : Somewhere(x)'
             /\ \A t \in Pushers : pc'[t] = "store" => seen'[t] = cursor'
  <2>1. /\ held' = held \cup {packet[p]}
        /\ \A t \in Threads : t # p => packet'[t] = packet[t]
        /\ UNCHANGED <<slots, cursor, pkt_queue, seen, destroyed>>
    BY <1>6 DEF Push, Go, poolVars, mainVars, Shape, TypeOK
  <2>2. \A x \in Packets : Somewhere(x)'
    BY <1>2, <2>1 DEF Somewhere
  <2>3. QED
    BY <1>2, <1>6, <2>1, <2>2 DEF Push, Go, Shape, TypeOK
<1>7. ASSUME NEW pkt \in held, Export(pkt)
      PROVE  /\ \A x \in Packets : Somewhere(x)'
             /\ \A t \in Pushers : pc'[t] = "store" => seen'[t] = cursor'
  <2>1. /\ held' = held \ {pkt} /\ packet'[Scanner] = pkt /\ packet[Scanner] = None
        /\ \A t \in Threads : t # Scanner => packet'[t] = packet[t]
        /\ UNCHANGED <<slots, cursor, pkt_queue, seen, destroyed>>
    BY <1>7 DEF Export, Go, poolVars, mainVars, Shape, TypeOK, Holding
  <2>2. \A x \in Packets : Somewhere(x)'
    BY <1>2, <2>1 DEF Somewhere
  <2>3. QED
    BY <1>2, <1>7, <2>1, <2>2 DEF Export, Go, Shape, TypeOK
<1>8. CASE \E t \in Threads : Store(t)
  BY <1>2, <1>8, StoreKeeps
<1>9. CASE Destroy
  BY <1>1, <1>9 DEF Destroy, Shape, Joined
<1>10. CASE UNCHANGED <<slots, cursor, pkt_queue, packet, held, destroyed>>
  <2>1. \A x \in Packets : Somewhere(x)'
    BY <1>2, <1>10 DEF Somewhere
  <2>2. \A t \in Pushers : pc'[t] = "store" =>
          (pc[t] = "store" /\ seen'[t] = seen[t]) \/ seen'[t] = cursor
    BY <1>10
    DEF Next, CollectorStep, ParserStep, ScanStep, MainStep, Terminated, Go, AfterPush,
        GetFree, NoneFree, WakeUp, ReadPacket, GiveBack, Free, Store, Start,
        CancelledAtStart, GetPacket, NoPacket, TestCancel, Reject, Push, Export, ScanExit,
        Cancel, Join, SetExitSignal, JoinScan, Destroy, Return, vars, poolVars, mainVars, Shape, TypeOK
  <2>3. QED
    BY <1>2, <1>10, <2>1, <2>2
<1>11. QED
  BY <1>3, <1>4, <1>5, <1>6, <1>7, <1>8, <1>9, <1>10
  DEF Next, CollectorStep, ParserStep, ScanStep, MainStep, Terminated, NoneFree, WakeUp,
      GiveBack, Free, Start, CancelledAtStart, NoPacket, TestCancel, Reject, ScanExit,
      Cancel, Join, SetExitSignal, JoinScan, Return, vars, poolVars, mainVars

\* Until collect() pushes without the lock, every packet is in the pool, in the
\* queue, with a thread or in the exporter's table, for any number of packets
\* and parsers: collector.cpp:160 is the only place that can lose one.
THEOREM ConservedHolds == Spec => []Conserved
<1>1. Init => Inv /\ Kept
  <2>1. SUFFICES ASSUME Init PROVE InStep /\ \A x \in Packets : Somewhere(x)
    BY ShapeInit, OwnedInit, NoneLostMeans DEF Inv, Kept, Conserved
  <2>2. Shape /\ Owned
    BY <2>1, ShapeInit, OwnedInit
  <2>3. InStep
    BY <2>1, ThreadFacts DEF Init, InStep
  <2>4. slots \in Injection(1 .. PoolSize, Packets) /\ cursor = PoolSize
    BY <2>1 DEF Init, Injection, IsInjective
  <2>5. Cardinality(1 .. PoolSize) = Cardinality(Packets)
    BY PoolSizeType, FS_Interval DEF PoolSize
  <2>6. slots \in Surjection(1 .. PoolSize, Packets)
    BY <2>4, <2>5, FS_Injection, PipelineAssumption
  <2>7. \A x \in Packets : Somewhere(x)
    BY <2>4, <2>6 DEF Surjection, Somewhere
  <2>8. QED
    BY <2>3, <2>7
<1>2. Inv /\ Kept /\ [Next]_vars => (Inv /\ Kept)'
  BY ShapeNext, OwnedNext, KeptNext DEF Inv
<1>3. Inv /\ Kept => Conserved
  BY DEF Kept
<1>4. QED
  BY <1>1, <1>2, <1>3, PTL DEF Spec

=============================================================================
