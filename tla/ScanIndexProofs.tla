-------------------------- MODULE ScanIndexProofs --------------------------
(***************************************************************************)
(* Theorems about ScanIndex, for every number of parsers, index threads,   *)
(* buckets and flows, every trace and every size of the data file.         *)
(***************************************************************************)
EXTENDS ScanIndex, DataLemmas

-----------------------------------------------------------------------------
(* Operators the model is built from *)

LEMMA PositionMatches ==
    ASSUME NEW b \in Seq(Chain), NEW flow, Matches(b, flow) # {}
    PROVE  Position(b, flow) \in Matches(b, flow)
<1>1. Matches(b, flow) \subseteq Nat
  BY DEF Matches
<1>2. \E i \in Matches(b, flow) : \A j \in Matches(b, flow) : i <= j
  BY <1>1, LeastNatural
<1> QED BY <1>2 DEF Position

LEMMA GrowType ==
    ASSUME NEW c \in Chain, NEW rec \in Record
    PROVE  Grow(c, rec) \in Chain
<1> DEFINE e == [len |-> rec.len, sec |-> rec.sec]
           p == Append(c.pkts, e)
           n == c.file_offset + rec.len
<1>1. e \in Packet /\ rec.len \in Nat
  BY ScanIndexAssumption DEF Record, Packet
<1>2. c.pkts \in Seq(Packet) /\ c.file_offset \in Nat /\ c.flow \in Flows
  BY DEF Chain
<1>3. p \in Seq(Packet) \ {<<>>} /\ n \in Nat
  BY <1>1, <1>2, AppendProperties
<1>4. Grow(c, rec) = [c EXCEPT !.file_offset = n, !.pkts = p]
  BY DEF Grow
<1> HIDE DEF p, n
<1> QED BY <1>2, <1>3, <1>4 DEF Chain

\* push_record keeps a bucket a list of nonempty chains.
LEMMA PushRecordType ==
    ASSUME NEW b \in Seq(Chain), NEW rec \in Record
    PROVE  PushRecord(b, rec) \in Seq(Chain)
<1> USE ScanIndexAssumption
<1>0. rec.len \in Nat /\ rec.flow \in Flows /\ [len |-> rec.len, sec |-> rec.sec] \in Packet
  BY DEF Record, Packet
<1>1. NewChain(rec) \in Chain
  BY <1>0 DEF NewChain, Chain
<1>2. CASE Matches(b, rec.flow) = {}
  BY <1>1, <1>2 DEF PushRecord
<1>3. CASE Matches(b, rec.flow) # {} /\ ~CutsOff(b, rec)
  <2> DEFINE i == Position(b, rec.flow)
  <2>1. i \in DOMAIN b
    BY <1>3, PositionMatches DEF Matches
  <2>2. b[i] \in Chain /\ 1 \in DOMAIN b /\ b[1] \in Chain
    BY <2>1
  <2>4. Grow(b[i], rec) \in Chain
    BY <2>2, GrowType
  <2>5. PushRecord(b, rec) = [b EXCEPT ![i] = b[1], ![1] = Grow(b[i], rec)]
    BY <1>3 DEF PushRecord
  <2> HIDE DEF i
  <2> QED BY <2>1, <2>2, <2>4, <2>5
<1>4. CASE CutsOff(b, rec)
  BY <1>4 DEF PushRecord, CutsOff
<1> QED BY <1>2, <1>3, <1>4

LEMMA UnlinkType ==
    ASSUME NEW S, NEW b \in Seq(S), NEW i \in 1 .. Len(b)
    PROVE  Unlink(b, i) \in Seq(S)
<1>1. SubSeq(b, 1, i - 1) \in Seq(S)
  BY SubSeqProperties
<1>2. SubSeq(b, i + 1, Len(b)) \in Seq(S)
  BY SubSeqProperties
<1> QED BY <1>1, <1>2, ConcatProperties DEF Unlink

LEMMA TailNonEmpty ==
    ASSUME NEW S, NEW s \in Seq(S), Len(s) > 1
    PROVE  Tail(s) \in Seq(S) /\ Tail(s) # <<>>
<1>1. s # <<>> /\ Len(s) \in Nat
  BY EmptySeq, LenProperties
<1>2. Tail(s) \in Seq(S) /\ Len(Tail(s)) = Len(s) - 1
  BY <1>1, HeadTailProperties
<1>3. Len(Tail(s)) # 0
  BY <1>1, <1>2
<1> QED BY <1>2, <1>3, EmptySeq

\* The size of a data file stays a uint32_t.
LEMMA WriteFileType ==
    ASSUME NEW size \in Size, NEW len \in Nat
    PROVE  WriteFile(size, len) \in Size
BY FileWriterAssumption DEF WriteFile, Size

LEMMA FileIDType ==
    ASSUME NEW num \in Nat
    PROVE  ApplyFileID(num) \in FileIDs /\ NextFileNum(num) \in Nat
BY FileWriterAssumption DEF ApplyFileID, NextFileNum, FileIDs

-----------------------------------------------------------------------------
(* Types *)

LEMMA TypeInit == Init => TypeOK
<1> USE FileWriterAssumption, ScanIndexAssumption
<1>1. ApplyFileID(0) \in FileIDs /\ NextFileNum(0) \in Nat
  BY FileIDType
<1>2. 0 \in Size
  BY DEF Size
<1>3. /\ NoChain \in [flow : Flows \cup {NoRecord}, first : Size, pkts : Seq(Packet)]
      /\ NoIndex \in [Codes -> Seq(Entry)]
  BY <1>2 DEF NoChain, NoIndex
<1>4. 0 \in 0 .. BucketSize /\ 0 \in Nat /\ 1 \in Nat \ {0}
  OBVIOUS
<1> SUFFICES ASSUME Init PROVE TypeOK
  OBVIOUS
<1>5. /\ trace \in Seq(Record)
      /\ table \in [Buckets -> Seq(Chain)]
      /\ datFile \in [FileIDs -> Seq(Extent)]
      /\ linkNodePool \in Seq(Entry)
  BY DEF Init
<1>6. /\ chain \in [flow : Flows \cup {NoRecord}, first : Size, pkts : Seq(Packet)]
      /\ index \in [Codes -> Seq(Entry)] /\ part \in [Codes -> Seq(Entry)]
      /\ idxFile \in [FileIDs -> [Codes -> Seq(Entry)]]
  BY <1>3 DEF Init
<1> QED
  BY <1>1, <1>2, <1>4, <1>5, <1>6 DEF Init, TypeOK, ScanPlaces, QueueLockPlaces

LEMMA TypeParser == ASSUME TypeOK, NEW p \in Parsers, ParserStep(p) PROVE TypeOK'
<1> USE DEF TypeOK, shareVars, scanVars, fileVars, indexVars, mainVars
<1>1. CASE Take(p)
  <2>1. Head(trace) \in Record /\ Tail(trace) \in Seq(Record)
    BY <1>1, HeadTailProperties DEF Take
  <2> QED BY <1>1, <2>1 DEF Take
<1>2. CASE Stamp(p)
  BY <1>2, ScanIndexAssumption, ZenonT(60) DEF Stamp, Record
<1>3. CASE Insert(p)
  <2> DEFINE b == HashOf[prec[p].flow]
  <2>1. prec[p] \in Record /\ b \in Buckets
    BY <1>3, ScanIndexAssumption DEF Insert, Record
  <2>2. PushRecord(table[b], prec[p]) \in Seq(Chain)
    BY <2>1, PushRecordType
  <2>3. table' \in [Buckets -> Seq(Chain)]
    BY <1>3, <2>1, <2>2 DEF Insert
  <2> QED BY <1>3, <2>3 DEF Insert
<1> QED BY <1>1, <1>2, <1>3 DEF ParserStep

LEMMA TypeIndex == ASSUME TypeOK, NEW c \in Codes, IndexStep(c) PROVE TypeOK'
<1> USE DEF TypeOK, parserVars, shareVars, scanVars, fileVars, indexVars, mainVars
<1>1. CASE IndexWait(c)
  BY <1>1 DEF IndexWait
<1>2. CASE IndexTake(c)
  BY <1>2 DEF IndexTake
<1>3. CASE IndexAdd(c)
  <2>1. linkNodePool[Len(part[c]) + 1] \in Entry
    BY <1>3 DEF IndexAdd
  <2>2. Append(part[c], linkNodePool[Len(part[c]) + 1]) \in Seq(Entry)
    BY <2>1
  <2> QED BY <1>3, <2>2 DEF IndexAdd
<1>4. CASE IndexClear(c)
  <2>1. index[c] \o part[c] \in Seq(Entry)
    BY ConcatProperties
  <2>2. <<>> \in Seq(Entry)
    OBVIOUS
  <2> QED BY <1>4, <2>1, <2>2 DEF IndexClear, Toggle
<1>5. CASE IndexPeek(c)
  BY <1>5 DEF IndexPeek
<1>6. CASE IndexSignal(c)
  BY <1>6 DEF IndexSignal
<1>7. CASE IndexCheckExit(c)
  BY <1>7 DEF IndexCheckExit
<1> QED BY <1>1, <1>2, <1>3, <1>4, <1>5, <1>6, <1>7 DEF IndexStep

LEMMA TypeExport == ASSUME TypeOK, ExportStep PROVE TypeOK'
<1> USE DEF TypeOK, parserVars, shareVars, scanVars, fileVars, indexVars, mainVars,
            ScanPlaces, QueueLockPlaces
<1>1. CASE StartScan
  BY <1>1, ScanIndexAssumption DEF StartScan
<1>2. CASE LockBucket
  BY <1>2, ScanIndexAssumption DEF LockBucket, Buckets
<1>3. CASE EndScan
  BY <1>3, ScanIndexAssumption DEF EndScan
<1>4. CASE SkipChain
  BY <1>4 DEF SkipChain
<1>5. CASE FileFull
  BY <1>5, ScanIndexAssumption DEF FileFull, Buckets
<1>6. CASE UnlinkChain
  <2>1. bucket \in Buckets /\ ptr \in 1 .. Len(table[bucket])
    BY <1>6 DEF UnlinkChain
  <2>2. table[bucket] \in Seq(Chain) /\ table[bucket][ptr] \in Chain
    BY <2>1
  <2>3. Unlink(table[bucket], ptr) \in Seq(Chain)
    BY <2>1, <2>2, UnlinkType
  <2>4. table' \in [Buckets -> Seq(Chain)]
    BY <1>6, <2>1, <2>3 DEF UnlinkChain
  <2>5. /\ chain' \in [flow : Flows \cup {NoRecord}, first : Size, pkts : Seq(Packet)]
        /\ chain'.flow \in Flows /\ chain'.pkts # <<>>
    BY <1>6, <2>2 DEF UnlinkChain, Chain
  <2> QED BY <1>6, <2>1, <2>4, <2>5 DEF UnlinkChain
<1>7. CASE EndBucket
  BY <1>7, ScanIndexAssumption DEF EndBucket, Buckets
<1>8. CASE WritePacket
  <2>1. /\ chain.pkts \in Seq(Packet) /\ chain.pkts # <<>>
        /\ chain.flow \in Flows /\ chain.first \in Size
    BY <1>8 DEF WritePacket
  <2>2. Head(chain.pkts).len \in Nat
    <3>1. Head(chain.pkts) \in Packet
      BY <2>1, HeadTailProperties
    <3> QED BY <3>1, ScanIndexAssumption DEF Packet
  <2>3. file_size' \in Size
    BY <1>8, <2>2, WriteFileType DEF WritePacket
  <2>4. Tail(chain.pkts) \in Seq(Packet) /\ Tail(chain.pkts) # <<>>
    BY <1>8, <2>1, TailNonEmpty DEF WritePacket
  <2>5. chain' = [flow |-> chain.flow, first |-> chain.first, pkts |-> Tail(chain.pkts)]
    BY <1>8 DEF WritePacket
  <2> QED BY <1>8, <2>1, <2>3, <2>4, <2>5 DEF WritePacket
<1>9. CASE WriteLast
  <2>1. /\ chain.pkts \in Seq(Packet) /\ chain.pkts # <<>>
        /\ chain.flow \in Flows /\ chain.first \in Size
    BY <1>9 DEF WriteLast
  <2>2. Head(chain.pkts).len \in Nat
    <3>1. Head(chain.pkts) \in Packet
      BY <2>1, HeadTailProperties
    <3> QED BY <3>1, ScanIndexAssumption DEF Packet
  <2>3. file_size' \in Size
    BY <1>9, <2>2, WriteFileType DEF WriteLast
  <2>4. [flow |-> chain.flow, first |-> chain.first, off |-> file_size] \in Extent
    BY <2>1 DEF Extent
  <2>5. datFile' \in [FileIDs -> Seq(Extent)]
    BY <1>9, <2>4 DEF WriteLast
  <2>6. [flow |-> chain.flow, off |-> file_size] \in Entry
    BY <2>1 DEF Entry
  <2>7. linkNodePool' \in Seq(Entry)
    BY <1>9, <2>6 DEF WriteLast, PushResource
  <2>8. chain' = NoChain /\ 0 \in Size
    BY <1>9, FileWriterAssumption DEF WriteLast, Size
  <2> QED BY <1>9, <2>3, <2>5, <2>7, <2>8 DEF WriteLast, NoChain
<1> QED BY <1>1, <1>2, <1>3, <1>4, <1>5, <1>6, <1>7, <1>8, <1>9 DEF ExportStep

LEMMA WriteIndexType ==
    ASSUME TypeOK, NEW id \in FileIDs, WriteIndex(id)
    PROVE  /\ idxFile' \in [FileIDs -> [Codes -> Seq(Entry)]]
           /\ index' \in [Codes -> Seq(Entry)]
           /\ part' \in [Codes -> Seq(Entry)]
<1>1. \A c \in Codes : index[c] \o part[c] \in Seq(Entry)
  BY ConcatProperties DEF TypeOK
<1> QED BY <1>1 DEF WriteIndex, NoIndex, TypeOK

LEMMA TypeScan == ASSUME TypeOK, ScanStep PROVE TypeOK'
<1> USE DEF TypeOK, parserVars, shareVars, scanVars, fileVars, indexVars, mainVars,
            ScanPlaces, QueueLockPlaces
<1>1. CASE ScanWait
  BY <1>1 DEF ScanWait
<1>2. CASE ScanEnter
  BY <1>2 DEF ScanEnter
<1>3. CASE ScanClear
  BY <1>3 DEF ScanClear
<1>4. CASE Rotate
  <2>1. /\ idxFile' \in [FileIDs -> [Codes -> Seq(Entry)]]
        /\ index' \in [Codes -> Seq(Entry)] /\ part' \in [Codes -> Seq(Entry)]
    BY <1>4, WriteIndexType DEF Rotate
  <2>2. fileID' \in FileIDs /\ file_num' \in Nat
    BY <1>4, FileIDType DEF Rotate
  <2>3. datFile' \in [FileIDs -> Seq(Extent)]
    BY <1>4, <2>2 DEF Rotate
  <2>4. file_size' \in Size
    BY <1>4, FileWriterAssumption DEF Rotate, Size
  <2> QED BY <1>4, <2>1, <2>2, <2>3, <2>4 DEF Rotate
<1>5. CASE KeepFile
  BY <1>5 DEF KeepFile
<1>6. CASE CheckExitSignal
  BY <1>6 DEF CheckExitSignal
<1>7. CASE ExportStep
  BY <1>7, TypeExport
<1>8. CASE Publish
  BY <1>8 DEF Publish
<1>9. CASE Notify
  BY <1>9 DEF Notify, Broadcast
<1>10. CASE Mark
  BY <1>10 DEF Mark
<1>11. CASE Flush
  <2>1. /\ idxFile' \in [FileIDs -> [Codes -> Seq(Entry)]]
        /\ index' \in [Codes -> Seq(Entry)] /\ part' \in [Codes -> Seq(Entry)]
    BY <1>11, WriteIndexType DEF Flush
  <2> QED BY <1>11, <2>1 DEF Flush
<1>12. CASE Finish
  BY <1>12 DEF Finish
<1>13. CASE LastCall
  BY <1>13 DEF LastCall, Broadcast
<1> QED BY <1>1, <1>2, <1>3, <1>4, <1>5, <1>6, <1>7, <1>8, <1>9, <1>10, <1>11,
           <1>12, <1>13 DEF ScanStep

LEMMA TypeNext == TypeOK /\ [Next]_vars => TypeOK'
<1> SUFFICES ASSUME TypeOK, [Next]_vars PROVE TypeOK'
  OBVIOUS
<1> USE DEF parserVars, shareVars, scanVars, fileVars, indexVars, mainVars
<1>1. CASE \E p \in Parsers : ParserStep(p)
  BY <1>1, TypeParser
<1>2. CASE ScanStep
  BY <1>2, TypeScan
<1>3. CASE \E c \in Codes : IndexStep(c)
  BY <1>3, TypeIndex
<1>4. CASE SpuriousWakeup
  BY <1>4, ZenonT(60) DEF SpuriousWakeup, TypeOK
<1>5. CASE SetExitSignal
  BY <1>5 DEF SetExitSignal, TypeOK
<1>6. CASE Join
  BY <1>6 DEF Join, TypeOK
<1>7. CASE UNCHANGED vars
  BY <1>7 DEF vars, TypeOK
<1> QED BY <1>1, <1>2, <1>3, <1>4, <1>5, <1>6, <1>7 DEF Next, Terminated

\* Every variable keeps its type, the data file's size in a uint32_t included.
THEOREM TypeCorrect == Spec => []TypeOK
BY TypeInit, TypeNext, PTL DEF Spec
-----------------------------------------------------------------------------
(* The scan thread and the index threads exclude each other *)

\* No step of a parser or of main, and no wakeup, touches the protocol.
protocolVars == <<spc, exiting, readCode, ipc, index, part, linkNodePool, fileID,
                  datFile, idxFile>>

LEMMA OutsideSteps ==
    ASSUME \/ \E p \in Parsers : ParserStep(p)
           \/ SpuriousWakeup \/ SetExitSignal \/ Join \/ UNCHANGED vars
    PROVE  UNCHANGED protocolVars
BY DEF ParserStep, Take, Stamp, Insert, SpuriousWakeup, SetExitSignal, Join, vars,
       parserVars, scanVars, fileVars, shareVars, indexVars, mainVars, protocolVars

LEMMA ProtocolInit == Init => Protocol
BY DEF Init, Protocol, Filling

LEMMA ProtocolIndex ==
    ASSUME TypeOK, Protocol, NEW c \in Codes, IndexStep(c)
    PROVE  Protocol'
<1> USE DEF Protocol, TypeOK, Filling, HoldsQueueLock, QueueLockPlaces, scanVars,
            shareVars
<1>1. CASE IndexWait(c)
  BY <1>1 DEF IndexWait, indexVars
<1>2. CASE IndexTake(c)
  BY <1>2 DEF IndexTake
<1>3. CASE IndexAdd(c)
  BY <1>3 DEF IndexAdd
<1>4. CASE IndexClear(c)
  BY <1>4 DEF IndexClear, Toggle
<1>5. CASE IndexPeek(c)
  BY <1>5 DEF IndexPeek
<1>6. CASE IndexSignal(c)
  BY <1>6 DEF IndexSignal
<1>7. CASE IndexCheckExit(c)
  BY <1>7 DEF IndexCheckExit
<1> QED BY <1>1, <1>2, <1>3, <1>4, <1>5, <1>6, <1>7 DEF IndexStep

LEMMA ProtocolScan ==
    ASSUME TypeOK, Protocol, ScanStep
    PROVE  Protocol'
<1> USE DEF Protocol, TypeOK, Filling, shareVars, indexVars
<1>1. CASE ScanWait
  BY <1>1 DEF ScanWait, scanVars
<1>2. CASE ScanEnter
  BY <1>2 DEF ScanEnter
<1>3. CASE ScanClear
  BY <1>3 DEF ScanClear
<1>4. CASE Rotate \/ KeepFile \/ CheckExitSignal
  BY <1>4 DEF Rotate, KeepFile, CheckExitSignal
<1>5. CASE ExportStep
  BY <1>5 DEF ExportStep, StartScan, LockBucket, EndScan, SkipChain, FileFull,
     UnlinkChain, EndBucket, WritePacket, WriteLast
<1>6. CASE Publish \/ Notify \/ Mark
  BY <1>6 DEF Publish, Notify, Mark
<1>7. CASE Flush \/ Finish \/ LastCall
  BY <1>7 DEF Flush, Finish, LastCall
<1> QED BY <1>1, <1>2, <1>3, <1>4, <1>5, <1>6, <1>7 DEF ScanStep

LEMMA ProtocolNext == TypeOK /\ Protocol /\ [Next]_vars => Protocol'
<1> SUFFICES ASSUME TypeOK, Protocol, [Next]_vars PROVE Protocol'
  OBVIOUS
<1>1. CASE ScanStep
  BY <1>1, ProtocolScan
<1>2. CASE \E c \in Codes : IndexStep(c)
  BY <1>2, ProtocolIndex
<1>3. CASE UNCHANGED protocolVars
  BY <1>3 DEF protocolVars, Protocol, Filling
<1> QED BY <1>1, <1>2, <1>3, OutsideSteps DEF Next, Terminated

LEMMA ProtocolExcludes == TypeOK /\ Protocol => Exclusion
BY DEF TypeOK, Protocol, Exclusion, HoldsQueueLock, QueueLockPlaces, Filling

\* However many index threads there are, however they are scheduled and
\* whatever wakeups are spurious, buildIndex never runs while the scan thread
\* recycles, fills or writes out what it reads (exporter.cpp:28, index.cpp:26).
THEOREM ExclusionHolds == Spec => []Exclusion
<1>1. Init => TypeOK /\ Protocol
  BY TypeInit, ProtocolInit
<1>2. TypeOK /\ Protocol /\ [Next]_vars => TypeOK' /\ Protocol'
  BY TypeNext, ProtocolNext
<1> QED BY <1>1, <1>2, ProtocolExcludes, PTL DEF Spec
-----------------------------------------------------------------------------
(* The index files list what the data files hold *)

LEMMA CopyingInit == Init => Copying
BY DEF Init, Copying, NoIndex

LEMMA CopyingIndex ==
    ASSUME TypeOK, Protocol, Copying, NEW c \in Codes, IndexStep(c)
    PROVE  Copying'
<1> USE DEF Copying, TypeOK, scanVars, shareVars
<1>1. CASE IndexWait(c)
  BY <1>1 DEF IndexWait, indexVars
<1>2. CASE IndexTake(c)
  BY <1>2 DEF IndexTake
<1>3. CASE IndexAdd(c)
  <2> DEFINE n == Len(part[c])
             e == linkNodePool[n + 1]
  <2>1. n \in Nat /\ Len(linkNodePool) \in Nat /\ n < Len(linkNodePool)
    BY <1>3, LenProperties DEF IndexAdd
  <2>2. e \in Entry /\ part[c] \in Seq(Entry)
    BY <2>1
  <2>3. part' = [part EXCEPT ![c] = Append(part[c], e)]
    BY <1>3 DEF IndexAdd
  <2>4. /\ Len(part'[c]) = n + 1
        /\ \A i \in 1 .. n : part'[c][i] = part[c][i]
        /\ part'[c][n + 1] = e
    BY <2>2, <2>3, AppendProperties
  <2>5. \A i \in 1 .. n + 1 : part'[c][i] = linkNodePool[i]
    BY <1>3, <2>1, <2>4 DEF IndexAdd
  <2>6. ASSUME NEW d \in Codes, ipc[d] = "build", d # c
        PROVE  part'[d] = part[d]
    BY <2>3, <2>6
  <2>7. UNCHANGED <<ipc, linkNodePool, spc>> /\ ipc[c] = "build"
    BY <1>3 DEF IndexAdd
  <2>8. n + 1 <= Len(linkNodePool)
    BY <2>1
  <2>9. ASSUME NEW d \in Codes, ipc[d] # "build" PROVE part'[d] = <<>>
    BY <2>3, <2>7, <2>9
  <2> HIDE DEF n, e
  <2>10. ASSUME NEW d \in Codes, ipc[d] = "build"
         PROVE  /\ Len(part'[d]) <= Len(linkNodePool)
                /\ \A i \in 1 .. Len(part'[d]) : part'[d][i] = linkNodePool[i]
    <3>1. CASE d = c
      BY <3>1, <2>4, <2>5, <2>8
    <3>2. CASE d # c
      BY <3>2, <2>6, <2>10
    <3> QED BY <3>1, <3>2
  <2> QED BY <2>7, <2>9, <2>10
<1>4. CASE IndexClear(c)
  BY <1>4 DEF IndexClear
<1>5. CASE IndexPeek(c)
  BY <1>5 DEF IndexPeek
<1>6. CASE IndexSignal(c)
  BY <1>6 DEF IndexSignal
<1>7. CASE IndexCheckExit(c)
  BY <1>7 DEF IndexCheckExit
<1> QED BY <1>1, <1>2, <1>3, <1>4, <1>5, <1>6, <1>7 DEF IndexStep

LEMMA CopyingScan ==
    ASSUME TypeOK, Protocol, Copying, ScanStep
    PROVE  Copying'
<1> USE DEF Copying, shareVars, indexVars
<1>a. HoldsQueueLock => \A c \in Codes : ipc[c] # "build"
  BY ProtocolExcludes DEF Exclusion
<1>1. CASE ScanWait
  BY <1>1 DEF ScanWait, scanVars
<1>2. CASE ScanEnter
  BY <1>2 DEF ScanEnter
<1>3. CASE ScanClear
  BY <1>3, <1>a DEF ScanClear, HoldsQueueLock, QueueLockPlaces
<1>4. CASE Rotate
  BY <1>4, <1>a DEF Rotate, WriteIndex, NoIndex, HoldsQueueLock, QueueLockPlaces
<1>5. CASE KeepFile \/ CheckExitSignal
  BY <1>5 DEF KeepFile, CheckExitSignal
<1>6. CASE WriteLast
  BY <1>6, <1>a DEF WriteLast, HoldsQueueLock, QueueLockPlaces
<1>7. CASE ExportStep /\ ~WriteLast
  BY <1>7 DEF ExportStep, StartScan, LockBucket, EndScan, SkipChain, FileFull,
     UnlinkChain, EndBucket, WritePacket
<1>8. CASE Publish \/ Notify \/ Mark
  BY <1>8 DEF Publish, Notify, Mark
<1>9. CASE Flush
  BY <1>9, <1>a DEF Flush, WriteIndex, NoIndex, HoldsQueueLock, QueueLockPlaces
<1>10. CASE Finish \/ LastCall
  BY <1>10 DEF Finish, LastCall
<1> QED BY <1>1, <1>2, <1>3, <1>4, <1>5, <1>6, <1>7, <1>8, <1>9, <1>10 DEF ScanStep

LEMMA CopyingNext == TypeOK /\ Protocol /\ Copying /\ [Next]_vars => Copying'
<1> SUFFICES ASSUME TypeOK, Protocol, Copying, [Next]_vars PROVE Copying'
  OBVIOUS
<1>1. CASE ScanStep
  BY <1>1, CopyingScan
<1>2. CASE \E c \in Codes : IndexStep(c)
  BY <1>2, CopyingIndex
<1>3. CASE UNCHANGED protocolVars
  BY <1>3 DEF protocolVars, Copying
<1> QED BY <1>1, <1>2, <1>3, OutsideSteps DEF Next, Terminated

\* A thread that is through with the batch has copied all of it.
LEMMA WholeBatch ==
    ASSUME TypeOK, Copying, NEW c \in Codes, ipc[c] = "build",
           Len(part[c]) >= Len(linkNodePool)
    PROVE  part[c] = linkNodePool
<1>1. part[c] \in Seq(Entry) /\ linkNodePool \in Seq(Entry)
  BY DEF TypeOK
<1>2. Len(part[c]) = Len(linkNodePool)
  BY <1>1, LenProperties DEF Copying
<1>3. \A i \in 1 .. Len(part[c]) : part[c][i] = linkNodePool[i]
  BY DEF Copying
<1> QED BY <1>1, <1>2, <1>3, SeqEqual

LEMMA EntriesType ==
    ASSUME NEW d \in Seq(Extent)
    PROVE  Entries(d) \in Seq(Entry) /\ Len(Entries(d)) = Len(d)
<1>1. Len(d) \in Nat /\ DOMAIN d = 1 .. Len(d) /\ d \in [1 .. Len(d) -> Extent]
  BY LenProperties
<1>2. \A i \in 1 .. Len(d) : [flow |-> d[i].flow, off |-> d[i].off] \in Entry
  BY <1>1 DEF Extent, Entry
<1>3. Entries(d) \in [1 .. Len(d) -> Entry]
  BY <1>1, <1>2 DEF Entries
<1>4. Entries(d) \in Seq(Entry)
  BY <1>1, <1>3, SeqDef
<1>5. DOMAIN Entries(d) = 1 .. Len(d) /\ DOMAIN Entries(d) = 1 .. Len(Entries(d))
  BY <1>3, <1>4, LenProperties
<1>6. Len(Entries(d)) \in Nat
  BY <1>4, LenProperties
<1> QED BY <1>1, <1>4, <1>5, <1>6

LEMMA EntriesAppend ==
    ASSUME NEW d \in Seq(Extent), NEW x \in Extent
    PROVE  Entries(Append(d, x)) = Append(Entries(d), [flow |-> x.flow, off |-> x.off])
<1> DEFINE e == [flow |-> x.flow, off |-> x.off]
<1>1. e \in Entry
  BY DEF Extent, Entry
<1>2. Append(d, x) \in Seq(Extent) /\ Len(Append(d, x)) = Len(d) + 1
  BY AppendProperties
<1>3. Entries(d) \in Seq(Entry) /\ Len(Entries(d)) = Len(d)
  BY EntriesType
<1>4. /\ Append(Entries(d), e) \in Seq(Entry)
      /\ Len(Append(Entries(d), e)) = Len(d) + 1
  BY <1>1, <1>3, AppendProperties
<1>5. Entries(Append(d, x)) \in Seq(Entry) /\ Len(Entries(Append(d, x))) = Len(d) + 1
  BY <1>2, EntriesType
<1>6. ASSUME NEW i \in 1 .. Len(d) + 1
      PROVE  Entries(Append(d, x))[i] = Append(Entries(d), e)[i]
  <2>1. CASE i = Len(d) + 1
    BY <2>1, <1>1, <1>2, <1>3, AppendProperties DEF Entries
  <2>2. CASE i \in 1 .. Len(d)
    <3>1. Entries(d)[i] = [flow |-> d[i].flow, off |-> d[i].off]
      BY <2>2 DEF Entries
    <3>2. Append(d, x)[i] = d[i] /\ Append(Entries(d), e)[i] = Entries(d)[i]
      BY <2>2, <1>1, <1>3, AppendProperties
    <3>3. Entries(Append(d, x))[i] = [flow |-> Append(d, x)[i].flow,
                                      off |-> Append(d, x)[i].off]
      BY <1>2, <2>2 DEF Entries
    <3> QED BY <3>1, <3>2, <3>3
  <2>3. Len(d) \in Nat
    BY LenProperties
  <2>4. i = Len(d) + 1 \/ i \in 1 .. Len(d)
    BY <1>6, <2>3
  <2> QED BY <2>1, <2>2, <2>4, Zenon
<1> QED BY <1>4, <1>5, <1>6, SeqEqual

LEMMA ConcatAppend ==
    ASSUME NEW S, NEW s \in Seq(S), NEW t \in Seq(S), NEW e \in S
    PROVE  s \o Append(t, e) = Append(s \o t, e)
<1>1. Append(t, e) = t \o <<e>> /\ <<e>> \in Seq(S)
  BY AppendIsConcat
<1>2. s \o t \in Seq(S)
  BY ConcatProperties
<1>3. Append(s \o t, e) = (s \o t) \o <<e>>
  BY <1>2, AppendIsConcat
<1> QED BY <1>1, <1>3, ConcatAssociative
\* What the two properties on files ask for, with what they rest on.
Faithful == Copying /\ CurrentFaithful /\ IndexFaithful

LEMMA FaithfulInit == Init => Faithful
<1>1. Init => CurrentFaithful
  BY FileIDType DEF Init, CurrentFaithful, Outstanding, Filling, Entries, NoIndex
<1>2. Init => IndexFaithful
  BY DEF Init, IndexFaithful, Entries, NoIndex
<1> QED BY <1>1, <1>2, CopyingInit DEF Faithful

\* Only the clearing of a bit moves a batch into an index.
LEMMA CurrentIndex ==
    ASSUME TypeOK, Protocol, Copying, CurrentFaithful, NEW c \in Codes, IndexStep(c)
    PROVE  CurrentFaithful'
<1> USE DEF CurrentFaithful, Outstanding, Filling
<1>1. CASE IndexClear(c)
  <2>1. part[c] = linkNodePool /\ ipc[c] = "build" /\ c \in readCode
    BY <1>1, WholeBatch DEF IndexClear, Protocol
  <2>2. ~Filling
    BY <1>1 DEF IndexClear, HoldsQueueLock, QueueLockPlaces
  <2>3. readCode' = readCode \ {c}
    BY <1>1, <2>1 DEF IndexClear, Toggle
  <2>4. /\ index' = [index EXCEPT ![c] = index[c] \o linkNodePool]
        /\ UNCHANGED <<spc, linkNodePool, datFile, fileID>>
    BY <1>1, <2>1 DEF IndexClear, scanVars, fileVars
  <2>5. index[c] \o linkNodePool \in Seq(Entry)
    BY ConcatProperties DEF TypeOK
  <2>6. (index[c] \o linkNodePool) \o <<>> = index[c] \o linkNodePool
    BY <2>5, ConcatEmptySeq
  <2>7. ASSUME spc \notin {"finish", "lastcall", "done"}, NEW d \in Codes
        PROVE  index'[d] \o Outstanding(d)' = Entries(datFile[fileID])
    <3>1. CASE d = c
      BY <2>1, <2>2, <2>3, <2>4, <2>6, <2>7, <3>1 DEF TypeOK
    <3>2. CASE d # c
      BY <2>2, <2>3, <2>4, <2>7, <3>2 DEF TypeOK
    <3> QED BY <3>1, <3>2
  <2> QED BY <2>4, <2>7
<1>2. CASE ~IndexClear(c)
  BY <1>2 DEF IndexStep, IndexWait, IndexTake, IndexAdd, IndexPeek, IndexSignal,
     IndexCheckExit, scanVars, fileVars, shareVars, indexVars
<1> QED BY <1>1, <1>2

LEMMA CurrentScan ==
    ASSUME TypeOK, Protocol, Copying, CurrentFaithful, PoolHasRoom, ScanStep
    PROVE  CurrentFaithful'
<1> USE DEF CurrentFaithful, Outstanding, Filling, shareVars, indexVars, fileVars
<1>1. CASE ScanWait
  BY <1>1 DEF ScanWait, scanVars
<1>2. CASE ScanEnter
  BY <1>2 DEF ScanEnter
<1>3. CASE ScanClear
  BY <1>3 DEF ScanClear, Protocol
<1>4. CASE Rotate
  <2>1. /\ fileID' \in FileIDs /\ datFile' = [datFile EXCEPT ![fileID'] = <<>>]
        /\ index' = NoIndex /\ linkNodePool' = <<>> /\ spc' = "checkexit"
    BY <1>4, FileIDType DEF Rotate, WriteIndex, Copying, TypeOK
  <2>2. Entries(datFile'[fileID']) = <<>>
    BY <2>1 DEF TypeOK, Entries
  <2> QED BY <2>1, <2>2 DEF NoIndex
<1>5. CASE KeepFile \/ CheckExitSignal
  BY <1>5 DEF KeepFile, CheckExitSignal
<1>6. CASE WriteLast
  <2> DEFINE e == [flow |-> chain.flow, off |-> file_size]
             x == [flow |-> chain.flow, first |-> chain.first, off |-> file_size]
  <2>1. e \in Entry /\ x \in Extent /\ fileID \in FileIDs
    BY <1>6 DEF WriteLast, TypeOK, Entry, Extent
  <2>2. linkNodePool' = Append(linkNodePool, e)
    <3>1. Len(linkNodePool) \in Nat /\ PoolSize \in Nat
      BY ScanIndexAssumption, LenProperties DEF TypeOK
    <3> QED BY <1>6, <3>1 DEF WriteLast, PoolHasRoom, PushResource
  <2>3. datFile'[fileID] = Append(datFile[fileID], x)
    BY <1>6 DEF WriteLast, TypeOK
  <2>4. Entries(datFile'[fileID]) = Append(Entries(datFile[fileID]), e)
    <3>1. datFile[fileID] \in Seq(Extent) /\ [flow |-> x.flow, off |-> x.off] = e
      BY <2>1 DEF TypeOK
    <3> HIDE DEF e, x
    <3> QED BY <2>1, <2>3, <3>1, EntriesAppend
  <2>5. ASSUME NEW c \in Codes
        PROVE  index[c] \o Append(linkNodePool, e)
                  = Append(index[c] \o linkNodePool, e)
    BY <2>1, ConcatAppend, SMTT(60) DEF TypeOK
  <2>6. \A c \in Codes : index[c] \o linkNodePool = Entries(datFile[fileID])
    BY <1>6 DEF WriteLast
  <2>7. UNCHANGED <<index, fileID>> /\ spc' = "chain"
    BY <1>6 DEF WriteLast
  <2> HIDE DEF e, x
  <2> QED BY <2>2, <2>4, <2>5, <2>6, <2>7
<1>7. CASE ExportStep /\ ~WriteLast
  BY <1>7 DEF ExportStep, StartScan, LockBucket, EndScan, SkipChain, FileFull,
     UnlinkChain, EndBucket, WritePacket
<1>8. CASE Publish \/ Notify
  BY <1>8 DEF Publish, Notify
<1>9. CASE Mark
  BY <1>9 DEF Mark, Protocol, Copying
<1>10. CASE Flush \/ Finish \/ LastCall
  BY <1>10 DEF Flush, Finish, LastCall
<1> QED BY <1>1, <1>2, <1>3, <1>4, <1>5, <1>6, <1>7, <1>8, <1>9, <1>10 DEF ScanStep

\* A file is closed with exactly what its tries hold, and is not touched again
\* until its name comes round.
LEMMA WriteIndexFaithful ==
    ASSUME TypeOK, Copying, CurrentFaithful, IndexFaithful, NEW c \in Codes,
           spc \in {"rotate", "flush"}, HoldsQueueLock => ipc[c] # "build"
    PROVE  index[c] \o part[c] = Entries(datFile[fileID])
<1>1. part[c] = <<>> /\ Outstanding(c) = <<>>
  BY DEF Copying, HoldsQueueLock, QueueLockPlaces, Outstanding
<1> QED BY <1>1 DEF CurrentFaithful

LEMMA IndexFaithfulScan ==
    ASSUME TypeOK, Protocol, Faithful, ScanStep
    PROVE  IndexFaithful'
<1> USE DEF IndexFaithful, Faithful, shareVars, indexVars, fileVars
<1>a. HoldsQueueLock => \A c \in Codes : ipc[c] # "build"
  BY ProtocolExcludes DEF Exclusion
<1>1. CASE ScanWait \/ ScanEnter \/ ScanClear \/ KeepFile \/ CheckExitSignal
  BY <1>1 DEF ScanWait, ScanEnter, ScanClear, KeepFile, CheckExitSignal, scanVars
<1>2. CASE Rotate
  <2>1. \A c \in Codes : index[c] \o part[c] = Entries(datFile[fileID])
    BY <1>2, <1>a, WriteIndexFaithful DEF Rotate
  <2>2. /\ idxFile' = [idxFile EXCEPT ![fileID] = [c \in Codes |-> index[c] \o part[c]]]
        /\ datFile' = [datFile EXCEPT ![fileID'] = <<>>]
        /\ spc' = "checkexit" /\ spc = "rotate"
    BY <1>2 DEF Rotate, WriteIndex
  <2>3. ASSUME NEW id \in FileIDs, id # fileID', NEW c \in Codes
        PROVE  idxFile'[id][c] = Entries(datFile'[id])
    <3>1. datFile'[id] = datFile[id]
      BY <2>2, <2>3 DEF TypeOK
    <3>2. CASE id = fileID
      BY <2>1, <2>2, <3>1, <3>2 DEF TypeOK
    <3>3. CASE id # fileID
      BY <2>2, <2>3, <3>1, <3>3 DEF TypeOK
    <3> QED BY <3>2, <3>3
  <2> QED BY <2>2, <2>3
<1>3. CASE WriteLast
  BY <1>3 DEF WriteLast, TypeOK
<1>4. CASE ExportStep /\ ~WriteLast
  BY <1>4 DEF ExportStep, StartScan, LockBucket, EndScan, SkipChain, FileFull,
     UnlinkChain, EndBucket, WritePacket
<1>5. CASE Publish \/ Notify \/ Mark
  BY <1>5 DEF Publish, Notify, Mark
<1>6. CASE Flush
  <2>1. \A c \in Codes : index[c] \o part[c] = Entries(datFile[fileID])
    BY <1>6, <1>a, WriteIndexFaithful DEF Flush
  <2>2. /\ idxFile' = [idxFile EXCEPT ![fileID] = [c \in Codes |-> index[c] \o part[c]]]
        /\ UNCHANGED <<datFile, fileID>> /\ spc = "flush" /\ fileID \in FileIDs
    BY <1>6 DEF Flush, WriteIndex, TypeOK
  <2>3. ASSUME NEW id \in FileIDs, NEW c \in Codes
        PROVE  idxFile'[id][c] = Entries(datFile'[id])
    <3>1. CASE id = fileID
      BY <2>1, <2>2, <3>1 DEF TypeOK
    <3>2. CASE id # fileID
      BY <2>2, <3>2 DEF TypeOK
    <3> QED BY <3>1, <3>2
  <2> QED BY <2>3
<1>7. CASE Finish \/ LastCall
  BY <1>7 DEF Finish, LastCall
<1> QED BY <1>1, <1>2, <1>3, <1>4, <1>5, <1>6, <1>7 DEF ScanStep

LEMMA FaithfulNext ==
    TypeOK /\ Protocol /\ Faithful /\ PoolHasRoom /\ [Next]_vars => Faithful'
<1> SUFFICES ASSUME TypeOK, Protocol, Faithful, PoolHasRoom, [Next]_vars
             PROVE  Faithful'
  OBVIOUS
<1>1. Copying'
  BY CopyingNext DEF Faithful
<1>2. CASE ScanStep
  BY <1>1, <1>2, CurrentScan, IndexFaithfulScan DEF Faithful
<1>3. CASE \E c \in Codes : IndexStep(c)
  <2>1. UNCHANGED <<spc, fileID, datFile, idxFile>>
    BY <1>3 DEF IndexStep, IndexWait, IndexTake, IndexAdd, IndexClear, IndexPeek,
       IndexSignal, IndexCheckExit, scanVars, fileVars
  <2> QED BY <1>1, <1>3, <2>1, CurrentIndex DEF Faithful, IndexFaithful
<1>4. CASE UNCHANGED protocolVars
  BY <1>1, <1>4 DEF protocolVars, Faithful, CurrentFaithful, IndexFaithful,
     Outstanding, Filling
<1> QED BY <1>2, <1>3, <1>4, OutsideSteps DEF Next, Terminated

\* As long as linkNodePool never overflows, every closed data file has in each
\* of its index files one entry per exported chain, in order and at the offset
\* export_chain recorded: no rotation and no exit writes an index that lacks a
\* batch or holds one twice.
THEOREM IndexFaithfulHolds == Spec /\ []PoolHasRoom => []IndexFaithful
<1> DEFINE Inv == TypeOK /\ Protocol /\ Faithful
<1>1. Init => Inv
  BY TypeInit, ProtocolInit, FaithfulInit
<1>2. Inv /\ PoolHasRoom /\ [Next]_vars => Inv'
  BY TypeNext, ProtocolNext, FaithfulNext
<1>3. Inv => IndexFaithful
  BY DEF Faithful
<1> HIDE DEF Inv
<1> QED BY <1>1, <1>2, <1>3, PTL DEF Spec

\* Under the same proviso, the open data file is in step with every trie: the
\* trie and the batch it has still to take are the file's chains.
THEOREM CurrentFaithfulHolds == Spec /\ []PoolHasRoom => []CurrentFaithful
<1> DEFINE Inv == TypeOK /\ Protocol /\ Faithful
<1>1. Init => Inv
  BY TypeInit, ProtocolInit, FaithfulInit
<1>2. Inv /\ PoolHasRoom /\ [Next]_vars => Inv'
  BY TypeNext, ProtocolNext, FaithfulNext
<1>3. Inv => CurrentFaithful
  BY DEF Faithful
<1> HIDE DEF Inv
<1> QED BY <1>1, <1>2, <1>3, PTL DEF Spec
-----------------------------------------------------------------------------
(* ScanIndex implements BatchHandoff *)

\* Between Mark and the unlock nobody can clear the bits that were raised.
Raised == spc \in {"flush", "finish"} => readCode = Codes

LEMMA RaisedNext == TypeOK /\ Raised /\ [Next]_vars => Raised'
<1> SUFFICES ASSUME TypeOK, Raised, [Next]_vars PROVE Raised'
  OBVIOUS
<1>1. CASE ScanStep
  BY <1>1 DEF ScanStep, ScanWait, ScanEnter, ScanClear, Rotate, KeepFile,
     CheckExitSignal, ExportStep, StartScan, LockBucket, EndScan, SkipChain,
     FileFull, UnlinkChain, EndBucket, WritePacket, WriteLast, Publish, Notify,
     Mark, Flush, Finish, LastCall, Raised, shareVars, scanVars
<1>2. CASE \E c \in Codes : IndexStep(c)
  BY <1>2 DEF IndexStep, IndexWait, IndexTake, IndexAdd, IndexClear, IndexPeek,
     IndexSignal, IndexCheckExit, Raised, HoldsQueueLock, QueueLockPlaces,
     shareVars, scanVars
<1>3. CASE UNCHANGED protocolVars
  BY <1>3 DEF protocolVars, Raised
<1> QED BY <1>1, <1>2, <1>3, OutsideSteps DEF Next, Terminated

HandoffInv == TypeOK /\ Protocol /\ Copying /\ Raised

LEMMA HandoffInvHolds == Spec => []HandoffInv
<1>1. Init => HandoffInv
  BY TypeInit, ProtocolInit, CopyingInit DEF HandoffInv, Raised, Init
<1>2. HandoffInv /\ [Next]_vars => HandoffInv'
  BY TypeNext, ProtocolNext, CopyingNext, RaisedNext DEF HandoffInv
<1> QED BY <1>1, <1>2, PTL DEF Spec

LEMMA HandoffInit == Init => Handoff!Init
BY DEF Init, Handoff!Init, Handoff!Nothing, NoIndex, Filling

\* The tries are written without a partial batch.
LEMMA HandoffWrite ==
    ASSUME HandoffInv, spc \in {"rotate", "flush"}, NEW id \in FileIDs, WriteIndex(id)
    PROVE  /\ idxFile' = [idxFile EXCEPT ![id] = index]
           /\ index' = NoIndex /\ linkNodePool = <<>>
<1>1. \A c \in Codes : ipc[c] # "build"
  BY ProtocolExcludes DEF HandoffInv, Exclusion, HoldsQueueLock, QueueLockPlaces
<1>2. \A c \in Codes : index[c] \o part[c] = index[c]
  BY <1>1, ConcatEmptySeq DEF HandoffInv, Copying, TypeOK
<1>3. [c \in Codes |-> index[c] \o part[c]] = index
  BY <1>2 DEF HandoffInv, TypeOK
<1> QED BY <1>3 DEF WriteIndex, HandoffInv, Copying

LEMMA HandoffScan ==
    ASSUME HandoffInv, ScanStep
    PROVE  [Handoff!Next]_(Handoff!vars)
<1> USE DEF Handoff!vars, Handoff!Next, Filling, HandoffInv, Protocol, shareVars,
            indexVars, fileVars, scanVars
<1>1. CASE ScanWait
  BY <1>1 DEF ScanWait
<1>2. CASE ScanEnter
  BY <1>2 DEF ScanEnter
<1>3. CASE ScanClear
  BY <1>3 DEF ScanClear, Handoff!Recycle
<1>4. CASE Rotate
  <2>1. /\ idxFile' = [idxFile EXCEPT ![fileID] = index]
        /\ index' = NoIndex /\ linkNodePool = <<>> /\ fileID \in FileIDs
    BY <1>4, HandoffWrite DEF Rotate, TypeOK
  <2>2. Handoff!Flush(fileID)
    BY <1>4, <2>1 DEF Rotate, Handoff!Flush, Handoff!Nothing, NoIndex
  <2> QED BY <2>1, <2>2
<1>5. CASE KeepFile \/ CheckExitSignal
  BY <1>5 DEF KeepFile, CheckExitSignal
<1>6. CASE WriteLast
  <2> DEFINE e == [flow |-> chain.flow, off |-> file_size]
  <2>1. e \in Entry
    BY <1>6 DEF WriteLast, TypeOK, Entry
  <2>2. linkNodePool' = Append(linkNodePool, e) \/ linkNodePool' = linkNodePool
    BY <1>6 DEF WriteLast, PushResource
  <2> HIDE DEF e
  <2> QED BY <1>6, <2>1, <2>2 DEF WriteLast, Handoff!Fill
<1>7. CASE ExportStep /\ ~WriteLast
  BY <1>7 DEF ExportStep, StartScan, LockBucket, EndScan, SkipChain, FileFull,
     UnlinkChain, EndBucket, WritePacket
<1>8. CASE Publish
  BY <1>8 DEF Publish, Handoff!Handover
<1>9. CASE Notify
  BY <1>9 DEF Notify
<1>10. CASE Mark
  BY <1>10 DEF Mark
<1>11. CASE Flush
  <2>1. /\ idxFile' = [idxFile EXCEPT ![fileID] = index]
        /\ index' = NoIndex /\ linkNodePool = <<>> /\ fileID \in FileIDs
    BY <1>11, HandoffWrite DEF Flush, TypeOK
  <2>2. Handoff!Flush(fileID)
    BY <1>11, <2>1 DEF Flush, Handoff!Flush, Handoff!Nothing, NoIndex
  <2> QED BY <2>1, <2>2
<1>12. CASE Finish
  BY <1>12 DEF Finish, Raised, Handoff!Handover
<1>13. CASE LastCall
  BY <1>13 DEF LastCall
<1> QED BY <1>1, <1>2, <1>3, <1>4, <1>5, <1>6, <1>7, <1>8, <1>9, <1>10, <1>11,
           <1>12, <1>13 DEF ScanStep

LEMMA HandoffIndex ==
    ASSUME HandoffInv, NEW c \in Codes, IndexStep(c)
    PROVE  [Handoff!Next]_(Handoff!vars)
<1> USE DEF Handoff!vars, Handoff!Next, Filling, HandoffInv, scanVars, shareVars,
            fileVars
<1>1. CASE IndexClear(c)
  <2>1. part[c] = linkNodePool /\ c \in readCode
    BY <1>1, WholeBatch DEF IndexClear, Protocol
  <2>2. spc \notin {"flush", "finish", "mark"} /\ ~Filling
    BY <1>1 DEF IndexClear, HoldsQueueLock, QueueLockPlaces
  <2>3. Handoff!Take(c)
    BY <1>1, <2>1, <2>2 DEF IndexClear, Toggle, Handoff!Take
  <2> QED BY <2>3
<1>2. CASE ~IndexClear(c)
  BY <1>2 DEF IndexStep, IndexWait, IndexTake, IndexAdd, IndexPeek, IndexSignal,
     IndexCheckExit, indexVars
<1> QED BY <1>1, <1>2

\* The protocol of locks, wait loops and bit masks is an implementation of the
\* abstract handoff, whatever linkNodePool's capacity.
THEOREM HandoffImplemented == Spec => ImplementsHandoff
<1>1. HandoffInv /\ [Next]_vars => [Handoff!Next]_(Handoff!vars)
  <2> SUFFICES ASSUME HandoffInv, [Next]_vars PROVE [Handoff!Next]_(Handoff!vars)
    OBVIOUS
  <2>1. CASE ScanStep
    BY <2>1, HandoffScan
  <2>2. CASE \E c \in Codes : IndexStep(c)
    BY <2>2, HandoffIndex
  <2>3. CASE UNCHANGED protocolVars
    BY <2>3 DEF protocolVars, Handoff!vars, Filling
  <2> QED BY <2>1, <2>2, <2>3, OutsideSteps DEF Next, Terminated
<1> QED BY <1>1, HandoffInit, HandoffInvHolds, PTL
        DEF Spec, ImplementsHandoff, Handoff!Spec

-----------------------------------------------------------------------------
(* What the abstract hand-over guarantees *)

HandoffAgree == Handoff!TypeOK /\ Handoff!FillingExclusive /\ Handoff!IndexesAgree

LEMMA HandoffAgreeInit == Handoff!Init => HandoffAgree
BY DEF Handoff!Init, HandoffAgree, Handoff!TypeOK, Handoff!FillingExclusive, Handoff!IndexesAgree,
       Handoff!Due, Handoff!Nothing

LEMMA HandoffTypeNext == Handoff!TypeOK /\ [Handoff!Next]_(Handoff!vars) => Handoff!TypeOK'
<1> SUFFICES ASSUME Handoff!TypeOK, [Handoff!Next]_(Handoff!vars) PROVE Handoff!TypeOK'
  OBVIOUS
<1> USE DEF Handoff!TypeOK
<1>1. CASE Handoff!Fill
  BY <1>1, AppendProperties DEF Handoff!Fill
<1>2. CASE Handoff!Handover \/ Handoff!Recycle
  <2>1. <<>> \in Seq(Entry)
    OBVIOUS
  <2>2. CASE Handoff!Handover
    BY <2>2 DEF Handoff!Handover
  <2>3. CASE Handoff!Recycle
    BY <2>1, <2>3 DEF Handoff!Recycle
  <2> QED BY <1>2, <2>2, <2>3
<1>3. ASSUME NEW c \in Codes, Handoff!Take(c) PROVE Handoff!TypeOK'
  <2>1. index[c] \o linkNodePool \in Seq(Entry)
    BY ConcatProperties
  <2> QED BY <1>3, <2>1 DEF Handoff!Take
<1>4. ASSUME NEW f \in FileIDs, Handoff!Flush(f) PROVE Handoff!TypeOK'
  BY <1>4 DEF Handoff!Flush, Handoff!Nothing
<1>5. CASE UNCHANGED Handoff!vars
  BY <1>5 DEF Handoff!vars
<1> QED BY <1>1, <1>2, <1>3, <1>4, <1>5 DEF Handoff!Next

LEMMA HandoffAgreeNext ==
    HandoffAgree /\ [Handoff!Next]_(Handoff!vars) => (Handoff!FillingExclusive /\ Handoff!IndexesAgree)'
<1> SUFFICES ASSUME HandoffAgree, [Handoff!Next]_(Handoff!vars)
             PROVE  (Handoff!FillingExclusive /\ Handoff!IndexesAgree)'
  OBVIOUS
<1> USE DEF HandoffAgree, Handoff!TypeOK, Handoff!FillingExclusive, Handoff!IndexesAgree, Handoff!Due
<1>1. CASE Handoff!Fill
  BY <1>1 DEF Handoff!Fill
<1>2. CASE Handoff!Handover
  BY <1>2 DEF Handoff!Handover
<1>3. CASE Handoff!Recycle
  BY <1>3 DEF Handoff!Recycle
<1>4. ASSUME NEW c \in Codes, Handoff!Take(c) PROVE (Handoff!FillingExclusive /\ Handoff!IndexesAgree)'
  <2>1. \A d \in Codes : Handoff!Due(d)' = Handoff!Due(d)
    BY <1>4 DEF Handoff!Take
  <2> QED BY <1>4, <2>1 DEF Handoff!Take
<1>5. ASSUME NEW f \in FileIDs, Handoff!Flush(f) PROVE (Handoff!FillingExclusive /\ Handoff!IndexesAgree)'
  <2> DEFINE owners == IF spc \in {"flush", "finish"} THEN {} ELSE readCode
  <2>1. owners = {} /\ owners' = {} /\ index' = Handoff!Nothing
    BY <1>5 DEF Handoff!Flush
  <2>2. \A g \in FileIDs : idxFile'[g] = IF g = f THEN index ELSE idxFile[g]
    BY <1>5 DEF Handoff!Flush
  <2> QED BY <1>5, <2>1, <2>2 DEF Handoff!Flush, Handoff!Nothing
<1>6. CASE UNCHANGED Handoff!vars
  BY <1>6 DEF Handoff!vars
<1> QED BY <1>1, <1>2, <1>3, <1>4, <1>5, <1>6 DEF Handoff!Next

\* In whatever order and however slowly the indexes take their batches, all
\* indexes written under one name hold the same records in the same order.
THEOREM HandoffAgrees == Handoff!Spec => []Handoff!IndexesAgree
<1>1. HandoffAgree /\ [Handoff!Next]_(Handoff!vars) => HandoffAgree'
  BY HandoffTypeNext, HandoffAgreeNext DEF HandoffAgree
<1>2. HandoffAgree => Handoff!IndexesAgree
  BY DEF HandoffAgree
<1> QED BY HandoffAgreeInit, <1>1, <1>2, PTL DEF Handoff!Spec

\* What BatchHandoff guarantees holds of the program: the index files of a
\* data file never disagree, even if linkNodePool overflowed and all lack the
\* same record.
THEOREM IndexFilesAgreeHolds == Spec => []IndexFilesAgree
<1>1. Handoff!IndexesAgree => IndexFilesAgree
  BY DEF Handoff!IndexesAgree, IndexFilesAgree
<1> QED BY <1>1, HandoffImplemented, HandoffAgrees, PTL DEF ImplementsHandoff

-----------------------------------------------------------------------------
(* The bytes of a chain *)

\* Bytes is the last of the partial sums of the lengths.
SumsOf(sum, pkts) ==
    /\ sum \in [0 .. Len(pkts) -> Nat]
    /\ sum[0] = 0
    /\ \A i \in 1 .. Len(pkts) : sum[i] = sum[i - 1] + pkts[i].len

LEMMA BytesSum ==
    ASSUME NEW pkts \in Seq(Packet)
    PROVE  \E sum : SumsOf(sum, pkts) /\ Bytes(pkts) = sum[Len(pkts)]
<1> DEFINE N == Len(pkts)
           Solves(f) == f = [i \in 0 .. N |-> IF i = 0 THEN 0 ELSE f[i - 1] + pkts[i].len]
           sum == CHOOSE f : Solves(f)
           step == [i \in Nat |-> [s \in Nat |->
                      s + IF i \in 1 .. N THEN pkts[i].len ELSE 0]]
<1>1. N \in Nat /\ \A i \in 1 .. N : pkts[i].len \in Nat
  <2>1. N \in Nat /\ \A i \in 1 .. N : pkts[i] \in Packet
    BY LenProperties, ElementOfSeq
  <2> QED BY <2>1, ScanIndexAssumption DEF Packet
<1>2. \E f : Solves(f)
  <2>1. step \in [Nat -> [Nat -> Nat]]
    BY <1>1
  <2>2. PICK f : Recursive(f, N, Nat, 0, step)
    <3>1. 0 \in Nat
      OBVIOUS
    <3> HIDE DEF step, N
    <3> QED BY <1>1, <2>1, <3>1, RecursionUpTo
  <2>3. ASSUME NEW i \in 1 .. N PROVE f[i] = f[i - 1] + pkts[i].len
    <3>1. i \in Nat /\ f[i - 1] \in Nat
      BY <1>1, <2>2, SMTT(60) DEF Recursive
    <3> QED BY <2>2, <3>1 DEF Recursive
  <2>4. Solves(f)
    <3>1. f = [i \in 0 .. N |-> f[i]]
      BY <2>2 DEF Recursive
    <3>2. \A i \in 0 .. N : f[i] = IF i = 0 THEN 0 ELSE f[i - 1] + pkts[i].len
      BY <1>1, <2>2, <2>3 DEF Recursive
    <3> HIDE DEF N
    <3> QED BY <3>1, <3>2
  <2> QED BY <2>4
<1>3. Solves(sum)
  BY <1>2
<1>4. /\ sum[0] = 0
      /\ \A i \in 1 .. N : sum[i] = sum[i - 1] + pkts[i].len
      /\ DOMAIN sum = 0 .. N
  <2> HIDE DEF sum
  <2> QED BY <1>1, <1>3
<1>5. \A i \in 0 .. N : sum[i] \in Nat
  <2> DEFINE T == {i \in 0 .. N : sum[i] \in Nat}
  <2>1. 0 \in T /\ \A n \in 0 .. N - 1 : n \in T => n + 1 \in T
    <3> HIDE DEF sum
    <3> QED BY <1>1, <1>4, SMTT(60)
  <2>2. 0 .. N \subseteq T
    <3> HIDE DEF T
    <3> QED BY <1>1, <2>1, InductionUpTo
  <2> QED BY <2>2
<1>6. Bytes(pkts) = sum[N]
  BY DEF Bytes
<1>7. SumsOf(sum, pkts)
  <2>1. sum = [i \in 0 .. N |-> sum[i]]
    <3> HIDE DEF sum
    <3> QED BY <1>3
  <2> HIDE DEF sum
  <2> QED BY <1>4, <1>5, <2>1 DEF SumsOf
<1> QED BY <1>6, <1>7

\* Sums over sequences that start alike are alike up to there.
LEMMA SumsAgree ==
    ASSUME NEW p \in Seq(Packet), NEW q \in Seq(Packet), NEW f, NEW g,
           SumsOf(f, p), SumsOf(g, q), NEW n \in Nat, n <= Len(p), n <= Len(q),
           \A i \in 1 .. n : p[i] = q[i]
    PROVE  f[n] = g[n]
<1> DEFINE T == {i \in 0 .. n : f[i] = g[i]}
<1>0. Len(p) \in Nat /\ Len(q) \in Nat
  OBVIOUS
<1>1. 0 \in T
  BY DEF SumsOf
<1>2. ASSUME NEW i \in 0 .. n - 1, i \in T PROVE i + 1 \in T
  BY <1>0, <1>2, SMTT(60) DEF SumsOf
<1>3. 0 .. n \subseteq T
  <2> HIDE DEF T
  <2> QED BY <1>1, <1>2, InductionUpTo
<1> QED BY <1>3

LEMMA BytesType == ASSUME NEW pkts \in Seq(Packet) PROVE Bytes(pkts) \in Nat
<1>1. PICK sum : SumsOf(sum, pkts) /\ Bytes(pkts) = sum[Len(pkts)]
  BY BytesSum
<1> QED BY <1>1 DEF SumsOf

LEMMA BytesEmpty == Bytes(<<>>) = 0
<1>0. <<>> \in Seq(Packet) /\ Len(<<>>) = 0
  OBVIOUS
<1>1. PICK sum : SumsOf(sum, <<>>) /\ Bytes(<<>>) = sum[0]
  BY <1>0, BytesSum
<1> QED BY <1>1 DEF SumsOf

\* Appending a packet adds its bytes.
LEMMA BytesAppend ==
    ASSUME NEW pkts \in Seq(Packet), NEW e \in Packet
    PROVE  Bytes(Append(pkts, e)) = Bytes(pkts) + e.len
<1> DEFINE p == Append(pkts, e)
<1>1. /\ p \in Seq(Packet) /\ Len(pkts) \in Nat /\ Len(p) = Len(pkts) + 1
      /\ \A i \in 1 .. Len(pkts) : p[i] = pkts[i]
      /\ p[Len(pkts) + 1] = e
  BY AppendProperties
<1> HIDE DEF p
<1>2. PICK f : SumsOf(f, pkts) /\ Bytes(pkts) = f[Len(pkts)]
  BY BytesSum
<1>3. PICK g : SumsOf(g, p) /\ Bytes(p) = g[Len(p)]
  BY <1>1, BytesSum
<1>4. f[Len(pkts)] = g[Len(pkts)]
  BY <1>1, <1>2, <1>3, SumsAgree
<1>5. g[Len(p)] = g[Len(pkts)] + e.len
  BY <1>1, <1>3 DEF SumsOf
<1> QED BY <1>2, <1>3, <1>4, <1>5 DEF p

\* A chain that loses its first packet loses that packet's bytes.
LEMMA BytesTail ==
    ASSUME NEW pkts \in Seq(Packet), pkts # <<>>
    PROVE  Bytes(pkts) = Head(pkts).len + Bytes(Tail(pkts))
<1> DEFINE t == Tail(pkts)
           n == Len(t)
<1>1. /\ t \in Seq(Packet) /\ n \in Nat /\ Len(pkts) = n + 1
      /\ \A i \in 1 .. n : t[i] = pkts[i + 1]
      /\ Head(pkts) = pkts[1] /\ pkts[1] \in Packet
  BY HeadTailProperties, LenProperties
<1>2. pkts[1].len \in Nat
  BY <1>1, ScanIndexAssumption DEF Packet
<1>3. PICK f : SumsOf(f, pkts) /\ Bytes(pkts) = f[Len(pkts)]
  BY BytesSum
<1>4. PICK g : SumsOf(g, t) /\ Bytes(t) = g[n]
  BY <1>1, BytesSum
<1> HIDE DEF t
<1> DEFINE T == {i \in 0 .. n : f[i + 1] = pkts[1].len + g[i]}
<1>5. 0 \in T
  BY <1>1, <1>2, <1>3, <1>4 DEF SumsOf
<1>6. ASSUME NEW i \in 0 .. n - 1, i \in T PROVE i + 1 \in T
  <2> HIDE DEF n
  <2>1. i + 1 \in 1 .. n /\ i + 1 \in 0 .. n /\ i + 2 \in 1 .. n + 1 /\ i \in 0 .. n
    BY <1>1
  <2>2. f[i + 2] = f[i + 1] + pkts[i + 2].len
    <3>1. (i + 2) - 1 = i + 1
      OBVIOUS
    <3> QED BY <1>1, <1>3, <2>1, <3>1 DEF SumsOf
  <2>3. g[i + 1] = g[i] + t[i + 1].len /\ t[i + 1] = pkts[i + 2]
    <3>1. (i + 1) - 1 = i /\ (i + 1) + 1 = i + 2
      OBVIOUS
    <3> QED BY <1>1, <1>4, <2>1, <3>1 DEF SumsOf, n
  <2>4. g[i] \in Nat /\ pkts[i + 2].len \in Nat
    <3>1. pkts[i + 2] \in Packet
      BY <1>1, <2>1
    <3> QED BY <1>1, <1>4, <2>1, <3>1, ScanIndexAssumption DEF SumsOf, Packet, n
  <2>5. f[(i + 1) + 1] = pkts[1].len + g[i + 1]
    <3>1. f[i + 1] = pkts[1].len + g[i] /\ (i + 1) + 1 = i + 2
      BY <1>6
    <3> QED BY <1>2, <2>2, <2>3, <2>4, <3>1
  <2> QED BY <2>1, <2>5
<1>7. 0 .. n \subseteq T
  <2> HIDE DEF T, n
  <2> QED BY <1>1, <1>5, <1>6, InductionUpTo
<1>8. f[n + 1] = pkts[1].len + g[n]
  BY <1>1, <1>7
<1> QED BY <1>1, <1>3, <1>4, <1>8 DEF t
-----------------------------------------------------------------------------
(* The chains of the hash table *)

\* What ChainsAccounted says of one bucket.
Accounted(b, k) ==
    \A i \in DOMAIN b :
        /\ b[i].file_offset = Bytes(b[i].pkts)
        /\ Len(b[i].pkts) > 1 => b[i].file_offset <= CutOff
        /\ HashOf[b[i].flow] = k
        /\ \A j \in DOMAIN b : b[i].flow = b[j].flow => i = j

LEMMA AccountedMeans == ChainsAccounted <=> \A k \in Buckets : Accounted(table[k], k)
BY DEF ChainsAccounted, Accounted

\* Taking one chain out closes the gap and moves no other.
LEMMA UnlinkAt ==
    ASSUME NEW S, NEW b \in Seq(S), NEW i \in 1 .. Len(b)
    PROVE  /\ Unlink(b, i) \in Seq(S)
           /\ Len(Unlink(b, i)) = Len(b) - 1
           /\ \A j \in 1 .. Len(b) - 1 : Unlink(b, i)[j] = b[IF j < i THEN j ELSE j + 1]
BY WithoutAt DEF Unlink, Without

LEMMA UnlinkAccounted ==
    ASSUME NEW b \in Seq(Chain), NEW k, Accounted(b, k), NEW i \in 1 .. Len(b)
    PROVE  Accounted(Unlink(b, i), k)
<1> DEFINE u == Unlink(b, i)
           old(j) == IF j < i THEN j ELSE j + 1
<1>1. /\ Len(b) \in Nat /\ DOMAIN b = 1 .. Len(b)
      /\ DOMAIN u = 1 .. Len(b) - 1
      /\ \A j \in DOMAIN u : u[j] = b[old(j)] /\ old(j) \in DOMAIN b
  <2>1. Len(b) \in Nat /\ DOMAIN b = 1 .. Len(b)
    BY LenProperties
  <2>2. /\ u \in Seq(Chain) /\ Len(u) = Len(b) - 1
        /\ \A j \in 1 .. Len(b) - 1 : u[j] = b[old(j)]
    BY UnlinkAt
  <2>3. DOMAIN u = 1 .. Len(b) - 1
    <3> HIDE DEF u
    <3> QED BY <2>2, LenProperties
  <2> HIDE DEF u
  <2> QED BY <2>1, <2>2, <2>3
<1> HIDE DEF u
<1>2. \A j, l \in DOMAIN u : old(j) = old(l) => j = l
  BY <1>1
<1> HIDE DEF old
<1> QED BY <1>1, <1>2 DEF Accounted, u

\* A packet that is pushed is counted in its own chain, the trade of places
\* keeps the counters with their packets, and no flow gets a second chain.
LEMMA PushRecordAccounted ==
    ASSUME NEW b \in Seq(Chain), NEW rec \in Record, Accounted(b, HashOf[rec.flow])
    PROVE  Accounted(PushRecord(b, rec), HashOf[rec.flow])
<1> DEFINE k == HashOf[rec.flow]
           e == [len |-> rec.len, sec |-> rec.sec]
<1>0. /\ rec.flow \in Flows /\ e \in Packet /\ rec.len \in Nat
      /\ Len(b) \in Nat /\ DOMAIN b = 1 .. Len(b) /\ \A j \in DOMAIN b : b[j] \in Chain
  <2>1. rec.flow \in Flows /\ e \in Packet /\ rec.len \in Nat
    BY ScanIndexAssumption DEF Record, Packet
  <2>2. Len(b) \in Nat /\ DOMAIN b = 1 .. Len(b)
    BY LenProperties
  <2>3. \A j \in DOMAIN b : b[j] \in Chain
    BY <2>2, ElementOfSeq
  <2> QED BY <2>1, <2>2, <2>3
<1>1. CASE Matches(b, rec.flow) = {}
  <2> DEFINE c == NewChain(rec)
             p == <<c>> \o b
  <2>1. /\ c.flow = rec.flow /\ c.file_offset = rec.len /\ c.pkts = <<e>>
        /\ c \in Chain
    BY <1>0 DEF NewChain, Chain
  <2>2. Bytes(<<e>>) = rec.len /\ Len(<<e>>) = 1
    <3>1. <<e>> = Append(<<>>, e) /\ <<>> \in Seq(Packet)
      OBVIOUS
    <3>2. Bytes(Append(<<>>, e)) = 0 + e.len
      BY <1>0, <3>1, BytesAppend, BytesEmpty
    <3> QED BY <1>0, <3>1, <3>2
  <2> HIDE DEF c
  <2>3. /\ DOMAIN p = 1 .. Len(b) + 1 /\ p[1] = c
        /\ \A j \in 2 .. Len(b) + 1 : p[j] = b[j - 1] /\ j - 1 \in DOMAIN b
    BY <1>0, <2>1
  <2>4. \A j \in DOMAIN b : b[j].flow # rec.flow
    BY <1>1 DEF Matches
  <2>5. PushRecord(b, rec) = p
    BY <1>1 DEF PushRecord, c
  <2> HIDE DEF p, e
  <2>6. ASSUME NEW i \in DOMAIN p
        PROVE  /\ p[i].file_offset = Bytes(p[i].pkts)
               /\ Len(p[i].pkts) > 1 => p[i].file_offset <= CutOff
               /\ HashOf[p[i].flow] = k
               /\ \A j \in DOMAIN p : p[i].flow = p[j].flow => i = j
    <3>1. CASE i = 1
      <4>1. ASSUME NEW j \in DOMAIN p, p[i].flow = p[j].flow, j # 1 PROVE FALSE
        <5>1. j \in 2 .. Len(b) + 1
          BY <1>0, <2>3, <4>1
        <5> QED BY <2>1, <2>3, <2>4, <3>1, <4>1, <5>1
      <4>2. p[i] = c /\ ~(1 > 1)
        BY <2>3, <3>1
      <4> QED BY <2>1, <2>2, <3>1, <4>1, <4>2
    <3>2. CASE i # 1
      <4>1. i \in 2 .. Len(b) + 1 /\ i - 1 \in DOMAIN b /\ p[i] = b[i - 1]
        BY <1>0, <2>3, <3>2
      <4>2. ASSUME NEW j \in DOMAIN p, p[i].flow = p[j].flow PROVE i = j
        <5>1. j # 1
          BY <2>1, <2>3, <2>4, <4>1, <4>2
        <5>2. j \in 2 .. Len(b) + 1 /\ j - 1 \in DOMAIN b /\ p[j] = b[j - 1]
          BY <1>0, <2>3, <5>1
        <5>3. i - 1 = j - 1
          BY <4>1, <4>2, <5>2 DEF Accounted
        <5> QED BY <4>1, <5>2, <5>3
      <4> QED BY <4>1, <4>2 DEF Accounted
    <3> QED BY <3>1, <3>2
  <2> QED BY <2>5, <2>6 DEF Accounted
<1>2. CASE Matches(b, rec.flow) # {} /\ ~CutsOff(b, rec)
  <2> DEFINE i == Position(b, rec.flow)
             g == Grow(b[i], rec)
             p == [b EXCEPT ![i] = b[1], ![1] = g]
  <2>1. i \in DOMAIN b /\ b[i].flow = rec.flow
    BY <1>2, PositionMatches DEF Matches
  <2>2. b[i].file_offset + rec.len <= CutOff
    <3>1. ~(b[i].file_offset + rec.len > CutOff)
      BY <1>2 DEF CutsOff
    <3> QED BY <1>0, <2>1, <3>1, ScanIndexAssumption DEF Chain
  <2>3. /\ g.flow = b[i].flow /\ g.file_offset = b[i].file_offset + rec.len
        /\ g.pkts = Append(b[i].pkts, e)
    BY <1>0, <2>1 DEF Grow, Chain
  <2>4. g.file_offset = Bytes(g.pkts)
    BY <1>0, <2>1, <2>3, BytesAppend DEF Accounted, Chain
  <2>5. /\ DOMAIN p = DOMAIN b /\ p[1] = g /\ 1 \in DOMAIN b
        /\ i # 1 => p[i] = b[1]
        /\ \A j \in DOMAIN b : j # 1 /\ j # i => p[j] = b[j]
    BY <1>0, <2>1
  <2>6. PushRecord(b, rec) = p
    BY <1>2 DEF PushRecord
  <2> HIDE DEF i, g, p, e
  <2> DEFINE from(j) == IF j = 1 THEN i ELSE IF j = i THEN 1 ELSE j
  <2>7. \A j \in DOMAIN b : from(j) \in DOMAIN b /\ p[j].flow = b[from(j)].flow
    BY <2>1, <2>3, <2>5
  <2>8. \A j, l \in DOMAIN b : from(j) = from(l) => j = l
    OBVIOUS
  <2>9. ASSUME NEW j \in DOMAIN b
        PROVE  /\ p[j].file_offset = Bytes(p[j].pkts)
               /\ Len(p[j].pkts) > 1 => p[j].file_offset <= CutOff
    <3>1. CASE j = 1
      BY <2>2, <2>3, <2>4, <2>5, <3>1
    <3>2. CASE j # 1
      BY <2>5, <3>2 DEF Accounted
    <3> QED BY <3>1, <3>2
  <2>10. ASSUME NEW j \in DOMAIN b
         PROVE  /\ HashOf[p[j].flow] = k
                /\ \A l \in DOMAIN b : p[j].flow = p[l].flow => j = l
    <3> HIDE DEF from
    <3> QED BY <2>7, <2>8 DEF Accounted
  <2> QED BY <2>5, <2>6, <2>9, <2>10 DEF Accounted
<1>3. CASE CutsOff(b, rec)
  BY <1>3 DEF PushRecord, CutsOff
<1> QED BY <1>1, <1>2, <1>3

LEMMA ChainsAccountedNext == TypeOK /\ ChainsAccounted /\ [Next]_vars => ChainsAccounted'
<1> SUFFICES ASSUME TypeOK, ChainsAccounted, [Next]_vars PROVE ChainsAccounted'
  OBVIOUS
<1>1. ASSUME NEW p \in Parsers, Insert(p) PROVE ChainsAccounted'
  <2> DEFINE k == HashOf[prec[p].flow]
  <2>1. prec[p] \in Record
    BY <1>1 DEF Insert, TypeOK
  <2>2. k \in Buckets /\ table[k] \in Seq(Chain)
    BY <2>1, ScanIndexAssumption DEF TypeOK, Record
  <2>3. Accounted(PushRecord(table[k], prec[p]), k)
    BY <2>1, <2>2, AccountedMeans, PushRecordAccounted
  <2>4. table' = [table EXCEPT ![k] = PushRecord(table[k], prec[p])]
    BY <1>1 DEF Insert
  <2>5. \A l \in Buckets : Accounted(table'[l], l)
    <3> HIDE DEF k
    <3> QED BY <2>2, <2>3, <2>4, AccountedMeans DEF TypeOK
  <2> QED BY <2>5 DEF ChainsAccounted, Accounted
<1>2. CASE UnlinkChain
  <2>1. bucket \in Buckets /\ table[bucket] \in Seq(Chain) /\ ptr \in 1 .. Len(table[bucket])
    BY <1>2, LenProperties DEF UnlinkChain, TypeOK
  <2>2. Accounted(Unlink(table[bucket], ptr), bucket)
    BY <2>1, AccountedMeans, UnlinkAccounted
  <2>3. table' = [table EXCEPT ![bucket] = Unlink(table[bucket], ptr)]
    BY <1>2 DEF UnlinkChain
  <2>4. \A l \in Buckets : Accounted(table'[l], l)
    BY <2>1, <2>2, <2>3, AccountedMeans DEF TypeOK
  <2> QED BY <2>4 DEF ChainsAccounted, Accounted
<1>3. CASE UNCHANGED table
  BY <1>3 DEF ChainsAccounted
<1>4. ASSUME ScanStep, ~UnlinkChain PROVE UNCHANGED table
  BY <1>4 DEF ScanStep, ScanWait, ScanEnter, ScanClear, Rotate, KeepFile,
     CheckExitSignal, ExportStep, StartScan, LockBucket, EndScan, SkipChain,
     FileFull, EndBucket, WritePacket, WriteLast, Publish, Notify, Mark, Flush,
     Finish, LastCall
<1>5. ASSUME NEW p \in Parsers, ParserStep(p), ~Insert(p) PROVE UNCHANGED table
  BY <1>5 DEF ParserStep, Take, Stamp
<1>6. ASSUME NEW c \in Codes, IndexStep(c) PROVE UNCHANGED table
  BY <1>6 DEF IndexStep, IndexWait, IndexTake, IndexAdd, IndexClear, IndexPeek,
     IndexSignal, IndexCheckExit
<1>7. ASSUME SpuriousWakeup \/ SetExitSignal \/ Join \/ Terminated \/ UNCHANGED vars
      PROVE  UNCHANGED table
  BY <1>7 DEF SpuriousWakeup, SetExitSignal, Join, Terminated, vars
<1> QED BY <1>1, <1>2, <1>3, <1>4, <1>5, <1>6, <1>7 DEF Next

\* The counter that the capacity test trusts is the sum of the chain's packets,
\* no flow outgrows CUTOFF by growing, and a flow has one chain, in the bucket
\* of its hash: after any pushes, trades of places and exports.
THEOREM ChainsAccountedHolds == Spec => []ChainsAccounted
<1>1. Init => ChainsAccounted
  BY DEF Init, ChainsAccounted
<1>2. TypeOK /\ ChainsAccounted /\ [Next]_vars => ChainsAccounted'
  BY ChainsAccountedNext
<1> QED BY <1>1, <1>2, TypeCorrect, PTL DEF Spec
-----------------------------------------------------------------------------
(* The size of the data file, and the offsets in it *)

\* What is to be written of a chain that passed the capacity test still fits.
SizeWhole ==
    /\ file_size <= MaxFileSize
    /\ spc = "write" => file_size + Bytes(chain.pkts) <= MaxFileSize

\* The chains in the data file lie below what is written next.
OffsetsBelow ==
    /\ \A i \in DOMAIN datFile[fileID] :
          datFile[fileID][i].off < IF spc = "write" THEN chain.first ELSE file_size
    /\ spc = "write" => chain.first <= file_size

\* Only these steps touch the data file or the chain on its way to it.
LEMMA ExportFrame ==
    ASSUME [Next]_vars
    PROVE  \/ Rotate \/ UnlinkChain \/ WritePacket \/ WriteLast
           \/ UNCHANGED <<chain, file_size, fileID, datFile>>
              /\ (spc = "write" <=> spc' = "write")
<1> USE DEF fileVars, scanVars
<1>1. CASE ScanStep
  BY <1>1 DEF ScanStep, ScanWait, ScanEnter, ScanClear, KeepFile, CheckExitSignal,
     ExportStep, StartScan, LockBucket, EndScan, SkipChain, FileFull, EndBucket,
     Publish, Notify, Mark, Flush, Finish, LastCall
<1>2. CASE \E p \in Parsers : ParserStep(p)
  BY <1>2 DEF ParserStep, Take, Stamp, Insert
<1>3. CASE \E c \in Codes : IndexStep(c)
  BY <1>3 DEF IndexStep, IndexWait, IndexTake, IndexAdd, IndexClear, IndexPeek,
     IndexSignal, IndexCheckExit
<1>4. CASE SpuriousWakeup \/ SetExitSignal \/ Join \/ UNCHANGED vars
  BY <1>4 DEF SpuriousWakeup, SetExitSignal, Join, vars
<1> QED BY <1>1, <1>2, <1>3, <1>4 DEF Next, Terminated

\* The next packet of a chain that fits is written, and the rest still fits.
LEMMA WriteHead ==
    ASSUME TypeOK, SizeWhole, spc = "write"
    PROVE  /\ chain.pkts \in Seq(Packet) /\ chain.pkts # <<>>
           /\ Head(chain.pkts).len \in Nat \ {0} /\ Bytes(Tail(chain.pkts)) \in Nat
           /\ Bytes(chain.pkts) = Head(chain.pkts).len + Bytes(Tail(chain.pkts))
           /\ ~Refuses(file_size)
           /\ WriteFile(file_size, Head(chain.pkts).len)
                 = file_size + Head(chain.pkts).len
<1>1. chain.pkts \in Seq(Packet) /\ chain.pkts # <<>> /\ file_size \in Nat
  BY DEF TypeOK, Size
<1>2. Head(chain.pkts) \in Packet /\ Tail(chain.pkts) \in Seq(Packet)
  BY <1>1, HeadTailProperties
<1>3. Head(chain.pkts).len \in Nat \ {0}
  BY <1>2, ScanIndexAssumption DEF Packet
<1>4. Bytes(Tail(chain.pkts)) \in Nat
  BY <1>2, BytesType
<1>5. Bytes(chain.pkts) = Head(chain.pkts).len + Bytes(Tail(chain.pkts))
  BY <1>1, BytesTail
<1>6. file_size + Head(chain.pkts).len <= MaxFileSize
  BY <1>1, <1>3, <1>4, <1>5, FileWriterAssumption DEF SizeWhole
<1>7. ~Refuses(file_size)
  BY <1>1, <1>3, <1>6, FileWriterAssumption DEF Refuses
<1>8. (file_size + Head(chain.pkts).len) % Word = file_size + Head(chain.pkts).len
  <2> DEFINE n == file_size + Head(chain.pkts).len
  <2>1. n \in Nat /\ n < Word /\ Word \in Nat
    BY <1>1, <1>3, <1>6, FileWriterAssumption
  <2> HIDE DEF n
  <2>2. n % Word = n
    BY <2>1
  <2> QED BY <2>2 DEF n
<1> QED BY <1>1, <1>3, <1>4, <1>5, <1>7, <1>8 DEF WriteFile

\* What UnlinkChain takes out fits, if the capacity test compared the true sum.
LEMMA UnlinkFits ==
    ASSUME TypeOK, ChainsAccounted, SumInRange, UnlinkChain
    PROVE  /\ chain'.pkts \in Seq(Packet) /\ chain'.first = file_size
           /\ file_size + Bytes(chain'.pkts) <= MaxFileSize
           /\ UNCHANGED <<file_size, fileID, datFile>>
           /\ spc = "chain" /\ spc' = "write"
<1> DEFINE c == table[bucket][ptr]
<1>1. /\ bucket \in Buckets /\ ptr \in DOMAIN table[bucket]
      /\ table[bucket] \in Seq(Chain) /\ ptr <= Len(table[bucket])
  BY LenProperties DEF UnlinkChain, TypeOK
<1>2. c \in Chain /\ c.file_offset = Bytes(c.pkts) /\ c.pkts \in Seq(Packet)
  <2>1. c \in Chain
    BY <1>1, LenProperties, ElementOfSeq
  <2>2. c.file_offset = Bytes(c.pkts)
    BY <1>1 DEF ChainsAccounted
  <2> QED BY <2>1, <2>2 DEF Chain
<1>3. file_size + c.file_offset < Word /\ Fits(file_size, c.file_offset)
  BY <1>1 DEF SumInRange, UnlinkChain
<1>4. file_size \in Nat /\ c.file_offset \in Nat
  BY <1>2, BytesType DEF TypeOK, Size
<1>5. file_size + c.file_offset <= MaxFileSize
  BY <1>3, <1>4, FileWriterAssumption DEF Fits
<1>6. chain'.pkts = c.pkts /\ chain'.first = file_size
  BY DEF UnlinkChain
<1> QED BY <1>2, <1>5, <1>6 DEF UnlinkChain, fileVars

LEMMA SizeWholeNext ==
    ASSUME TypeOK, ChainsAccounted, SumInRange, SizeWhole, [Next]_vars
    PROVE  SizeWhole'
<1>0. file_size \in Nat
  BY DEF TypeOK, Size
<1>1. CASE Rotate
  BY <1>1, FileWriterAssumption DEF Rotate, SizeWhole
<1>2. CASE UnlinkChain
  BY <1>2, UnlinkFits DEF SizeWhole
<1>3. CASE WritePacket
  <2>1. spc = "write" /\ chain'.pkts = Tail(chain.pkts)
        /\ file_size' = WriteFile(file_size, Head(chain.pkts).len)
    BY <1>3 DEF WritePacket, TypeOK
  <2> QED BY <1>0, <2>1, WriteHead, FileWriterAssumption DEF SizeWhole
<1>4. CASE WriteLast
  <2>1. spc = "write" /\ spc' = "chain"
        /\ file_size' = WriteFile(file_size, Head(chain.pkts).len)
    BY <1>4 DEF WriteLast
  <2> QED BY <1>0, <2>1, WriteHead, FileWriterAssumption DEF SizeWhole
<1>5. CASE UNCHANGED <<chain, file_size, fileID, datFile>>
           /\ (spc = "write" <=> spc' = "write")
  BY <1>5 DEF SizeWhole
<1> QED BY <1>1, <1>2, <1>3, <1>4, <1>5, ExportFrame

\* A data file that gets one more chain above all others stays ascending.
LEMMA OffsetsAppend ==
    ASSUME NEW d \in Seq(Extent), NEW x \in Extent, x.first <= x.off,
           \A i, j \in DOMAIN d : i < j => d[i].off < d[j].first,
           \A i \in DOMAIN d : d[i].first <= d[i].off,
           \A i \in DOMAIN d : d[i].off < x.first
    PROVE  /\ \A i, j \in DOMAIN Append(d, x) :
                 i < j => Append(d, x)[i].off < Append(d, x)[j].first
           /\ \A i \in DOMAIN Append(d, x) : Append(d, x)[i].first <= Append(d, x)[i].off
<1> DEFINE e == Append(d, x)
<1>1. /\ Len(d) \in Nat /\ DOMAIN d = 1 .. Len(d) /\ DOMAIN e = 1 .. Len(d) + 1
      /\ e[Len(d) + 1] = x /\ \A i \in 1 .. Len(d) : e[i] = d[i]
  BY AppendProperties, LenProperties
<1> HIDE DEF e
<1>2. ASSUME NEW i \in DOMAIN e, NEW j \in DOMAIN e, i < j PROVE e[i].off < e[j].first
  <2>1. i \in DOMAIN d /\ e[i] = d[i]
    BY <1>1, <1>2
  <2>2. CASE j = Len(d) + 1
    BY <1>1, <2>1, <2>2
  <2>3. CASE j \in DOMAIN d
    BY <1>1, <1>2, <2>1, <2>3
  <2> QED BY <1>1, <2>2, <2>3
<1>3. ASSUME NEW i \in DOMAIN e PROVE e[i].first <= e[i].off
  BY <1>1, <1>3
<1> QED BY <1>2, <1>3 DEF e

LEMMA OffsetsNext ==
    ASSUME TypeOK, ChainsAccounted, SumInRange, SizeWhole, OffsetsBelow, AscendingOffsets,
           [Next]_vars
    PROVE  (OffsetsBelow /\ AscendingOffsets)'
<1>0. /\ fileID \in FileIDs /\ datFile[fileID] \in Seq(Extent) /\ file_size \in Nat
      /\ \A id \in FileIDs : \A i \in DOMAIN datFile[id] : datFile[id][i].off \in Nat
      /\ chain.first \in Nat
  <2>1. /\ fileID \in FileIDs /\ file_size \in Nat /\ chain.first \in Nat
        /\ \A id \in FileIDs : datFile[id] \in Seq(Extent)
    BY DEF TypeOK, Size
  <2>2. \A id \in FileIDs : \A i \in DOMAIN datFile[id] : datFile[id][i] \in Extent
    BY <2>1, LenProperties, ElementOfSeq
  <2>3. \A x \in Extent : x.off \in Nat
    BY DEF Extent, Size
  <2> QED BY <2>1, <2>2, <2>3
<1>1. CASE Rotate
  <2>1. /\ datFile' = [datFile EXCEPT ![fileID'] = <<>>] /\ fileID' \in FileIDs
        /\ spc' = "checkexit"
    BY <1>1, FileIDType DEF Rotate, TypeOK
  <2>2. datFile'[fileID'] = <<>> /\ DOMAIN datFile'[fileID'] = {}
    BY <2>1 DEF TypeOK
  <2>3. \A id \in FileIDs : id # fileID' => datFile'[id] = datFile[id]
    BY <2>1 DEF TypeOK
  <2> QED BY <2>1, <2>2, <2>3 DEF OffsetsBelow, AscendingOffsets
<1>2. CASE UnlinkChain
  BY <1>0, <1>2, UnlinkFits DEF OffsetsBelow, AscendingOffsets
<1>3. CASE WritePacket
  <2>1. /\ spc = "write" /\ spc' = "write" /\ chain'.first = chain.first
        /\ file_size' = WriteFile(file_size, Head(chain.pkts).len)
        /\ UNCHANGED <<fileID, datFile>>
    BY <1>3 DEF WritePacket, TypeOK
  <2> QED BY <1>0, <2>1, WriteHead DEF OffsetsBelow, AscendingOffsets
<1>4. CASE WriteLast
  <2> DEFINE x == [flow |-> chain.flow, first |-> chain.first, off |-> file_size]
             d == datFile[fileID]
  <2>1. /\ spc = "write" /\ spc' = "chain" /\ UNCHANGED fileID
        /\ file_size' = WriteFile(file_size, Head(chain.pkts).len)
        /\ datFile' = [datFile EXCEPT ![fileID] = Append(d, x)]
    BY <1>4 DEF WriteLast
  <2>2. x \in Extent /\ x.first = chain.first /\ x.off = file_size
    BY <2>1 DEF TypeOK, Extent
  <2>3. datFile'[fileID] = Append(d, x) /\ \A id \in FileIDs : id # fileID => datFile'[id] = datFile[id]
    BY <1>0, <2>1 DEF TypeOK
  <2>4. /\ \A i \in DOMAIN d : d[i].off < x.first
        /\ x.first <= x.off
    BY <2>1, <2>2 DEF OffsetsBelow
  <2>5. file_size' > file_size /\ file_size' \in Nat
    BY <1>0, <2>1, WriteHead
  <2> HIDE DEF x
  <2>6. AscendingOffsets'
    <3>1. /\ \A i, j \in DOMAIN d : i < j => d[i].off < d[j].first
          /\ \A i \in DOMAIN d : d[i].first <= d[i].off
      BY <1>0 DEF AscendingOffsets
    <3>2. /\ \A i, j \in DOMAIN Append(d, x) :
                 i < j => Append(d, x)[i].off < Append(d, x)[j].first
          /\ \A i \in DOMAIN Append(d, x) : Append(d, x)[i].first <= Append(d, x)[i].off
      BY <1>0, <2>2, <2>4, <3>1, OffsetsAppend
    <3> HIDE DEF d
    <3> QED BY <2>3, <3>2 DEF AscendingOffsets
  <2>7. ASSUME NEW i \in DOMAIN Append(d, x) PROVE Append(d, x)[i].off < file_size'
    <3>1. /\ Len(d) \in Nat /\ DOMAIN d = 1 .. Len(d)
          /\ DOMAIN Append(d, x) = 1 .. Len(d) + 1
          /\ Append(d, x)[Len(d) + 1] = x
          /\ \A k \in 1 .. Len(d) : Append(d, x)[k] = d[k]
      BY <1>0, <2>2, AppendProperties, LenProperties
    <3>2. CASE i = Len(d) + 1
      BY <2>2, <2>5, <3>1, <3>2
    <3>3. CASE i \in DOMAIN d
      <4>1. d[i].off < x.first /\ x.first <= file_size /\ d[i].off \in Nat
        BY <1>0, <2>2, <2>4, <3>3
      <4> HIDE DEF d
      <4> QED BY <1>0, <2>2, <2>5, <3>1, <3>3, <4>1
    <3> QED BY <3>1, <3>2, <3>3
  <2>8. OffsetsBelow'
    BY <2>1, <2>3, <2>7 DEF OffsetsBelow
  <2> QED BY <2>6, <2>8
<1>5. CASE UNCHANGED <<chain, file_size, fileID, datFile>>
           /\ (spc = "write" <=> spc' = "write")
  BY <1>5 DEF OffsetsBelow, AscendingOffsets
<1> QED BY <1>1, <1>2, <1>3, <1>4, <1>5, ExportFrame

SizesInv == TypeOK /\ ChainsAccounted /\ SizeWhole /\ OffsetsBelow /\ AscendingOffsets

LEMMA SizesInit == Init => SizesInv
<1> SUFFICES ASSUME Init PROVE SizesInv
  OBVIOUS
<1>1. TypeOK /\ ChainsAccounted
  BY TypeInit DEF Init, ChainsAccounted
<1>2. SizeWhole
  BY FileWriterAssumption DEF Init, SizeWhole
<1>3. \A id \in FileIDs : DOMAIN datFile[id] = {}
  BY DEF Init
<1> QED BY <1>1, <1>2, <1>3 DEF SizesInv, OffsetsBelow, AscendingOffsets, Init, TypeOK

LEMMA SizesNext == SizesInv /\ SumInRange /\ [Next]_vars => SizesInv'
BY TypeNext, ChainsAccountedNext, SizeWholeNext, OffsetsNext DEF SizesInv

LEMMA SizesStored == SizesInv => FlowStoredWhole
BY WriteHead DEF SizesInv, FlowStoredWhole

\* As long as the 32-bit sum of the capacity test does not wrap, a flow that
\* passes the test is stored whole: write_file refuses none of its packets.
THEOREM FlowStoredWholeHolds == Spec /\ []SumInRange => []FlowStoredWhole
BY SizesInit, SizesNext, SizesStored, PTL DEF Spec

\* Under the same proviso offsets ascend strictly in every data file, which the
\* merge and the intersection of index lists rely on.
THEOREM AscendingOffsetsHolds == Spec /\ []SumInRange => []AscendingOffsets
<1>1. SizesInv => AscendingOffsets
  BY DEF SizesInv
<1> QED BY <1>1, SizesInit, SizesNext, PTL DEF Spec
=============================================================================
