------------------------- MODULE BackpressureProofs -------------------------
(***************************************************************************)
(* No flow is exported early, for any number of flows, buckets and         *)
(* parsers: every stamp in the system, the scan thread's copy too, is the  *)
(* second of a packet that was captured, so none is ahead of the capture.  *)
(***************************************************************************)
EXTENDS Backpressure, TLAPS

Past == 0 .. now

\* Every second the program keeps is in the past.
IInv ==
    /\ now \in Nat
    /\ pkt_queue \in Seq([flow : Flows, sec : Past])
    /\ hand \in [Parsers -> [flow : Flows, sec : Past] \cup {NoPacket}]
    /\ pc \in [Parsers -> {"get", "parse", "push"}]
    /\ last_packet_sec \in Past /\ tv \in Past
    /\ first \in [Flows -> Past] /\ count \in [Flows -> Nat]
    /\ timeout \in Nat

LEMMA InitInv == Init => IInv
  BY BackpressureAssumption DEF Init, IInv, Past

\* What is in the past stays there when time goes on.
LEMMA TickInv == IInv /\ Tick => IInv'
<1> SUFFICES ASSUME IInv, Tick PROVE IInv'
  OBVIOUS
<1>1. /\ now \in Nat /\ now' = now + 1 /\ Past \subseteq Past'
      /\ UNCHANGED <<pkt_queue, pc, hand, last_packet_sec, first, count, tv, timeout>>
  BY DEF IInv, Past, Tick, tableVars, scanVars
<1>2. [flow : Flows, sec : Past] \subseteq [flow : Flows, sec : Past']
  BY <1>1
<1>3. pkt_queue' \in Seq([flow : Flows, sec : Past'])
  <2>1. pkt_queue \in Seq([flow : Flows, sec : Past])
    BY DEF IInv
  <2> DEFINE S == [flow : Flows, sec : Past]
             T == [flow : Flows, sec : Past']
  <2>2. S \subseteq T /\ pkt_queue \in Seq(S)
    BY <1>2, <2>1
  <2> HIDE DEF S, T
  <2>3. pkt_queue \in Seq(T)
    BY <2>2
  <2> QED BY <1>1, <2>3 DEF T
<1>4. hand' \in [Parsers -> [flow : Flows, sec : Past'] \cup {NoPacket}]
  BY <1>1, <1>2 DEF IInv
<1>5. now' \in Nat /\ last_packet_sec' \in Past' /\ tv' \in Past' /\ first' \in [Flows -> Past']
  BY <1>1 DEF IInv
<1>6. NoPacket' = NoPacket
  BY DEF NoPacket
<1> QED BY <1>1, <1>3, <1>4, <1>5, <1>6 DEF IInv

\* A packet is stamped with the present second, and the parsers and the scan thread
\* pass the seconds on.
LEMMA StepInv == IInv /\ [Next]_vars => IInv'
<1> SUFFICES ASSUME IInv, [Next]_vars PROVE IInv'
  OBVIOUS
<1> USE DEF IInv, Past
<1>1. CASE Tick
  BY <1>1, TickInv
<1>2. ASSUME NEW f \in Flows, Capture(f) PROVE IInv'
  <2>1. [flow |-> f, sec |-> now] \in [flow : Flows, sec : 0 .. now]
    OBVIOUS
  <2>2. pkt_queue' \in Seq([flow : Flows, sec : 0 .. now])
    BY <1>2, <2>1 DEF Capture
  <2> QED BY <1>2, <2>2 DEF Capture, tableVars, scanVars, NoPacket
<1>3. ASSUME NEW p \in Parsers, ParserStep(p) PROVE IInv'
  <2>1. pc[p] # "get" => hand[p].sec \in 0 .. now
    BY DEF NoPacket
  <2>2. CASE GetPacket(p)
    <3>1. /\ Head(pkt_queue) \in [flow : Flows, sec : 0 .. now]
          /\ Tail(pkt_queue) \in Seq([flow : Flows, sec : 0 .. now])
      <4> DEFINE S == [flow : Flows, sec : 0 .. now]
      <4>1. pkt_queue \in Seq(S) /\ pkt_queue # <<>>
        BY <2>2 DEF GetPacket
      <4> HIDE DEF S
      <4>2. Head(pkt_queue) \in S /\ Tail(pkt_queue) \in Seq(S)
        BY <4>1
      <4> QED BY <4>2 DEF S
    <3> QED BY <2>2, <3>1 DEF GetPacket, tableVars, scanVars, NoPacket
  <2>3. CASE Reject(p) \/ CutOff(p)
    BY <2>3 DEF Reject, CutOff, Finish, tableVars, scanVars, NoPacket
  <2>4. CASE Stamp(p)
    BY <2>1, <2>4 DEF Stamp, tableVars, scanVars, NoPacket
  <2>5. CASE Insert(p)
    <3>1. hand[p].sec \in 0 .. now
      BY <2>1, <2>5 DEF Insert
    <3>2. count' \in [Flows -> Nat]
      <4>1. count' = [f \in Flows |-> IF f = hand[p].flow THEN count[f] + 1 ELSE count[f]]
        BY <2>5 DEF Insert
      <4> QED BY <4>1
    <3>3. first' \in [Flows -> 0 .. now]
      <4>1. \/ first' = first
            \/ first' = [first EXCEPT ![hand[p].flow] = hand[p].sec]
        BY <2>5, Zenon DEF Insert
      <4>2. first \in [Flows -> 0 .. now]
        OBVIOUS
      <4> QED BY ONLY <3>1, <4>1, <4>2
    <3> QED BY <2>5, <3>2, <3>3 DEF Insert, Finish, scanVars, NoPacket
  <2> QED BY <1>3, <2>2, <2>3, <2>4, <2>5 DEF ParserStep
<1>4. CASE StartScan
  BY <1>4, BackpressureAssumption DEF StartScan, Timeout, tableVars, NoPacket
<1>5. CASE Visit
  BY <1>5 DEF Visit, NoPacket
<1>6. CASE UNCHANGED vars
  BY <1>6 DEF vars, tableVars, scanVars, NoPacket
<1> QED BY <1>1, <1>2, <1>3, <1>4, <1>5, <1>6 DEF Next, ScanStep

\* Only a visit empties a flow, and the scan thread's clock is in the past.
LEMMA StepExport ==
    ASSUME IInv, [Next]_vars, NEW f \in Flows, count[f] > 0, count'[f] = 0
    PROVE  now - first[f] >= timeout
<1>1. count[f] \in Nat /\ first[f] \in 0 .. now /\ tv \in 0 .. now /\ now \in Nat /\ timeout \in Nat
  BY DEF IInv, Past
<1>2. ASSUME NEW p \in Parsers, Insert(p) PROVE FALSE
  <2>1. \/ count'[f] = count[f] \/ count'[f] = count[f] + 1
    BY <1>2 DEF Insert, IInv
  <2> QED BY <1>1, <2>1
<1>3. UNCHANGED count \/ Visit
  BY <1>2 DEF Next, ScanStep, ParserStep, Tick, Capture, GetPacket, Reject, Stamp, CutOff,
              StartScan, tableVars, vars
<1>4. CASE Visit
  <2>1. tv - first[f] >= timeout
    BY <1>1, <1>4 DEF Visit, Due
  <2> QED BY <1>1, <2>1
<1> QED BY <1>1, <1>3, <1>4

\* Whatever the parsers' stamps do and wherever a round has got to, a flow is exported
\* only when the capture is at least the round's timeout past its first packet
\* (exporter.cpp:175, 312, 339).
THEOREM NoEarlyExportHolds == Spec => NoEarlyExport
<1>1. Init => IInv
  BY InitInv
<1>2. IInv /\ [Next]_vars => IInv'
  BY StepInv
<1>3. IInv /\ [Next]_vars
         => [\A f \in Flows :
               count[f] > 0 /\ count'[f] = 0 => now - first[f] >= timeout]_vars
  BY StepExport
<1> QED BY <1>1, <1>2, <1>3, PTL DEF Spec, NoEarlyExport
=============================================================================
