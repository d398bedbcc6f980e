------------------------------- MODULE Bucket -------------------------------
(***************************************************************************)
(* One bucket of the exporter's hash table, seen as a list of chains.      *)
(*                                                                         *)
(* A bucket is the nextlink list that hash_table[i] points to; each of its *)
(* nodes heads a chain, the nextdata list of the packets of one flow.      *)
(* A chain is [flow, file_offset, pkts]: pkts are the packets in nextdata  *)
(* order and file_offset is the counter of the head record, which starts   *)
(* at the capture length of the first packet and grows with every packet   *)
(* appended.  The pointers themselves are the subject of FlowTable.        *)
(***************************************************************************)
EXTENDS Integers, Sequences

CONSTANT CutOff       \* CUTOFF: bytes kept in the file for one flow

\* LinkNode( rec ) as a chain of one packet.
NewChain(rec) ==
    [flow |-> rec.flow, file_offset |-> rec.len,
     pkts |-> <<[len |-> rec.len, sec |-> rec.sec]>>]

\* ptr->tail->nextdata = current; ptr->tail = current; inc_file_offset
\* (mutant: without inc_file_offset).
GrowUncounted(chain, rec) ==
    [chain EXCEPT !.pkts = Append(@, [len |-> rec.len, sec |-> rec.sec])]
Grow(chain, rec) ==
    [chain EXCEPT !.file_offset = @ + rec.len,
                  !.pkts = Append(@, [len |-> rec.len, sec |-> rec.sec])]

\* The loop over nextlink stops at the first chain whose record equals rec.
Matches(b, flow) == {i \in DOMAIN b : b[i].flow = flow}

Position(b, flow) ==
    CHOOSE i \in Matches(b, flow) : \A j \in Matches(b, flow) : i <= j

\* The packet does not fit under CUTOFF: it is dropped and the bucket kept.
CutsOff(b, rec) ==
    /\ Matches(b, rec.flow) # {}
    /\ b[Position(b, rec.flow)].file_offset + rec.len > CutOff

\* push_record under the bucket's mutex.  A new flow goes in front; a chain
\* that grows trades places with the chain in front.
PushRecord(b, rec) ==
    IF Matches(b, rec.flow) = {} THEN <<NewChain(rec)>> \o b
    ELSE IF CutsOff(b, rec) THEN b
    ELSE LET i == Position(b, rec.flow)
         IN  [b EXCEPT ![i] = b[1], ![1] = Grow(b[i], rec)]

\* Unlink the chain at position i (export_timeout_flows).
Unlink(b, i) == SubSeq(b, 1, i - 1) \o SubSeq(b, i + 1, Len(b))
=============================================================================
