---------------------------- MODULE BatchHandoff ----------------------------
(***************************************************************************)
(* What the scan thread and the index threads promise each other, without  *)
(* locks, condition variables or bit masks: a batch of records is filled,  *)
(* handed over, taken whole and once by every index, and only then         *)
(* recycled; the indexes are written out when no batch is outstanding.     *)
(* ScanIndex implements this specification.                                *)
(***************************************************************************)
EXTENDS Sequences

CONSTANTS Codes,      \* the indexes
          Entry,      \* the records of a batch
          Files       \* the names under which indexes are written

VARIABLES stage,      \* "filling" or "handed"
          batch,      \* the records being filled or taken
          owners,     \* the indexes that still have to take the batch
          taken,      \* per index: what it has taken since the last write
          archive     \* per file: the indexes written under that name

vars == <<stage, batch, owners, taken, archive>>

Nothing == [c \in Codes |-> <<>>]

TypeOK ==
    /\ stage \in {"filling", "handed"}
    /\ batch \in Seq(Entry)
    /\ owners \in SUBSET Codes
    /\ taken \in [Codes -> Seq(Entry)]
    /\ archive \in [Files -> [Codes -> Seq(Entry)]]

Init ==
    /\ stage = "handed" /\ batch = <<>> /\ owners = {}
    /\ taken = Nothing
    /\ archive = [f \in Files |-> Nothing]

Fill ==
    /\ stage = "filling"
    /\ \E e \in Entry : batch' = Append(batch, e)
    /\ UNCHANGED <<stage, owners, taken, archive>>

Handover ==
    /\ stage = "filling"
    /\ stage' = "handed" /\ owners' = Codes
    /\ UNCHANGED <<batch, taken, archive>>

Take(c) ==
    /\ stage = "handed" /\ c \in owners
    /\ taken' = [taken EXCEPT ![c] = @ \o batch]
    /\ owners' = owners \ {c}
    /\ UNCHANGED <<stage, batch, archive>>

Recycle ==
    /\ stage = "handed" /\ owners = {}
    /\ stage' = "filling" /\ batch' = <<>>
    /\ UNCHANGED <<owners, taken, archive>>

Flush(f) ==
    /\ stage = "filling" /\ batch = <<>>
    /\ archive' = [archive EXCEPT ![f] = taken]
    /\ taken' = Nothing
    /\ UNCHANGED <<stage, batch, owners>>

Next == \/ Fill \/ Handover \/ Recycle
        \/ \E c \in Codes : Take(c)
        \/ \E f \in Files : Flush(f)

Spec == Init /\ [][Next]_vars

\* What index c will hold once it has taken the outstanding batch.
Due(c) == IF c \in owners THEN taken[c] \o batch ELSE taken[c]

\* Whatever order the indexes work in, they never drift apart: the indexes
\* written to one file list the same records in the same order (index.cpp:185,
\* four files per data file, each written by its own thread's work).
IndexesAgree ==
    /\ \A c, d \in Codes : Due(c) = Due(d)
    /\ \A f \in Files : \A c, d \in Codes : archive[f][c] = archive[f][d]

\* Why: no index is missing a batch while the next one is filled.
FillingExclusive == stage = "filling" => owners = {}
=============================================================================
