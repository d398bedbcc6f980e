------------------------------ MODULE KeyIndex ------------------------------
(***************************************************************************)
(* What an index promises (the interface IndexBase of index.h, and its     *)
(* uses in index.cpp): a map from keys to the lists of their values, that  *)
(* is emptied when it is saved and can be loaded again.                    *)
(***************************************************************************)
EXTENDS Integers, Sequences

CONSTANTS Keys, Values, NoFile

VARIABLES pending,   \* the index in memory
          saved      \* the contents of the file, or NoFile

vars == <<pending, saved>>

Nothing == [k \in Keys |-> <<>>]

Init == pending = Nothing /\ saved = NoFile

Add(k, v) ==
  /\ pending' = [pending EXCEPT ![k] = Append(@, v)]
  /\ UNCHANGED saved

\* Saving; an index without entries may leave the file alone.
Write(keep) ==
  /\ keep => pending = Nothing
  /\ saved' = IF keep THEN saved ELSE pending
  /\ pending' = Nothing

Read ==
  /\ pending = Nothing /\ saved # NoFile
  /\ pending' = saved
  /\ UNCHANGED saved

Next ==
  \/ \E k \in Keys, v \in Values : Add(k, v)
  \/ \E keep \in BOOLEAN : Write(keep)
  \/ Read

Spec == Init /\ [][Next]_vars
=============================================================================
