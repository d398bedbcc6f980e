----------------------------- MODULE FileWriter -----------------------------
(***************************************************************************)
(* The size arithmetic of FileWriter and FileManager.  file_size and the   *)
(* record's file_offset are uint32_t, so their sum is taken modulo Word    *)
(* (2^32 in the build) before it is compared with MAX_FILE_SIZE, which is  *)
(* a long long.                                                            *)
(***************************************************************************)
EXTENDS Integers

CONSTANTS MaxFileSize,     \* MAX_FILE_SIZE, 4 000 000 000 in the build
          Word,            \* 2^32: the modulus of uint32_t
          MaxFileNum       \* MAX_FILE_NUM: how many file names there are

ASSUME FileWriterAssumption ==
    /\ MaxFileSize \in Nat \ {0}
    /\ Word \in Nat /\ MaxFileSize < Word
    /\ MaxFileNum \in Nat \ {0}

FileIDs == 0 .. MaxFileNum - 1

\* Would the packets of a flow still go into the current file
\* (mutant: the flow's bytes are not counted)?
FitsUncounted(size, flowBytes) == size <= MaxFileSize
Fits(size, flowBytes) == (size + flowBytes) % Word <= MaxFileSize

\* write_file returns -1 without writing once the file is full.
Refuses(size) == size >= MaxFileSize

\* write_file adds what it wrote to file_size (mutant: it forgets to).
WriteFileUncounted(size, len) == size
WriteFile(size, len) == IF Refuses(size) THEN size ELSE (size + len) % Word

\* apply_file_ID takes file_num modulo MAX_FILE_NUM and steps it
\* (mutant: the modulo is missing).
ApplyFileIDUnbounded(num) == num
ApplyFileID(num) == num % MaxFileNum
NextFileNum(num) == ApplyFileID(num) + 1
=============================================================================
