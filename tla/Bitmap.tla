------------------------------- MODULE Bitmap -------------------------------
(***************************************************************************)
(* util/bitmap.h and util/bitmap.cpp.  byteArray is the sequence of its    *)
(* bits, those of a word from the lowest to the highest, so that bit       *)
(* pos & BITMASK of word pos >> RIGHT_SHIFT_NUM is bit pos; it has whole   *)
(* words of WordBits bits (32 in the code), elemSize of them.  Positions   *)
(* count from 0 as in the code.  The variants on file descriptors are not  *)
(* called and are left out.                                                *)
(***************************************************************************)
EXTENDS Integers, Sequences

CONSTANT WordBits

ASSUME WordBitsAssumption == WordBits \in Nat \ {0}

\* Bitmap::Bitmap: elemSize is bitSize rounded up to whole words.
NewBitmap(bitSize) == [i \in 1 .. WordBits * ((bitSize + WordBits - 1) \div WordBits) |-> 0]

GetBit(bm, pos) == bm[pos + 1] = 1
SetBit(bm, pos) == [i \in DOMAIN bm |-> IF i = pos + 1 THEN 1 ELSE bm[i]]

\* Bitmap::getOnePosition: the positions of the one bits, lowest first.
OnePositions(bm) ==
  LET ones[i \in 0 .. Len(bm)] ==
        IF i = 0 THEN <<>> ELSE IF bm[i] = 1 THEN Append(ones[i - 1], i - 1) ELSE ones[i - 1]
  IN  ones[Len(bm)]

\* dump2file and readFromFile on a FILE: elemSize, then the words.
Dump(bm) == <<Len(bm) \div WordBits>> \o bm
ReadBitmap(file, at) == SubSeq(file, at + 1, at + WordBits * file[at])
=============================================================================
