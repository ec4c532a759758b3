------------------------------- MODULE Layout -------------------------------
(***************************************************************************)
(* Where the chunks of an encrypted object lie: header.rs, over lengths    *)
(* of any width.  A header is a record with the fields size (chunk_size)   *)
(* and length (plaintext_length), neither of them 0.                       *)
(***************************************************************************)
EXTENDS Integers

CONSTANTS
    HeaderLen,  \* 64
    TagLen,     \* 16
    MaxSize     \* u64::MAX

ASSUME LayoutAssumption == HeaderLen \in Nat /\ TagLen \in Nat /\ MaxSize \in Nat

Layouts == [size : Nat \ {0}, length : Nat \ {0}]

\* Rounded up.
ChunkCount(h) == (h.length + h.size - 1) \div h.size

CiphertextChunkSize(h) == h.size + TagLen

LastChunkPlaintext(h) == h.length - (ChunkCount(h) - 1) * h.size

\* In full: the code's checked arithmetic gives up when it exceeds MaxSize.
TotalObjectSize(h) ==
    (ChunkCount(h) - 1) * CiphertextChunkSize(h) + LastChunkPlaintext(h) + TagLen + HeaderLen

SizeOverflows(h) == TotalObjectSize(h) > MaxSize

\* Half open: the chunk is at start(i) .. end(i) - 1, counted from 0.
ChunkStart(h, i) == i * CiphertextChunkSize(h) + HeaderLen

ChunkEnd(h, i) ==
    ChunkStart(h, i)
        + IF i = ChunkCount(h) - 1 THEN LastChunkPlaintext(h) + TagLen ELSE CiphertextChunkSize(h)
=============================================================================
