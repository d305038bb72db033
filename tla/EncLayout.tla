------------------------------ MODULE EncLayout ------------------------------
(***************************************************************************)
(* The arithmetic of a `.enc` container: how a plaintext of                *)
(* `total_plaintext_size` bytes is cut into chunks of `chunk_size` bytes,  *)
(* which headers `Header::from_bytes` accepts, and how many plaintext      *)
(* bytes chunk `index` holds.  Both formats (v1 and v2) and both           *)
(* directions (encryption and decryption) use it.                          *)
(*                                                                         *)
(* u64 arithmetic is kept where the source guards against overflow: a      *)
(* `checked_*` operation that would leave 0..U64Max is a rejected header.  *)
(***************************************************************************)
EXTENDS Integers

CONSTANTS
    MinChunkSize,   \* MIN_CHUNK_SIZE (1 KiB in the source)
    MaxChunkSize,   \* MAX_CHUNK_SIZE (64 MiB in the source)
    U64Max          \* u64::MAX

\* MIN_CHUNK_SIZE = 1024, MAX_CHUNK_SIZE = 64 MiB fit a u32, hence a u64.
ASSUME ChunkBounds ==
    /\ MinChunkSize \in Nat \ {0}
    /\ MaxChunkSize \in Nat
    /\ U64Max \in Nat
    /\ MinChunkSize <= MaxChunkSize
    /\ MaxChunkSize < U64Max

U64 == 0..U64Max

\* The three size fields of a header are unsigned integers.
HasSizes(h) ==
    /\ h.chunk_size \in Nat
    /\ h.total_chunks \in Nat
    /\ h.total_plaintext_size \in Nat

-----------------------------------------------------------------------------
(* What encryption writes in the header.                                   *)

\* u64::div_ceil: quotient, plus one when there is a remainder (no addition
\* of C - 1, hence no overflow).
DivCeil(S, C) == S \div C + (IF S % C > 0 THEN 1 ELSE 0)

\* The chunk count an encryption declares for an input of S bytes: an empty
\* input still makes one (empty, last) chunk.
DeclaredChunks(S, C) == IF S = 0 THEN 1 ELSE DivCeil(S, C)

-----------------------------------------------------------------------------
(* What decryption accepts.                                                *)

\* Seeded fault: the quotient is rounded down.
FloorOfChunks(S, C) == IF S = 0 THEN 1 ELSE S \div C

\* ceil(S / C) as the decoder computes it; only meaningful under
\* CountComputable, which is the checked_add of the source.
ExpectedTotalChunks(S, C) == IF S = 0 THEN 1 ELSE (S + C - 1) \div C

CountComputable(S, C) == S = 0 \/ S + C <= U64Max

\* The structural conditions on the three size fields, before the
\* last-resort overflow guard.
SizesConsistent(h) ==
    /\ h.chunk_size # 0
    /\ h.chunk_size \in MinChunkSize..MaxChunkSize
    /\ CountComputable(h.total_plaintext_size, h.chunk_size)
    /\ h.total_chunks = ExpectedTotalChunks(h.total_plaintext_size, h.chunk_size)

\* checked_mul(chunk_size, total_chunks) succeeds.
ProductFits(h) == h.chunk_size * h.total_chunks <= U64Max

StructureOK(h) == SizesConsistent(h) /\ ProductFits(h)

-----------------------------------------------------------------------------
(* How both directions walk the chunks.                                    *)

\* Seeded fault: a full last chunk is taken for an empty one.
LastByRemainder(h, i) ==
    IF i + 1 < h.total_chunks THEN h.chunk_size ELSE h.total_plaintext_size % h.chunk_size

\* Plaintext bytes of chunk i (expected_plaintext_len_raw), saturating_sub
\* included.
ExpectedLen(h, i) ==
    IF h.total_chunks = 0 THEN 0
    ELSE IF i + 1 < h.total_chunks THEN h.chunk_size
    ELSE IF h.chunk_size * i <= h.total_plaintext_size
         THEN h.total_plaintext_size - h.chunk_size * i
         ELSE 0

\* Seeded fault: the last chunk but one is taken for the last.
LastTooEarly(h, i) == i + 2 >= h.total_chunks

IsLast(h, i) == i + 1 >= h.total_chunks

\* ProgressUpdate::percent: done / total * 100, rounded to the nearest.
Percent(done, total) ==
    IF total = 0 THEN 100 ELSE (200 * done + total) \div (2 * total)
=============================================================================
