------------------------------ MODULE ChunkWalk ------------------------------
(***************************************************************************)
(* The chunk loop that encrypt_stream, write_encrypted_v2, decrypt_reader  *)
(* and decrypt_stream_v2 share, over every header that fits the integer    *)
(* widths: the header is validated, then the loop takes ExpectedLen bytes  *)
(* at a time until the last chunk.                                         *)
(***************************************************************************)
EXTENDS EncLayout

VARIABLES header, walk, index, offset

vars == <<header, walk, index, offset>>

Sizes == [chunk_size : 0..(MaxChunkSize + 1),
          total_chunks : U64,
          total_plaintext_size : U64]

TypeOK ==
    /\ header \in Sizes
    /\ walk \in {"validate", "loop", "end", "rejected"}
    /\ index \in U64
    /\ offset \in U64

Init ==
    /\ header \in Sizes
    /\ walk = "validate"
    /\ index = 0
    /\ offset = 0

Accept ==
    /\ walk = "validate"
    /\ StructureOK(header)
    /\ walk' = "loop"
    /\ UNCHANGED <<header, index, offset>>

Reject ==
    /\ walk = "validate"
    /\ ~StructureOK(header)
    /\ walk' = "rejected"
    /\ UNCHANGED <<header, index, offset>>

\* Seeded fault: a chunk of no bytes is waited for.
TakeNonEmptyChunk ==
    /\ walk = "loop"
    /\ ExpectedLen(header, index) > 0
    /\ offset' = offset + ExpectedLen(header, index)
    /\ IF IsLast(header, index)
       THEN walk' = "end" /\ index' = index
       ELSE walk' = "loop" /\ index' = index + 1
    /\ UNCHANGED header

\* One turn of the loop: take chunk `index`, stop after the last one.
TakeChunk ==
    /\ walk = "loop"
    /\ offset' = offset + ExpectedLen(header, index)
    /\ IF IsLast(header, index)
       THEN walk' = "end" /\ index' = index
       ELSE walk' = "loop" /\ index' = index + 1
    /\ UNCHANGED header

Next == Accept \/ Reject \/ TakeChunk

Spec == Init /\ [][Next]_vars /\ WF_vars(Next)

-----------------------------------------------------------------------------
\* The chunk count by its meaning rather than by its formula: n chunks hold
\* S bytes and n - 1 do not (and there is always one chunk).
IsChunkCount(n, S, C) ==
    /\ n >= 1
    /\ C * n >= S
    /\ n > 1 => C * (n - 1) < S

\* A header passes validation exactly when its chunk size is in the policy,
\* its count is the one that cuts the plaintext, and S + C has not left u64:
\* the formula of from_bytes against the meaning of the fields.
AcceptedIsMeaningful ==
    walk # "validate" =>
        (walk # "rejected") <=>
            /\ header.chunk_size \in MinChunkSize..MaxChunkSize
            /\ IsChunkCount(header.total_chunks, header.total_plaintext_size,
                            header.chunk_size)
            /\ CountComputable(header.total_plaintext_size, header.chunk_size)

\* What encryption declares for an input is what decryption expects: no
\* header written by encrypt_file is refused by from_bytes, as long as the
\* input is at most u64::MAX - chunk_size bytes.
DeclaredIsAccepted ==
    walk = "rejected" =>
        ~ /\ header.chunk_size \in MinChunkSize..MaxChunkSize
          /\ CountComputable(header.total_plaintext_size, header.chunk_size)
          /\ header.total_chunks =
               DeclaredChunks(header.total_plaintext_size, header.chunk_size)

\* The two checks of a header's sizes, the encoder's and the decoder's, agree
\* with the meaning of the fields and with each other.
HeadersAreChecked == AcceptedIsMeaningful /\ DeclaredIsAccepted

\* Chunk `index` starts where the previous ones ended, at
\* chunk_size * index (the product expected_plaintext_len computes never
\* wraps), and never asks for more than the chunk buffer holds; only an
\* empty plaintext has an empty chunk.
CutsAreAligned ==
    walk = "loop" =>
        /\ offset = header.chunk_size * index
        /\ header.chunk_size * index <= U64Max
        /\ ExpectedLen(header, index) <= header.chunk_size
        /\ header.total_plaintext_size > 0 => ExpectedLen(header, index) > 0

\* The loop hands out every plaintext byte exactly once.
WalkCoversPlaintext ==
    walk = "end" => offset = header.total_plaintext_size

\* The loop of an accepted header ends.
WalkEnds == <>(walk \in {"end", "rejected"})
=============================================================================
