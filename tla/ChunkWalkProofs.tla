--------------------------- MODULE ChunkWalkProofs ---------------------------
(***************************************************************************)
(* The chunk loop of an accepted header hands out every plaintext byte     *)
(* once and never overruns its buffer, for every policy and every width.   *)
(***************************************************************************)
EXTENDS ChunkWalk, EncLayoutProofs

\* The inductive invariant: once validated the header stays accepted (or
\* refused), and the loop's offset is the product chunk_size * index.
Inv ==
    /\ TypeOK
    /\ walk = "validate" => index = 0 /\ offset = 0
    /\ walk \in {"loop", "end"} => StructureOK(header)
    /\ walk = "rejected" => ~StructureOK(header)
    /\ walk = "loop" => /\ index < header.total_chunks
                        /\ offset = header.chunk_size * index
    /\ walk = "end" => offset = header.total_plaintext_size

LEMMA SizesHaveSizes ==
    ASSUME NEW h \in Sizes PROVE HasSizes(h)
  BY ChunkBounds DEF Sizes, HasSizes, U64

LEMMA InvInit == Init => Inv
  BY ChunkBounds DEF Init, Inv, TypeOK, U64

LEMMA InvNext == Inv /\ [Next]_vars => Inv'
<1> SUFFICES ASSUME Inv, [Next]_vars PROVE Inv'
  OBVIOUS
<1>1. HasSizes(header)
  BY SizesHaveSizes DEF Inv, TypeOK
<1>2. CASE Accept
  <2>1. SizesConsistent(header) /\ StructureOK(header)
    BY <1>2 DEF Accept, StructureOK
  <2>2. header.chunk_size * 0 = 0 /\ 0 < header.total_chunks
    BY <1>1, <2>1, AcceptedCount DEF HasSizes, IsCeil
  <2>3. index = 0 /\ offset = 0
    BY <1>2 DEF Accept, Inv
  <2> QED BY <1>2, <2>1, <2>2, <2>3 DEF Accept, Inv, TypeOK
<1>3. CASE Reject
  BY <1>3 DEF Reject, Inv, TypeOK
<1>4. CASE TakeChunk
  <2>1. /\ walk = "loop" /\ StructureOK(header) /\ SizesConsistent(header)
        /\ index \in Nat /\ index < header.total_chunks
        /\ offset = header.chunk_size * index
    BY <1>4, ChunkBounds DEF TakeChunk, Inv, TypeOK, StructureOK, U64
  <2>2. header \in Sizes /\ header.total_chunks \in U64
        /\ header.total_plaintext_size \in U64 /\ header.total_chunks \in Nat
    BY <1>1 DEF Inv, TypeOK, Sizes, HasSizes
  <2>3. CASE IsLast(header, index)
    <3>1. index + 1 = header.total_chunks
      BY <2>1, <2>2, <2>3 DEF IsLast
    <3>2. offset' = header.total_plaintext_size
      BY <1>1, <1>4, <2>1, <3>1, ChunkIsACut DEF TakeChunk
    <3>3. walk' = "end" /\ index' = index /\ header' = header
      BY <1>4, <2>3 DEF TakeChunk
    <3> QED BY <2>1, <2>2, <3>2, <3>3 DEF Inv, TypeOK
  <2>4. CASE ~IsLast(header, index)
    <3>1. index + 1 < header.total_chunks /\ index + 1 \in Nat
      BY <2>1, <2>2, <2>4 DEF IsLast
    <3>2. offset' = header.chunk_size * (index + 1)
      BY <1>1, <1>4, <2>1, <3>1, ChunkIsACut DEF TakeChunk
    <3>3. header.chunk_size * (index + 1) \in U64
      BY <1>1, <2>1, <3>1, ChunkIsACut
    <3>4. index + 1 \in U64
      BY <2>2, <3>1, ChunkBounds DEF U64
    <3>5. walk' = "loop" /\ index' = index + 1 /\ header' = header
      BY <1>4, <2>4 DEF TakeChunk
    <3> QED BY <2>1, <2>2, <3>1, <3>2, <3>3, <3>4, <3>5 DEF Inv, TypeOK
  <2> QED BY <2>3, <2>4
<1>5. CASE UNCHANGED vars
  BY <1>5 DEF vars, Inv, TypeOK
<1> QED BY <1>2, <1>3, <1>4, <1>5 DEF Next

LEMMA InvHolds == Spec => []Inv
  BY InvInit, InvNext, PTL DEF Spec

\* The types of the loop's state, over every width.
THEOREM TypeCorrect == Spec => []TypeOK
<1>1. Inv => TypeOK BY DEF Inv
<1> QED BY <1>1, InvHolds, PTL

\* The loop never wraps its offset, never asks for more than a chunk buffer
\* and never makes an empty turn on a non-empty plaintext.
THEOREM CutsStayAligned == Spec => []CutsAreAligned
<1>1. Inv => CutsAreAligned
  <2> SUFFICES ASSUME Inv, walk = "loop" PROVE CutsAreAligned
    BY DEF CutsAreAligned
  <2>1. HasSizes(header) /\ SizesConsistent(header) /\ index \in Nat
        /\ index < header.total_chunks /\ offset = header.chunk_size * index
    BY SizesHaveSizes, ChunkBounds DEF Inv, TypeOK, StructureOK, U64
  <2>2. /\ ExpectedLen(header, index) \in 0..header.chunk_size
        /\ header.total_plaintext_size > 0 => ExpectedLen(header, index) > 0
        /\ header.chunk_size * index \in U64
    BY <2>1, ChunkIsACut
  <2> QED BY <2>1, <2>2, ChunkBounds DEF CutsAreAligned, U64, HasSizes
<1> QED BY <1>1, InvHolds, PTL

\* Every plaintext byte is handed out exactly once.
THEOREM WalkIsComplete == Spec => []WalkCoversPlaintext
<1>1. Inv => WalkCoversPlaintext BY DEF Inv, WalkCoversPlaintext
<1> QED BY <1>1, InvHolds, PTL

\* No header with the count encryption declares is refused.
THEOREM DeclaredNeverRefused == Spec => []DeclaredIsAccepted
<1>1. Inv => DeclaredIsAccepted
  BY SizesHaveSizes, DeclaredHeaderAccepted DEF Inv, TypeOK, DeclaredIsAccepted
<1> QED BY <1>1, InvHolds, PTL
\* The meaning of a chunk count and the ceiling of the proofs are the same.
LEMMA ChunkCountIsCeil ==
    ASSUME NEW n \in Nat, NEW S \in Nat, NEW C \in Nat \ {0}
    PROVE  IsChunkCount(n, S, C) <=> n = ExpectedTotalChunks(S, C)
<1> DEFINE e == ExpectedTotalChunks(S, C)
<1>1. IsCeil(e, S, C)
  BY ExpectedIsCeil
<1>2. CASE S = 0
  <2>1. e = 1 BY <1>2 DEF ExpectedTotalChunks
  <2>2. n > 1 => C * (n - 1) >= 0 BY MulMonotone
  <2> QED BY <1>2, <2>1, <2>2 DEF IsChunkCount
<1>3. CASE S > 0
  <2>1. C * 0 = 0 OBVIOUS
  <2>2. ASSUME IsChunkCount(n, S, C) PROVE n = e
    <3>1. n = 1 => C * (n - 1) < S BY <1>3, <2>1
    <3>2. IsCeil(n, S, C) BY <1>3, <2>2, <3>1 DEF IsChunkCount, IsCeil
    <3> QED BY <1>1, <1>3, <3>2, CeilUnique
  <2>3. ASSUME n = e PROVE IsChunkCount(n, S, C)
    BY <1>1, <1>3, <2>3 DEF IsChunkCount, IsCeil
  <2> QED BY <2>2, <2>3
<1> QED BY <1>2, <1>3

\* Validation accepts exactly the meaningful headers.
THEOREM ValidationIsExact == Spec => []AcceptedIsMeaningful
<1>1. Inv => AcceptedIsMeaningful
  <2> SUFFICES ASSUME Inv, walk # "validate" PROVE AcceptedIsMeaningful
    BY DEF AcceptedIsMeaningful
  <2> DEFINE C == header.chunk_size
             N == header.total_chunks
             S == header.total_plaintext_size
  <2>1. HasSizes(header) /\ (walk # "rejected" <=> StructureOK(header))
    BY SizesHaveSizes DEF Inv, TypeOK
  <2>2. StructureOK(header) <=> SizesConsistent(header)
    BY <2>1, ProductNeverOverflows DEF StructureOK
  <2>3. CASE C \in MinChunkSize..MaxChunkSize
    <3>1. C \in Nat \ {0} /\ N \in Nat /\ S \in Nat
      BY <2>1, <2>3, ChunkBounds DEF HasSizes
    <3>2. IsChunkCount(N, S, C) <=> N = ExpectedTotalChunks(S, C)
      BY <3>1, ChunkCountIsCeil
    <3> QED BY <2>1, <2>2, <2>3, <3>1, <3>2 DEF SizesConsistent, AcceptedIsMeaningful
  <2>4. CASE C \notin MinChunkSize..MaxChunkSize
    BY <2>1, <2>2, <2>4 DEF SizesConsistent, AcceptedIsMeaningful
  <2> QED BY <2>3, <2>4
<1> QED BY <1>1, InvHolds, PTL

\* Encoder and decoder agree on the sizes of a header, and on what they mean.
THEOREM HeadersAlwaysChecked == Spec => []HeadersAreChecked
<1>1. AcceptedIsMeaningful /\ DeclaredIsAccepted => HeadersAreChecked
  BY DEF HeadersAreChecked
<1> QED BY <1>1, ValidationIsExact, DeclaredNeverRefused, PTL
=============================================================================
