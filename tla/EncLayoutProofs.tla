--------------------------- MODULE EncLayoutProofs ---------------------------
(***************************************************************************)
(* What every accepted header guarantees to the code that walks its        *)
(* chunks, for every chunk-size policy and every integer width.            *)
(***************************************************************************)
EXTENDS EncLayout, TLAPS

\* Division with remainder, the only fact about \div and % the proofs need.
LEMMA DivMod ==
    ASSUME NEW a \in Nat, NEW c \in Nat \ {0}
    PROVE  /\ a \div c \in Nat
           /\ a % c \in 0..(c - 1)
           /\ a = c * (a \div c) + (a % c)
  OBVIOUS

LEMMA MulMonotone ==
    ASSUME NEW c \in Nat, NEW m \in Nat, NEW n \in Nat, m <= n
    PROVE  c * m <= c * n
  OBVIOUS

LEMMA MulSucc ==
    ASSUME NEW c \in Int, NEW n \in Int
    PROVE  c * (n + 1) = c * n + c
  OBVIOUS
-----------------------------------------------------------------------------
(* The chunk count.                                                        *)

\* n chunks of C bytes hold S bytes and n - 1 do not; never less than one chunk.
IsCeil(n, S, C) ==
    /\ n \in Nat \ {0}
    /\ C * n >= S
    /\ S > 0 => C * (n - 1) < S

LEMMA CeilUnique ==
    ASSUME NEW S \in Nat \ {0}, NEW C \in Nat \ {0},
           NEW m, NEW n, IsCeil(m, S, C), IsCeil(n, S, C)
    PROVE  m = n
<1>1. ASSUME NEW x \in Nat \ {0}, NEW y \in Nat \ {0}, x < y,
             C * x >= S, C * (y - 1) < S
      PROVE  FALSE
  <2>1. C * x <= C * (y - 1)
    BY <1>1, MulMonotone
  <2>2. C * x \in Nat /\ C * (y - 1) \in Nat
    BY <1>1
  <2> QED BY <1>1, <2>1, <2>2
<1>2. m < n \/ n < m \/ m = n
  BY DEF IsCeil
<1> QED BY <1>1, <1>2 DEF IsCeil

\* The formula of from_bytes, (S + C - 1) / C, is the ceiling of S / C.
LEMMA ExpectedIsCeil ==
    ASSUME NEW S \in Nat, NEW C \in Nat \ {0}
    PROVE  IsCeil(ExpectedTotalChunks(S, C), S, C)
<1>1. CASE S = 0
  BY <1>1 DEF ExpectedTotalChunks, IsCeil
<1>2. CASE S > 0
  <2> DEFINE a == S + C - 1
             n == a \div C
  <2>1. a \in Nat BY <1>2
  <2>2. n \in Nat /\ a % C \in 0..(C - 1) /\ a = C * n + (a % C)
    BY <2>1, DivMod
  <2> HIDE DEF n
  <2>3. C * n \in Nat BY <2>2
  <2>4. C * n >= S BY <2>2, <2>3, <1>2
  <2>5. n # 0 BY <2>4, <1>2
  <2>6. C * (n - 1) = C * n - C BY <2>2
  <2>7. C * (n - 1) < S BY <2>2, <2>3, <2>6
  <2> QED BY <2>2, <2>4, <2>5, <2>7, <1>2 DEF ExpectedTotalChunks, IsCeil, n
<1> QED BY <1>1, <1>2

\* So is the div_ceil with which encryption declares its count.
LEMMA DeclaredIsCeil ==
    ASSUME NEW S \in Nat, NEW C \in Nat \ {0}
    PROVE  IsCeil(DeclaredChunks(S, C), S, C)
<1>1. CASE S = 0
  BY <1>1 DEF DeclaredChunks, IsCeil
<1>2. CASE S > 0
  <2> DEFINE q == S \div C
             r == S % C
  <2>1. q \in Nat /\ r \in 0..(C - 1) /\ S = C * q + r
    BY DivMod
  <2>2. DeclaredChunks(S, C) = IF r > 0 THEN q + 1 ELSE q
    BY <1>2, <2>1 DEF DeclaredChunks, DivCeil
  <2> HIDE DEF q, r
  <2>3. C * (q + 1) = C * q + C /\ C * (q - 1) = C * q - C /\ C * q \in Nat
    BY <2>1
  <2>4. CASE r > 0
    BY <2>1, <2>2, <2>3, <2>4 DEF IsCeil
  <2>5. CASE r = 0
    <3>1. q # 0 BY <2>1, <2>5, <1>2
    <3> QED BY <2>1, <2>2, <2>3, <2>5, <3>1 DEF IsCeil
  <2> QED BY <2>1, <2>4, <2>5
<1> QED BY <1>1, <1>2
-----------------------------------------------------------------------------
(* Accepted headers.                                                       *)

LEMMA AcceptedCount ==
    ASSUME NEW h, HasSizes(h), SizesConsistent(h)
    PROVE  /\ h.chunk_size \in Nat \ {0}
           /\ IsCeil(h.total_chunks, h.total_plaintext_size, h.chunk_size)
  BY ExpectedIsCeil DEF HasSizes, SizesConsistent

\* The overflow guard from_bytes ends with (chunk_size * total_chunks, "un
\* depassement silencieux y serait dangereux") never refuses a header that
\* the checks before it have let through.
THEOREM ProductNeverOverflows ==
    ASSUME NEW h, HasSizes(h), SizesConsistent(h)
    PROVE  ProductFits(h)
<1> DEFINE C == h.chunk_size
           N == h.total_chunks
           S == h.total_plaintext_size
<1>1. /\ C \in Nat \ {0} /\ N \in Nat \ {0} /\ S \in Nat
      /\ C <= MaxChunkSize
      /\ IsCeil(N, S, C)
  BY AcceptedCount, ChunkBounds DEF HasSizes, SizesConsistent, IsCeil
<1>2. CASE S = 0
  <2>1. N = 1 BY <1>2 DEF SizesConsistent, ExpectedTotalChunks
  <2> QED BY <1>1, <2>1, ChunkBounds DEF ProductFits
<1>3. CASE S > 0
  <2>1. C * (N - 1) < S BY <1>1, <1>3 DEF IsCeil
  <2>2. C * N = C * (N - 1) + C
    <3>1. (N - 1) + 1 = N BY <1>1
    <3> QED BY <1>1, <3>1, MulSucc
  <2>3. S + C <= U64Max BY <1>3 DEF SizesConsistent, CountComputable
  <2>4. C * (N - 1) \in Int BY <1>1
  <2> QED BY <1>1, <2>1, <2>2, <2>3, <2>4, ChunkBounds DEF ProductFits
<1> QED BY <1>1, <1>2, <1>3

\* A header that declares, for an input of S bytes, the count encryption
\* computes is accepted, as long as S + chunk_size is a u64: the two formulas
\* of the source agree.
THEOREM DeclaredHeaderAccepted ==
    ASSUME NEW h, HasSizes(h),
           h.chunk_size \in MinChunkSize..MaxChunkSize,
           CountComputable(h.total_plaintext_size, h.chunk_size),
           h.total_chunks = DeclaredChunks(h.total_plaintext_size, h.chunk_size)
    PROVE  StructureOK(h)
<1> DEFINE C == h.chunk_size
           S == h.total_plaintext_size
<1>1. C \in Nat \ {0} /\ S \in Nat
  BY ChunkBounds DEF HasSizes
<1>2. DeclaredChunks(S, C) = ExpectedTotalChunks(S, C)
  <2>1. CASE S = 0 BY <2>1 DEF DeclaredChunks, ExpectedTotalChunks
  <2>2. CASE S > 0 BY <1>1, <2>2, CeilUnique, DeclaredIsCeil, ExpectedIsCeil
  <2> QED BY <1>1, <2>1, <2>2
<1>3. SizesConsistent(h)
  BY <1>1, <1>2 DEF SizesConsistent
<1> QED BY <1>3, ProductNeverOverflows DEF StructureOK

\* Chunk i of an accepted header starts at chunk_size * i and stops where chunk
\* i + 1 starts, or at the end of the plaintext for the last one.  It fits the
\* chunk buffer, its offset is a u64, and only an empty plaintext has an empty
\* chunk: expected_plaintext_len can neither wrap nor saturate.
THEOREM ChunkIsACut ==
    ASSUME NEW h, HasSizes(h), SizesConsistent(h),
           NEW i \in Nat, i < h.total_chunks
    PROVE  /\ ExpectedLen(h, i) \in 0..h.chunk_size
           /\ h.total_plaintext_size > 0 => ExpectedLen(h, i) > 0
           /\ h.chunk_size * i \in U64
           /\ h.chunk_size * i <= h.total_plaintext_size
           /\ i + 1 < h.total_chunks =>
                 /\ ExpectedLen(h, i) = h.chunk_size
                 /\ h.chunk_size * (i + 1) = h.chunk_size * i + ExpectedLen(h, i)
           /\ i + 1 = h.total_chunks =>
                 h.total_plaintext_size = h.chunk_size * i + ExpectedLen(h, i)
<1> DEFINE C == h.chunk_size
           N == h.total_chunks
           S == h.total_plaintext_size
<1>1. /\ C \in Nat \ {0} /\ N \in Nat \ {0} /\ S \in Nat
      /\ C * N >= S
      /\ S > 0 => C * (N - 1) < S
  BY AcceptedCount DEF HasSizes, IsCeil
<1>2. C * N <= U64Max
  BY ProductNeverOverflows DEF ProductFits
<1>3. /\ C * i \in Nat
      /\ C * (i + 1) = C * i + C
      /\ C * (N - 1) = C * N - C
      /\ C * N \in Nat
  BY <1>1
<1>4. C * i <= C * (N - 1)
  BY <1>1, MulMonotone
<1>5. C * i \in U64
  BY <1>1, <1>2, <1>3, <1>4, ChunkBounds DEF U64
<1>6. S = 0 => N = 1
  BY DEF SizesConsistent, ExpectedTotalChunks
<1>7. C * i <= S
  <2>1. CASE S = 0 BY <1>1, <1>6, <2>1
  <2>2. CASE S > 0 BY <1>1, <1>3, <1>4, <2>2
  <2> QED BY <1>1, <2>1, <2>2
<1>8. CASE i + 1 < N
  <2>1. ExpectedLen(h, i) = C
    BY <1>1, <1>8 DEF ExpectedLen
  <2>2. C \in 0..C /\ C > 0
    BY <1>1
  <2> QED BY <1>1, <1>3, <1>5, <1>7, <1>8, <2>1, <2>2
<1>9. CASE i + 1 = N
  <2>1. ExpectedLen(h, i) = S - C * i
    BY <1>1, <1>7, <1>9 DEF ExpectedLen
  <2>2. i = N - 1 BY <1>1, <1>9
  <2>3. S > 0 => S - C * i > 0 BY <1>1, <1>3, <2>2
  <2>4. S - C * i <= C BY <1>1, <1>3, <2>2
  <2>5. ExpectedLen(h, i) \in 0..C /\ (S > 0 => ExpectedLen(h, i) > 0)
    BY <1>1, <1>3, <1>7, <2>1, <2>3, <2>4
  <2>6. S = C * i + ExpectedLen(h, i)
    BY <1>1, <1>3, <2>1
  <2>7. ~(i + 1 < N)
    BY <1>1, <1>9
  <2> QED BY <1>5, <1>7, <2>5, <2>6, <2>7
<1> QED BY <1>1, <1>8, <1>9
=============================================================================
