-------------------------- MODULE EncryptFileProofs --------------------------
(***************************************************************************)
(* What encrypt_file guarantees of its output file and of the boxes it     *)
(* seals, for every request, every source and every width, whatever the    *)
(* surroundings do.                                                        *)
(***************************************************************************)
EXTENDS EncryptFile, EncLayoutProofs, SequenceTheorems

-----------------------------------------------------------------------------
(* The inductive invariant.                                                *)

\* The bytes of text are those after byte `start` of the source, in order.
Placed(text, start) == \A k \in 1..Len(text) : text[k][2] = start + k

\* They were all read from version v of the source.
OfVersion(text, v) == \A k \in 1..Len(text) : text[k][1] = v

ChunkBox(i, text) == Seal(Key, DeriveNonce(header.base_nonce, i), ChunkAad(header, i), text)

\* Everything this run may write.
Pieces == {Noise, HeaderPiece(header), HeaderSeal}
             \cup {ChunkBox(i, text) : i \in Nat, text \in Seq(Bytes)}

\* The header is one the decoder accepts, for what was measured.
Made ==
    /\ measured \in SourceSizes
    /\ header.chunk_size = DefaultChunkSize
    /\ header.total_plaintext_size = measured
    /\ header.base_nonce \in BaseNonces
    /\ HasSizes(header)
    /\ SizesConsistent(header)
    /\ Parses(header, request.version)
    /\ request.version = 1 => Derivable(header)

\* Nothing has been produced, and never will be unless the run goes on.
Blank ==
    /\ pc \in {"check", "key", "drop", "done", "killed"}
    /\ sealed = <<>>
    /\ tmp = NoFile
    /\ dest = BeforeUs

MeasuredSource == "source" \notin mishaps => measured = source.size

Kinds ==
    /\ TypeOK
    /\ sealed \in Seq(Pieces)
    /\ tmp \in [exists : BOOLEAN, wire : Seq(Pieces)]

Begun ==
    /\ \/ Blank
       \/ Made /\ MeasuredSource /\ pc \notin {"check", "key"}
    /\ pc = "key" =>
          /\ measured \in SourceSizes
          /\ MeasuredSource
          /\ request.version = 2 => RecipientsOK(request.recipients)
    /\ pc \in {"check", "key", "create", "header"} =>
          /\ index = 0
          /\ chunk = <<>>
          /\ ahead = <<>>
          /\ sealed = <<>>
          /\ tmp.wire = <<>>

\* The chunk being read, and what the BufReader has read beyond it.
ReadSoFar ==
    /\ pc \in {"read", "progress"} =>
          /\ index < header.total_chunks
          /\ Len(chunk) <= Want
          /\ Placed(chunk, header.chunk_size * index)
          /\ Placed(ahead, header.chunk_size * index + Len(chunk))
    /\ pc = "progress" => Len(chunk) = Want
    /\ "source" \notin mishaps =>
          OfVersion(chunk, source.version) /\ OfVersion(ahead, source.version)

\* Box j of chunk j - 2.
ChunkSealed(j) ==
    /\ sealed[j].text \in Seq(Bytes)
    /\ sealed[j] = ChunkBox(j - 2, sealed[j].text)
    /\ Len(sealed[j].text) = ExpectedLen(header, j - 2)
    /\ Placed(sealed[j].text, header.chunk_size * (j - 2))
    /\ "source" \notin mishaps => OfVersion(sealed[j].text, source.version)

SealedSoFar ==
    /\ sealed # <<>> => sealed[1] = HeaderSeal /\ Len(sealed) <= header.total_chunks + 1
    /\ \A j \in 2..Len(sealed) : ChunkSealed(j)
    /\ pc = "read" => Len(sealed) = index + 1
    /\ pc = "progress" => Len(sealed) = index + 2
    /\ pc \in {"flush", "verify", "persist"} => Len(sealed) = header.total_chunks + 1

\* Every piece of wire is the header, noise, or a box that was sealed.
OwnWire(wire) ==
    \A k \in 1..Len(wire) :
        \/ wire[k] \in {Noise, HeaderPiece(header)}
        \/ \E j \in 1..Len(sealed) : wire[k] = sealed[j]

WireSoFar ==
    /\ OwnWire(tmp.wire)
    /\ pc \in {"read", "progress", "flush", "verify", "persist"} /\ "storage" \notin mishaps =>
          tmp.wire = <<HeaderPiece(header)>> \o sealed

Outcome ==
    /\ pc \notin {"drop", "done", "killed"} => result = "none"
    /\ pc \in {"drop", "done"} => result # "none"
    /\ result = "Ok" <=> dest # BeforeUs
    /\ pc = "persist" => Verifies(request, tmp.wire)
    /\ dest # BeforeUs =>
          /\ dest = ByUs(dest.wire)
          /\ dest.wire \in Seq(Pieces)
          /\ Verifies(request, dest.wire)
          /\ OwnWire(dest.wire)
    /\ pc = "done" /\ tmp.exists => "undeleted" \in mishaps
    /\ OnlyStorageFailsVerification

EncryptInv == Kinds /\ Begun /\ ReadSoFar /\ SealedSoFar /\ WireSoFar /\ Outcome

-----------------------------------------------------------------------------
(* Facts that are not about steps.                                         *)

LEMMA MinOfTwo ==
    ASSUME NEW a \in Int, NEW b \in Int
    PROVE  Min({a, b}) = IF a <= b THEN a ELSE b
BY DEF Min

\* What HandOut does to the positions and to the versions of the bytes.
LEMMA HandedOut ==
    ASSUME NEW c \in Seq(Bytes), NEW b \in Seq(Bytes), NEW m \in Nat
    PROVE  LET n == Min({m, Len(b)})
               c2 == c \o SubSeq(b, 1, n)
               b2 == SubSeq(b, n + 1, Len(b))
           IN /\ c2 \in Seq(Bytes) /\ b2 \in Seq(Bytes)
              /\ Len(c2) \in Len(c)..(Len(c) + m)
              /\ \A start \in Nat :
                    Placed(c, start) /\ Placed(b, start + Len(c)) =>
                       Placed(c2, start) /\ Placed(b2, start + Len(c2))
              /\ \A v : OfVersion(c, v) /\ OfVersion(b, v) =>
                    OfVersion(c2, v) /\ OfVersion(b2, v)
<1> DEFINE n == Min({m, Len(b)})
           s == SubSeq(b, 1, n)
           c2 == c \o s
           b2 == SubSeq(b, n + 1, Len(b))
<1>1. n \in Nat /\ n <= m /\ n <= Len(b) /\ Len(b) \in Nat /\ Len(c) \in Nat
  BY MinOfTwo
<1> HIDE DEF n
<1>2. s \in Seq(Bytes) /\ Len(s) = n /\ \A k \in 1..n : s[k] = b[k]
  BY <1>1
<1>3. /\ b2 \in Seq(Bytes) /\ Len(b2) = Len(b) - n
      /\ \A k \in 1..Len(b2) : b2[k] = b[n + k] /\ n + k \in 1..Len(b)
  BY <1>1
<1> HIDE DEF s, b2
<1>4. /\ c2 \in Seq(Bytes) /\ Len(c2) = Len(c) + n
      /\ \A k \in 1..Len(c2) : IF k <= Len(c) THEN c2[k] = c[k] /\ k \in 1..Len(c)
                                ELSE c2[k] = b[k - Len(c)] /\ k - Len(c) \in 1..Len(b)
  <2>1. /\ c2 \in Seq(Bytes) /\ Len(c2) = Len(c) + n
        /\ \A k \in 1..(Len(c) + n) : c2[k] = IF k <= Len(c) THEN c[k] ELSE s[k - Len(c)]
    BY <1>2, ConcatProperties
  <2> HIDE DEF c2
  <2>2. ASSUME NEW k \in 1..Len(c2), k <= Len(c)
        PROVE  c2[k] = c[k] /\ k \in 1..Len(c)
    BY <1>1, <2>1, <2>2
  <2>3. ASSUME NEW k \in 1..Len(c2), ~(k <= Len(c))
        PROVE  c2[k] = b[k - Len(c)] /\ k - Len(c) \in 1..Len(b)
    <3>1. k - Len(c) \in 1..n /\ c2[k] = s[k - Len(c)]
      BY <1>1, <2>1, <2>3
    <3> QED BY <1>1, <1>2, <3>1
  <2> QED BY <2>1, <2>2, <2>3
<1> HIDE DEF c2
<1>5. ASSUME NEW start \in Nat, Placed(c, start), Placed(b, start + Len(c))
      PROVE  Placed(c2, start) /\ Placed(b2, start + Len(c2))
  <2>1. ASSUME NEW k \in 1..Len(c2) PROVE c2[k][2] = start + k
    <3>1. CASE k <= Len(c)
      BY <1>4, <1>5, <3>1 DEF Placed
    <3>2. CASE k > Len(c)
      <4>1. c2[k] = b[k - Len(c)] /\ k - Len(c) \in 1..Len(b)
        BY <1>1, <1>4, <3>2
      <4>2. b[k - Len(c)][2] = start + Len(c) + (k - Len(c))
        BY <1>5, <4>1 DEF Placed
      <4> QED BY <1>1, <4>1, <4>2
    <3> QED BY <1>1, <3>1, <3>2
  <2>2. ASSUME NEW k \in 1..Len(b2) PROVE b2[k][2] = start + Len(c2) + k
    <3>1. b2[k] = b[n + k] /\ n + k \in 1..Len(b)
      BY <1>3
    <3>2. b[n + k][2] = start + Len(c) + (n + k)
      BY <1>5, <3>1 DEF Placed
    <3> QED BY <1>1, <1>4, <3>1, <3>2
  <2> QED BY <2>1, <2>2 DEF Placed
<1>6. ASSUME NEW v, OfVersion(c, v), OfVersion(b, v)
      PROVE  OfVersion(c2, v) /\ OfVersion(b2, v)
  <2>1. ASSUME NEW k \in 1..Len(c2) PROVE c2[k][1] = v
    BY <1>1, <1>4, <1>6 DEF OfVersion
  <2>2. ASSUME NEW k \in 1..Len(b2) PROVE b2[k][1] = v
    BY <1>3, <1>6 DEF OfVersion
  <2> QED BY <2>1, <2>2 DEF OfVersion
<1>7. Len(c2) \in Len(c)..(Len(c) + m)
  BY <1>1, <1>4
<1> QED BY <1>3, <1>4, <1>5, <1>6, <1>7 DEF n, s, c2, b2

LEMMA SamePieces ==
    ASSUME UNCHANGED <<request, header>>
    PROVE  /\ Pieces' = Pieces
           /\ HeaderSeal' = HeaderSeal
           /\ \A i, text : ChunkBox(i, text)' = ChunkBox(i, text)
BY DEF Pieces, HeaderSeal, ChunkBox, Key

LEMMA WhatIsStored ==
    ASSUME NEW p \in Pieces, NEW kept \in Stored(p)
    PROVE  kept \in Seq(Pieces) /\ \A k \in 1..Len(kept) : kept[k] \in {p, Noise}
<1>1. Noise \in Pieces
  BY DEF Pieces
<1>2. ASSUME NEW q \in Pieces, q \in {p, Noise}
      PROVE  <<q>> \in Seq(Pieces) /\ \A k \in 1..Len(<<q>>) : <<q>>[k] \in {p, Noise}
  BY <1>2
<1>3. kept = <<p>> \/ kept = <<Noise>> \/ kept = <<>>
  BY DEF Stored
<1>4. CASE kept = <<p>>
  BY <1>2, <1>4
<1>5. CASE kept = <<Noise>>
  BY <1>1, <1>2, <1>5
<1>6. CASE kept = <<>>
  BY <1>6
<1> QED BY <1>3, <1>4, <1>5, <1>6

\* The header is one the decoder accepts.
LEMMA HeaderIsMade ==
    ASSUME TypeOK, pc = "key", measured \in SourceSizes,
           request.version = 2 => RecipientsOK(request.recipients),
           HeaderMade
    PROVE  Made'
<1>1. PICK salt \in Salts, base_nonce \in BaseNonces : header' = NewHeader(salt, base_nonce)
  BY DEF HeaderMade
<1>2. request' = request /\ measured' = measured
  BY DEF HeaderMade
<1>3. /\ header'.magic = TRUE
      /\ header'.version = request.version
      /\ header'.key_source = IF request.version = 1 THEN "password" ELSE "external"
      /\ header'.argon2_params = IF request.version = 1 THEN request.argon2_params ELSE NoParams
      /\ header'.recipients = IF request.version = 1 THEN <<>> ELSE request.recipients
      /\ header'.base_nonce = base_nonce
      /\ header'.chunk_size = DefaultChunkSize
      /\ header'.total_chunks = DeclaredChunks(measured, DefaultChunkSize)
      /\ header'.total_plaintext_size = measured
  BY <1>1 DEF NewHeader
<1>4. /\ measured \in Nat
      /\ DefaultChunkSize \in Nat \ {0}
      /\ DefaultChunkSize \in MinChunkSize..MaxChunkSize
      /\ measured + DefaultChunkSize <= U64Max
      /\ request.version \in {1, 2}
  BY ChunkBounds, EncryptAssumptions DEF TypeOK
<1>5. HasSizes(header')
  BY <1>3, <1>4, DeclaredIsCeil DEF HasSizes, IsCeil
<1>6. CountComputable(header'.total_plaintext_size, header'.chunk_size)
  BY <1>3, <1>4 DEF CountComputable
<1>7. StructureOK(header')
  BY <1>3, <1>4, <1>5, <1>6, DeclaredHeaderAccepted
<1>8. request.version = 2 => KeySourceOK(header')
  BY <1>3 DEF KeySourceOK, RecipientsOK
<1>9. Parses(header', request.version)
  BY <1>3, <1>7, <1>8 DEF Parses
<1>10. request.version = 1 => Derivable(header')
  BY <1>3 DEF Derivable, HeaderMade
<1> QED BY <1>2, <1>3, <1>5, <1>7, <1>9, <1>10 DEF Made, StructureOK

\* Chunk i of the header that was made.
LEMMA ChunkOfHeader ==
    ASSUME Made, NEW i \in Nat, i < header.total_chunks
    PROVE  /\ ExpectedLen(header, i) \in 0..header.chunk_size
           /\ header.chunk_size * i \in Nat
           /\ i + 1 < header.total_chunks =>
                 header.chunk_size * (i + 1) = header.chunk_size * i + ExpectedLen(header, i)
           /\ header.total_chunks \in 1..U64Max
           /\ header.chunk_size \in Nat
<1>1. HasSizes(header) /\ SizesConsistent(header)
  BY DEF Made
<1>2. ProductFits(header)
  BY <1>1, ProductNeverOverflows
<1>3. header.chunk_size \in Nat \ {0} /\ header.total_chunks \in Nat \ {0}
  BY <1>1, AcceptedCount DEF IsCeil
<1>4. header.total_chunks <= header.chunk_size * header.total_chunks
  BY <1>3
<1>5. header.total_chunks \in 1..U64Max
  BY <1>2, <1>3, <1>4, ChunkBounds DEF ProductFits
<1> QED BY <1>1, <1>3, <1>5, ChunkIsACut DEF U64

-----------------------------------------------------------------------------
(* The steps that only return, or only move on.                            *)

Returns == \E r \in Errors : Return(r)

MovesOn ==
    /\ pc' \in {"flush", "verify", "persist", "killed"}
    /\ UNCHANGED <<request, source, mishaps, measured, header, index, chunk, ahead, sealed,
                   tmp, dest, result>>

LEMMA StepKinds ==
    ASSUME [Next]_vars
    PROVE  \/ (RecipientsRefused \/ ParamsRefused \/ SourceTooShort \/ VerificationFails
                  \/ CallbackCancels \/ IoFails) /\ Returns
           \/ (LastChunk \/ Flushed \/ Verified \/ Killed) /\ MovesOn
           \/ Measured \/ HeaderMade \/ TmpCreated \/ HeaderWritten \/ FileRead \/ BufferRead
           \/ ChunkWritten \/ NextChunk \/ Persisted \/ Dropped \/ SourceChanges
           \/ UNCHANGED vars
<1>1. CASE \/ RecipientsRefused \/ ParamsRefused \/ SourceTooShort \/ VerificationFails
           \/ CallbackCancels \/ IoFails
  <2>1. /\ DecryptErrors \subseteq Errors
        /\ {"InvalidHeader", "Crypto", "Io", "Cancelled"} \subseteq Errors
    BY DEF DecryptErrors, Errors
  <2> QED BY <1>1, <2>1 DEF RecipientsRefused, ParamsRefused, SourceTooShort,
              VerificationFails, CallbackCancels, IoFails, Returns
<1>2. CASE LastChunk \/ Flushed \/ Verified \/ Killed
  BY <1>2 DEF LastChunk, Flushed, Verified, Killed, MovesOn
<1> QED BY <1>1, <1>2 DEF Next, Proceed

\* A read hands the program bytes of the type expected, in their place.
LEMMA ReadHandsOut ==
    ASSUME Kinds, Begun, ReadSoFar, FileRead \/ BufferRead
    PROVE  /\ pc = "read" /\ Made
           /\ \E bytes \in Seq(Bytes) :
                 /\ Placed(bytes, header.chunk_size * index + Len(chunk))
                 /\ "source" \notin mishaps => OfVersion(bytes, source.version)
                 /\ HandOut(bytes)
           /\ UNCHANGED <<request, source, mishaps, pc, measured, header, index, sealed, tmp,
                          dest, result>>
<1>1. pc = "read" /\ Made
  BY DEF FileRead, BufferRead, Begun, Blank
<1>2. /\ UNCHANGED <<request, source, mishaps, pc, measured, header, index, sealed, tmp,
                     dest, result>>
  BY DEF FileRead, BufferRead
<1>3. CASE FileRead
  <2>1. PICK n \in 1..header.chunk_size :
              HandOut([k \in 1..n |-> <<source.version, ReadPosition + k>>])
    BY <1>3 DEF FileRead
  <2> DEFINE bytes == [k \in 1..n |-> <<source.version, ReadPosition + k>>]
  <2>2. /\ index \in Nat /\ index < header.total_chunks /\ chunk \in Seq(Bytes)
        /\ source.version \in 0..MaxChanges
    BY <1>1 DEF Kinds, TypeOK, ReadSoFar
  <2>3. /\ header.chunk_size * index \in Nat /\ header.chunk_size \in Nat
    BY <1>1, <2>2, ChunkOfHeader
  <2>4. ReadPosition = header.chunk_size * index + Len(chunk) /\ Len(chunk) \in Nat
    BY <2>2 DEF ReadPosition
  <2>5. ReadPosition \in Nat /\ n \in Nat
    BY <2>1, <2>3, <2>4
  <2>6. bytes \in Seq(Bytes) /\ Len(bytes) = n
    <3>1. \A k \in 1..n : <<source.version, ReadPosition + k>> \in Bytes
      BY <2>2, <2>5 DEF Bytes
    <3>2. bytes \in [1..n -> Bytes] /\ DOMAIN bytes = 1..n
      BY <3>1
    <3> HIDE DEF bytes
    <3>3. bytes \in Seq(Bytes)
      BY <2>5, <3>2
    <3> QED BY <2>5, <3>2, <3>3
  <2>7. \A k \in 1..Len(bytes) : bytes[k] = <<source.version, ReadPosition + k>>
    BY <2>6
  <2>8. HandOut(bytes)
    BY <2>1
  <2> HIDE DEF bytes
  <2>9. Placed(bytes, ReadPosition) /\ OfVersion(bytes, source.version)
    BY <2>7 DEF Placed, OfVersion
  <2> QED BY <1>1, <1>2, <2>4, <2>6, <2>8, <2>9
<1>4. CASE BufferRead
  <2>1. /\ ahead \in Seq(Bytes) /\ HandOut(ahead)
        /\ Placed(ahead, header.chunk_size * index + Len(chunk))
        /\ "source" \notin mishaps => OfVersion(ahead, source.version)
    BY <1>1, <1>4 DEF BufferRead, Kinds, TypeOK, ReadSoFar
  <2> QED BY <1>1, <1>2, <2>1
<1> QED BY <1>3, <1>4

\* What a read leaves behind.
LEMMA AfterRead ==
    ASSUME Kinds, Begun, ReadSoFar, FileRead \/ BufferRead
    PROVE  /\ chunk' \in Seq(Bytes) /\ ahead' \in Seq(Bytes)
           /\ Len(chunk') <= Want
           /\ Placed(chunk', header.chunk_size * index)
           /\ Placed(ahead', header.chunk_size * index + Len(chunk'))
           /\ "source" \notin mishaps =>
                 OfVersion(chunk', source.version) /\ OfVersion(ahead', source.version)
<1>1. pc = "read" /\ Made
  BY ReadHandsOut
<1>2. PICK bytes \in Seq(Bytes) :
              /\ Placed(bytes, header.chunk_size * index + Len(chunk))
              /\ "source" \notin mishaps => OfVersion(bytes, source.version)
              /\ HandOut(bytes)
  BY ReadHandsOut
<1>3. /\ index \in Nat /\ index < header.total_chunks /\ chunk \in Seq(Bytes)
      /\ Len(chunk) <= Want
      /\ Placed(chunk, header.chunk_size * index)
      /\ "source" \notin mishaps => OfVersion(chunk, source.version)
  BY <1>1 DEF Kinds, TypeOK, ReadSoFar
<1>4. Want \in Nat /\ header.chunk_size * index \in Nat /\ Len(chunk) \in Nat
  BY <1>1, <1>3, ChunkOfHeader DEF Want
<1>5. Missing \in Nat /\ Len(chunk) + Missing = Want
  BY <1>3, <1>4 DEF Missing
<1> DEFINE n == Min({Missing, Len(bytes)})
<1>6. /\ chunk' = chunk \o SubSeq(bytes, 1, n)
      /\ ahead' = SubSeq(bytes, n + 1, Len(bytes))
  BY <1>2 DEF HandOut
<1> DEFINE start == header.chunk_size * index
<1>7. /\ chunk' \in Seq(Bytes) /\ ahead' \in Seq(Bytes)
      /\ Len(chunk') \in Len(chunk)..(Len(chunk) + Missing)
      /\ Placed(chunk, start) /\ Placed(bytes, start + Len(chunk)) =>
            Placed(chunk', start) /\ Placed(ahead', start + Len(chunk'))
      /\ \A v : OfVersion(chunk, v) /\ OfVersion(bytes, v) =>
            OfVersion(chunk', v) /\ OfVersion(ahead', v)
  BY <1>3, <1>4, <1>5, <1>6, HandedOut
<1> QED BY <1>2, <1>3, <1>4, <1>5, <1>7

-----------------------------------------------------------------------------
(* Every step keeps the invariant, part by part.                           *)

LEMMA InvInit == Init => EncryptInv
<1> SUFFICES ASSUME Init PROVE EncryptInv
  OBVIOUS
<1>1. dest.by = "before" /\ dest = BeforeUs
  BY DEF Init, BeforeUs
<1>2. tmp.exists = FALSE /\ tmp.wire = <<>> /\ tmp \in [exists : BOOLEAN, wire : Seq(Pieces)]
  BY DEF Init, NoFile
<1>3. Kinds
  BY <1>1, <1>2, EncryptAssumptions DEF Init, Kinds, TypeOK
<1>4. Begun
  BY <1>1, <1>2 DEF Init, Begun, Blank
<1>5. ReadSoFar
  BY DEF Init, ReadSoFar, OfVersion
<1>6. SealedSoFar
  BY DEF Init, SealedSoFar
<1>7. WireSoFar
  BY <1>2 DEF Init, WireSoFar, OwnWire
<1>8. "none" \notin DecryptErrors /\ "none" # "Ok"
  BY DEF DecryptErrors
<1>9. Outcome
  BY <1>1, <1>2, <1>8 DEF Init, Outcome, OnlyStorageFailsVerification
<1> QED BY <1>3, <1>4, <1>5, <1>6, <1>7, <1>9 DEF EncryptInv

\* Appending a box this run seals.
LEMMA Appended ==
    ASSUME NEW S, NEW s \in Seq(S), NEW b \in S
    PROVE  /\ Append(s, b) \in Seq(S)
           /\ Len(Append(s, b)) = Len(s) + 1
           /\ Append(s, b)[Len(s) + 1] = b
           /\ \A j \in 1..Len(s) : Append(s, b)[j] = s[j]
  OBVIOUS

\* What a write leaves in the temporary file.
LEMMA AfterWrite ==
    ASSUME Kinds, NEW kept \in Seq(Pieces), NEW pieces, Written(kept, pieces)
    PROVE  /\ tmp'.exists = tmp.exists /\ tmp'.wire = tmp.wire \o kept
           /\ tmp' \in [exists : BOOLEAN, wire : Seq(Pieces)]
           /\ mishaps \subseteq mishaps' /\ mishaps' \subseteq Mishaps
           /\ "source" \in mishaps' => "source" \in mishaps
           /\ "storage" \notin mishaps' => kept = pieces /\ "storage" \notin mishaps
<1>1. tmp \in [exists : BOOLEAN, wire : Seq(Pieces)] /\ mishaps \subseteq Mishaps
  BY DEF Kinds, TypeOK
<1>2. tmp' = [tmp EXCEPT !.wire = tmp.wire \o kept]
  BY DEF Written
<1>3. tmp.wire \o kept \in Seq(Pieces)
  BY <1>1
<1>4. /\ tmp'.exists = tmp.exists /\ tmp'.wire = tmp.wire \o kept
      /\ tmp' \in [exists : BOOLEAN, wire : Seq(Pieces)]
  BY <1>1, <1>2, <1>3
<1>5. mishaps' = IF kept = pieces THEN mishaps ELSE mishaps \cup {"storage"}
  BY DEF Written
<1>6. /\ mishaps \subseteq mishaps' /\ mishaps' \subseteq Mishaps
      /\ "source" \in mishaps' => "source" \in mishaps
      /\ "storage" \notin mishaps' => kept = pieces /\ "storage" \notin mishaps
  BY <1>1, <1>5 DEF Mishaps
<1> QED BY <1>4, <1>6

LEMMA PairOfPieces ==
    ASSUME NEW S, NEW p \in S, NEW q \in S
    PROVE  <<p>> \in Seq(S) /\ <<p, q>> \in Seq(S)
  OBVIOUS

\* What the two writes put there.
LEMMA WhatIsWritten ==
    ASSUME Kinds, HeaderWritten \/ ChunkWritten
    PROVE  \E kept \in Seq(Pieces), box \in Pieces, pieces \in Seq(Pieces) :
              /\ Written(kept, pieces)
              /\ sealed' = Append(sealed, box)
              /\ \A k \in 1..Len(kept) : kept[k] \in {HeaderPiece(header), box, Noise}
              /\ \/ HeaderWritten /\ box = HeaderSeal /\ pieces = <<HeaderPiece(header), box>>
                 \/ ChunkWritten /\ box = ChunkSeal /\ pieces = <<box>>
<1>1. CASE HeaderWritten
  <2>1. PICK h \in Stored(HeaderPiece(header)), t \in Stored(HeaderSeal) :
                Written(h \o t, <<HeaderPiece(header), HeaderSeal>>)
    BY <1>1 DEF HeaderWritten
  <2>2. HeaderPiece(header) \in Pieces /\ HeaderSeal \in Pieces
    BY DEF Pieces
  <2>3. /\ h \in Seq(Pieces) /\ \A k \in 1..Len(h) : h[k] \in {HeaderPiece(header), Noise}
        /\ t \in Seq(Pieces) /\ \A k \in 1..Len(t) : t[k] \in {HeaderSeal, Noise}
    BY <2>2, WhatIsStored
  <2>4. /\ h \o t \in Seq(Pieces) /\ Len(h \o t) = Len(h) + Len(t)
        /\ \A k \in 1..(Len(h) + Len(t)) :
              (h \o t)[k] = IF k <= Len(h) THEN h[k] ELSE t[k - Len(h)]
    BY <2>3, ConcatProperties
  <2>5. ASSUME NEW k \in 1..Len(h \o t)
        PROVE  (h \o t)[k] \in {HeaderPiece(header), HeaderSeal, Noise}
    <3>1. Len(h) \in Nat /\ Len(t) \in Nat
      BY <2>3
    <3>2. CASE k <= Len(h)
      <4>1. k \in 1..Len(h) /\ (h \o t)[k] = h[k]
        BY <2>4, <3>1, <3>2
      <4> QED BY <2>3, <4>1
    <3>3. CASE k > Len(h)
      <4>1. k - Len(h) \in 1..Len(t) /\ (h \o t)[k] = t[k - Len(h)]
        BY <2>4, <3>1, <3>3
      <4> QED BY <2>3, <4>1
    <3> QED BY <3>1, <3>2, <3>3
  <2>6. sealed' = Append(sealed, HeaderSeal)
    BY <1>1 DEF HeaderWritten
  <2>7. <<HeaderPiece(header), HeaderSeal>> \in Seq(Pieces)
    BY <2>2, PairOfPieces
  <2> QED BY <1>1, <2>1, <2>2, <2>4, <2>5, <2>6, <2>7
<1>2. CASE ChunkWritten
  <2>1. PICK kept \in Stored(ChunkSeal) : Written(kept, <<ChunkSeal>>)
    BY <1>2 DEF ChunkWritten
  <2>2. ChunkSeal \in Pieces
    <3>1. ChunkSeal = ChunkBox(index, chunk)
      BY DEF ChunkSeal, ChunkBox
    <3> QED BY <3>1 DEF Kinds, TypeOK, Pieces
  <2>3. kept \in Seq(Pieces) /\ \A k \in 1..Len(kept) : kept[k] \in {ChunkSeal, Noise}
    BY <2>1, <2>2, WhatIsStored
  <2>4. sealed' = Append(sealed, ChunkSeal)
    BY <1>2 DEF ChunkWritten
  <2>5. <<ChunkSeal>> \in Seq(Pieces)
    BY <2>2, PairOfPieces
  <2> QED BY <1>2, <2>1, <2>2, <2>3, <2>4, <2>5
<1> QED BY <1>1, <1>2

LEMMA KindsNext == EncryptInv /\ [Next]_vars => Kinds'
<1> SUFFICES ASSUME EncryptInv, [Next]_vars PROVE Kinds'
  OBVIOUS
<1> USE DEF EncryptInv
<1>1. CASE Returns
  BY <1>1, SamePieces DEF Returns, Return, Kinds, TypeOK
<1>2. CASE MovesOn
  BY <1>2, SamePieces DEF MovesOn, Kinds, TypeOK
<1>3. CASE Measured
  BY <1>3, SamePieces DEF Measured, Kinds, TypeOK
<1>4. CASE HeaderMade
  <2>1. sealed = <<>> /\ tmp.wire = <<>>
    BY <1>4 DEF HeaderMade, Begun
  <2>2. sealed' \in Seq(Pieces') /\ tmp' \in [exists : BOOLEAN, wire : Seq(Pieces')]
    BY <1>4, <2>1 DEF HeaderMade, Kinds
  <2> QED BY <1>4, <2>2 DEF HeaderMade, Kinds, TypeOK
<1>5. CASE TmpCreated
  BY <1>5, SamePieces DEF TmpCreated, Kinds, TypeOK
<1>6. CASE HeaderWritten \/ ChunkWritten
  <2>1. PICK kept \in Seq(Pieces), box \in Pieces, pieces \in Seq(Pieces) :
                Written(kept, pieces) /\ sealed' = Append(sealed, box)
    BY <1>6, WhatIsWritten
  <2>2. sealed' \in Seq(Pieces)
    BY <2>1, Appended DEF Kinds
  <2>3. tmp' \in [exists : BOOLEAN, wire : Seq(Pieces)] /\ mishaps' \subseteq Mishaps
    BY <2>1, AfterWrite
  <2>4. UNCHANGED <<request, source, measured, header, index, chunk, ahead, dest, result>>
        /\ pc' \in {"read", "progress"}
    BY <1>6 DEF HeaderWritten, ChunkWritten
  <2>5. Pieces' = Pieces
    BY <2>4, SamePieces
  <2>6. TypeOK'
    BY <2>3, <2>4 DEF Kinds, TypeOK
  <2> QED BY <2>2, <2>3, <2>5, <2>6 DEF Kinds
<1>7. CASE FileRead \/ BufferRead
  <2>1. chunk' \in Seq(Bytes) /\ ahead' \in Seq(Bytes)
    BY <1>7, AfterRead
  <2>2. UNCHANGED <<request, source, mishaps, pc, measured, header, index, sealed, tmp, dest,
                    result>>
    BY <1>7, ReadHandsOut
  <2> QED BY <2>1, <2>2, SamePieces DEF Kinds, TypeOK
<1>8. CASE NextChunk
  BY <1>8, SamePieces DEF NextChunk, Kinds, TypeOK
<1>9. CASE Persisted
  <2>1. dest'.by = "us" /\ tmp'.exists = FALSE
        /\ tmp' \in [exists : BOOLEAN, wire : Seq(Pieces)]
    BY <1>9 DEF Persisted, ByUs, NoFile
  <2> QED BY <1>9, <2>1, SamePieces DEF Persisted, Kinds, TypeOK
<1>10. CASE Dropped
  <2>1. tmp' \in [exists : BOOLEAN, wire : Seq(Pieces)]
    <3>1. NoFile \in [exists : BOOLEAN, wire : Seq(Pieces)]
      BY DEF NoFile
    <3> QED BY <1>10, <3>1 DEF Dropped, Kinds
  <2>2. mishaps' \subseteq Mishaps
    BY <1>10 DEF Dropped, Kinds, TypeOK, Mishaps
  <2> QED BY <1>10, <2>1, <2>2, SamePieces DEF Dropped, Kinds, TypeOK
<1>11. CASE SourceChanges
  <2>1. source' \in [size : SourceSizes, version : 0..MaxChanges] /\ mishaps' \subseteq Mishaps
    BY <1>11, EncryptAssumptions DEF SourceChanges, Kinds, TypeOK, Mishaps
  <2> QED BY <1>11, <2>1, SamePieces DEF SourceChanges, Kinds, TypeOK
<1>12. CASE UNCHANGED vars
  BY <1>12, SamePieces DEF vars, Kinds, TypeOK
<1> QED BY <1>1, <1>2, <1>3, <1>4, <1>5, <1>6, <1>7, <1>8, <1>9, <1>10, <1>11, <1>12, StepKinds

LEMMA MadeStays ==
    ASSUME Made, UNCHANGED <<request, measured, header>>
    PROVE  Made'
BY DEF Made

LEMMA BegunNext == EncryptInv /\ [Next]_vars => Begun'
<1> SUFFICES ASSUME EncryptInv, [Next]_vars PROVE Begun'
  OBVIOUS
<1> USE DEF EncryptInv
<1>1. CASE Returns
  BY <1>1, MadeStays DEF Returns, Return, Begun, Blank, MeasuredSource
<1>2. CASE (LastChunk \/ Flushed \/ Verified \/ Killed) /\ MovesOn
  <2>1. CASE Blank
    BY <1>2, <2>1 DEF LastChunk, Flushed, Verified, Killed, MovesOn, Begun, Blank
  <2>2. CASE ~Blank
    BY <1>2, <2>2, MadeStays DEF MovesOn, Begun, MeasuredSource
  <2> QED BY <2>1, <2>2
<1>3. CASE Measured
  <2>1. Blank /\ source.size \in SourceSizes
    BY <1>3 DEF Measured, Begun, Kinds, TypeOK
  <2> QED BY <1>3, <2>1 DEF Measured, Begun, Blank, MeasuredSource
<1>4. CASE HeaderMade
  <2>1. Made' /\ MeasuredSource' /\ pc' = "create"
    BY <1>4, HeaderIsMade DEF HeaderMade, Begun, MeasuredSource, Kinds
  <2> QED BY <1>4, <2>1 DEF HeaderMade, Begun
<1>5. CASE TmpCreated
  <2>1. Made /\ MeasuredSource
    BY <1>5 DEF TmpCreated, Begun, Blank
  <2> QED BY <1>5, <2>1, MadeStays DEF TmpCreated, Begun, MeasuredSource
<1>6. CASE HeaderWritten \/ ChunkWritten
  <2>1. Made /\ MeasuredSource
    BY <1>6 DEF HeaderWritten, ChunkWritten, Begun, Blank
  <2>2. "source" \in mishaps <=> "source" \in mishaps'
    BY <1>6, WhatIsWritten, AfterWrite
  <2>3. UNCHANGED <<request, source, measured, header>> /\ pc' \in {"read", "progress"}
    BY <1>6 DEF HeaderWritten, ChunkWritten
  <2>4. Made' /\ MeasuredSource'
    BY <2>1, <2>2, <2>3, MadeStays DEF MeasuredSource
  <2> QED BY <2>3, <2>4 DEF Begun
<1>7. CASE FileRead \/ BufferRead
  BY <1>7, ReadHandsOut, MadeStays DEF Begun, MeasuredSource, Blank
<1>8. CASE NextChunk
  BY <1>8, MadeStays DEF NextChunk, Begun, MeasuredSource, Blank
<1>9. CASE Persisted
  BY <1>9, MadeStays DEF Persisted, Begun, MeasuredSource, Blank
<1>10. CASE Dropped
  <2>1. "source" \in mishaps => "source" \in mishaps'
    BY <1>10 DEF Dropped
  <2>2. CASE Blank
    <3>1. tmp' = NoFile
      BY <1>10, <2>2 DEF Dropped, Blank, NoFile
    <3> QED BY <1>10, <2>2, <3>1 DEF Dropped, Begun, Blank
  <2>3. CASE ~Blank
    BY <1>10, <2>1, <2>3, MadeStays DEF Dropped, Begun, MeasuredSource
  <2> QED BY <2>2, <2>3
<1>11. CASE SourceChanges
  <2>1. CASE pc = "check"
    BY <1>11, <2>1 DEF SourceChanges, Begun, Blank
  <2>2. CASE pc # "check"
    <3>1. MeasuredSource' /\ UNCHANGED <<request, pc, measured, header>>
      BY <1>11, <2>2 DEF SourceChanges, MeasuredSource
    <3>2. Blank => Blank'
      BY <1>11 DEF SourceChanges, Blank
    <3>3. UNCHANGED <<index, chunk, ahead, sealed, tmp>>
      BY <1>11 DEF SourceChanges
    <3> QED BY <3>1, <3>2, <3>3, MadeStays DEF Begun
  <2> QED BY <2>1, <2>2
<1>12. CASE UNCHANGED vars
  BY <1>12, MadeStays DEF vars, Begun, Blank, MeasuredSource
<1> QED BY <1>1, <1>2, <1>3, <1>4, <1>5, <1>6, <1>7, <1>8, <1>9, <1>10, <1>11, <1>12, StepKinds

LEMMA ReadNext == EncryptInv /\ [Next]_vars => ReadSoFar'
<1> SUFFICES ASSUME EncryptInv, [Next]_vars PROVE ReadSoFar'
  OBVIOUS
<1> USE DEF EncryptInv
<1>1. CASE Returns
  BY <1>1 DEF Returns, Return, ReadSoFar
<1>2. CASE MovesOn
  BY <1>2 DEF MovesOn, ReadSoFar
<1>3. CASE Measured
  BY <1>3 DEF Measured, ReadSoFar
<1>4. CASE HeaderMade
  BY <1>4 DEF HeaderMade, ReadSoFar
<1>5. CASE TmpCreated
  BY <1>5 DEF TmpCreated, ReadSoFar
<1>6. CASE HeaderWritten
  <2>1. Made /\ index = 0 /\ chunk = <<>> /\ ahead = <<>>
    BY <1>6 DEF HeaderWritten, Begun, Blank
  <2>2. UNCHANGED <<source, header, index, chunk, ahead>> /\ pc' = "read"
    BY <1>6 DEF HeaderWritten
  <2>3. /\ HasSizes(header) /\ SizesConsistent(header)
    BY <2>1 DEF Made
  <2>4. 0 < header.total_chunks
    BY <2>3, AcceptedCount DEF IsCeil
  <2>5. 0 <= ExpectedLen(header, 0)
    BY <2>1, <2>4, ChunkOfHeader
  <2>6. index' < header'.total_chunks /\ Len(chunk') <= Want'
    BY <2>1, <2>2, <2>4, <2>5 DEF Want
  <2>7. \A start : Placed(<<>>, start) /\ OfVersion(<<>>, start)
    BY DEF Placed, OfVersion
  <2> QED BY <2>1, <2>2, <2>6, <2>7 DEF ReadSoFar
<1>7. CASE ChunkWritten
  <2>1. pc = "read" /\ Missing = 0
    BY <1>7 DEF ChunkWritten
  <2>2. Made
    BY <2>1 DEF Begun, Blank
  <2>3. index \in Nat /\ index < header.total_chunks /\ Len(chunk) \in Nat
    BY <2>1 DEF ReadSoFar, Kinds, TypeOK
  <2>4. Want \in Nat
    BY <2>2, <2>3, ChunkOfHeader DEF Want
  <2>5. Len(chunk) = Want
    BY <2>1, <2>3, <2>4 DEF Missing
  <2>6. UNCHANGED <<source, header, index, chunk, ahead>> /\ pc' = "progress"
    BY <1>7 DEF ChunkWritten
  <2>7. "source" \in mishaps <=> "source" \in mishaps'
    BY <1>7, WhatIsWritten, AfterWrite
  <2>8. Want' = Want
    BY <2>6 DEF Want
  <2> QED BY <2>1, <2>5, <2>6, <2>7, <2>8 DEF ReadSoFar
<1>8. CASE FileRead \/ BufferRead
  <2>1. UNCHANGED <<source, mishaps, pc, header, index>> /\ pc = "read"
    BY <1>8, ReadHandsOut
  <2>2. Want' = Want
    BY <2>1 DEF Want
  <2>3. index < header.total_chunks
    BY <2>1 DEF ReadSoFar
  <2> QED BY <1>8, <2>1, <2>2, <2>3, AfterRead DEF ReadSoFar
<1>9. CASE NextChunk
  <2>1. pc = "progress" /\ pc' = "read" /\ chunk' = <<>> /\ index' = index + 1
        /\ UNCHANGED <<source, mishaps, header, ahead>>
    BY <1>9 DEF NextChunk
  <2>2. Made /\ index \in Nat /\ index < header.total_chunks /\ Len(chunk) = Want
        /\ Placed(ahead, header.chunk_size * index + Len(chunk))
    BY <2>1 DEF Begun, Blank, ReadSoFar, Kinds, TypeOK
  <2>3. header.total_chunks \in Nat
    BY <2>2 DEF Made, HasSizes
  <2>4. index + 1 < header.total_chunks
    BY <1>9, <2>2, <2>3 DEF NextChunk, IsLast
  <2>5. header.chunk_size * (index + 1) = header.chunk_size * index + Want
    BY <2>2, <2>4, ChunkOfHeader DEF Want
  <2>6. index + 1 \in Nat
    BY <2>2
  <2>7. /\ ExpectedLen(header, index + 1) \in Nat
        /\ header.chunk_size * (index + 1) \in Nat
    BY <2>2, <2>4, <2>6, ChunkOfHeader
  <2>8. Placed(ahead, header.chunk_size * (index + 1) + 0)
    BY <2>2, <2>5, <2>7
  <2>9. /\ Placed(<<>>, header.chunk_size * (index + 1))
        /\ OfVersion(<<>>, source.version)
        /\ Len(<<>>) = 0
    BY DEF Placed, OfVersion
  <2>10. index' < header'.total_chunks /\ Len(chunk') <= Want'
    BY <2>1, <2>4, <2>7, <2>9 DEF Want
  <2> QED BY <2>1, <2>8, <2>9, <2>10 DEF ReadSoFar
<1>10. CASE Persisted
  BY <1>10 DEF Persisted, ReadSoFar
<1>11. CASE Dropped
  BY <1>11 DEF Dropped, ReadSoFar
<1>12. CASE SourceChanges
  <2>1. UNCHANGED <<pc, header, index, chunk, ahead>>
    BY <1>12 DEF SourceChanges
  <2>2. CASE pc = "check"
    <3>1. chunk = <<>> /\ ahead = <<>>
      BY <2>2 DEF Begun
    <3>2. OfVersion(chunk', source'.version) /\ OfVersion(ahead', source'.version)
      BY <2>1, <3>1 DEF OfVersion
    <3> QED BY <2>1, <2>2, <3>2 DEF ReadSoFar
  <2>3. CASE pc # "check"
    <3>1. "source" \in mishaps'
      BY <1>12, <2>3 DEF SourceChanges
    <3>2. Want' = Want
      BY <2>1 DEF Want
    <3> QED BY <2>1, <3>1, <3>2 DEF ReadSoFar
  <2> QED BY <2>2, <2>3
<1>13. CASE UNCHANGED vars
  BY <1>13 DEF vars, ReadSoFar, Want
<1> QED BY <1>1, <1>2, <1>3, <1>4, <1>5, <1>6, <1>7, <1>8, <1>9, <1>10, <1>11, <1>12, <1>13,
           StepKinds

\* Boxes that were sealed stay what they are.
LEMMA BoxesStay ==
    ASSUME NEW j, ChunkSealed(j), sealed'[j] = sealed[j], UNCHANGED <<request, header>>,
           "source" \notin mishaps' => "source" \notin mishaps /\ source' = source
    PROVE  ChunkSealed(j)'
<1>1. sealed'[j].text \in Seq(Bytes) /\ Len(sealed'[j].text) = ExpectedLen(header', j - 2)
      /\ Placed(sealed'[j].text, header'.chunk_size * (j - 2))
  BY DEF ChunkSealed
<1>2. (sealed[j] = ChunkBox(j - 2, sealed[j].text))'
  <2>1. sealed'[j] = ChunkBox(j - 2, sealed[j].text)
    BY DEF ChunkSealed
  <2> QED BY <2>1 DEF ChunkBox, Key
<1>3. "source" \notin mishaps' => OfVersion(sealed'[j].text, source'.version)
  BY DEF ChunkSealed
<1> QED BY <1>1, <1>2, <1>3 DEF ChunkSealed

LEMMA SealedNext == EncryptInv /\ [Next]_vars => SealedSoFar'
<1> SUFFICES ASSUME EncryptInv, [Next]_vars PROVE SealedSoFar'
  OBVIOUS
<1> USE DEF EncryptInv
<1>1. ASSUME UNCHANGED <<request, header, sealed>>,
             "source" \notin mishaps' => "source" \notin mishaps /\ source' = source
      PROVE  /\ sealed' # <<>> =>
                   sealed'[1] = HeaderSeal' /\ Len(sealed') <= header'.total_chunks + 1
             /\ \A j \in 2..Len(sealed') : ChunkSealed(j)'
  BY <1>1, SamePieces, BoxesStay DEF SealedSoFar
<1>2. CASE Returns
  BY <1>1, <1>2 DEF Returns, Return, SealedSoFar
<1>3. CASE (LastChunk \/ Flushed \/ Verified \/ Killed) /\ MovesOn
  <2>1. UNCHANGED <<request, header, sealed, source, mishaps>>
    BY <1>3 DEF MovesOn
  <2>2. CASE LastChunk
    <3>1. pc = "progress" /\ pc' = "flush" /\ index + 1 >= header.total_chunks
      BY <2>2 DEF LastChunk, IsLast
    <3>2. Made /\ index \in Nat /\ index < header.total_chunks /\ Len(sealed) = index + 2
      BY <3>1 DEF Begun, Blank, ReadSoFar, SealedSoFar, Kinds, TypeOK
    <3>3. header.total_chunks \in Nat
      BY <3>2 DEF Made, HasSizes
    <3>4. Len(sealed) = header.total_chunks + 1
      BY <3>1, <3>2, <3>3
    <3> QED BY <1>1, <2>1, <3>1, <3>4 DEF SealedSoFar
  <2>3. CASE Flushed \/ Verified
    BY <1>1, <2>1, <2>3 DEF Flushed, Verified, SealedSoFar
  <2>4. CASE Killed
    BY <1>1, <2>1, <2>4 DEF Killed, SealedSoFar
  <2> QED BY <1>3, <2>2, <2>3, <2>4
<1>4. CASE Measured
  BY <1>1, <1>4 DEF Measured, SealedSoFar
<1>5. CASE HeaderMade
  <2>1. sealed' = <<>> /\ pc' = "create"
    BY <1>5 DEF HeaderMade, Begun
  <2> QED BY <2>1 DEF SealedSoFar
<1>6. CASE TmpCreated
  BY <1>1, <1>6 DEF TmpCreated, SealedSoFar
<1>7. CASE HeaderWritten
  <2>1. Made /\ sealed = <<>> /\ index = 0
    BY <1>7 DEF HeaderWritten, Begun, Blank
  <2>2. sealed' = Append(sealed, HeaderSeal) /\ pc' = "read"
        /\ UNCHANGED <<request, header, index>>
    BY <1>7 DEF HeaderWritten
  <2>3. HeaderSeal \in Pieces
    BY DEF Pieces
  <2>4. Len(sealed') = 1 /\ sealed'[1] = HeaderSeal
    BY <2>1, <2>2, <2>3, Appended DEF Kinds
  <2>5. header.total_chunks \in Nat
    BY <2>1 DEF Made, HasSizes
  <2> QED BY <2>1, <2>2, <2>4, <2>5, SamePieces DEF SealedSoFar
<1>8. CASE ChunkWritten
  <2>1. pc = "read" /\ Missing = 0 /\ pc' = "progress" /\ sealed' = Append(sealed, ChunkSeal)
        /\ UNCHANGED <<request, header, source, index, chunk>>
    BY <1>8 DEF ChunkWritten
  <2>2. /\ Made /\ index \in Nat /\ index < header.total_chunks /\ chunk \in Seq(Bytes)
        /\ Len(sealed) = index + 1 /\ sealed \in Seq(Pieces)
    BY <2>1 DEF Begun, Blank, ReadSoFar, SealedSoFar, Kinds, TypeOK
  <2>3. header.total_chunks \in Nat
    BY <2>2 DEF Made, HasSizes
  <2>4. ChunkSeal = ChunkBox(index, chunk) /\ ChunkSeal \in Pieces
    <3>1. ChunkSeal = ChunkBox(index, chunk)
      BY DEF ChunkSeal, ChunkBox
    <3> QED BY <2>2, <3>1 DEF Pieces
  <2>5. /\ Len(sealed') = index + 2 /\ sealed'[index + 2] = ChunkBox(index, chunk)
        /\ \A j \in 1..(index + 1) : sealed'[j] = sealed[j]
    BY <2>1, <2>2, <2>4, Appended
  <2>6. "source" \notin mishaps' => "source" \notin mishaps /\ source' = source
    BY <1>8, <2>1, WhatIsWritten, AfterWrite
  <2>7. ASSUME NEW j \in 2..(index + 1) PROVE ChunkSealed(j)'
    <3>1. ChunkSealed(j) /\ sealed'[j] = sealed[j]
      BY <2>2, <2>5, <2>7 DEF SealedSoFar
    <3> QED BY <2>1, <2>6, <3>1, BoxesStay
  <2>8. ASSUME NEW j, j = index + 2 PROVE ChunkSealed(j)'
    <3>1. sealed'[j] = ChunkBox(index, chunk) /\ sealed'[j].text = chunk
      BY <2>5, <2>8 DEF ChunkBox, Seal
    <3>2. j - 2 = index
      BY <2>2, <2>8
    <3>3. Len(chunk) = ExpectedLen(header, index)
      <4>1. Want \in Nat
        BY <2>2, ChunkOfHeader DEF Want
      <4> QED BY <2>1, <2>2, <4>1 DEF Missing, Want
    <3>4. Placed(chunk, header.chunk_size * index)
          /\ ("source" \notin mishaps => OfVersion(chunk, source.version))
      BY <2>1 DEF ReadSoFar
    <3>5. (sealed[j] = ChunkBox(j - 2, sealed[j].text))'
      BY <2>1, <3>1, <3>2 DEF ChunkBox, Key
    <3> QED BY <2>1, <2>2, <2>6, <3>1, <3>2, <3>3, <3>4, <3>5 DEF ChunkSealed
  <2>9. \A j \in 2..Len(sealed') : ChunkSealed(j)'
    BY <2>2, <2>5, <2>7, <2>8
  <2>10. sealed'[1] = HeaderSeal'
    <3>1. sealed # <<>> /\ 1 \in 1..(index + 1)
      BY <2>2
    <3> QED BY <2>1, <2>5, <3>1, SamePieces DEF SealedSoFar
  <2>11. Len(sealed') <= header'.total_chunks + 1 /\ Len(sealed') = index' + 2
    BY <2>1, <2>2, <2>3, <2>5
  <2> QED BY <2>1, <2>9, <2>10, <2>11 DEF SealedSoFar
<1>9. CASE FileRead \/ BufferRead
  BY <1>1, <1>9, ReadHandsOut DEF SealedSoFar
<1>10. CASE NextChunk
  <2>1. pc = "progress" /\ index \in Nat
    BY <1>10 DEF NextChunk, Kinds, TypeOK
  <2> QED BY <1>1, <1>10, <2>1 DEF NextChunk, SealedSoFar
<1>11. CASE Persisted
  BY <1>1, <1>11 DEF Persisted, SealedSoFar
<1>12. CASE Dropped
  BY <1>1, <1>12 DEF Dropped, SealedSoFar
<1>13. CASE SourceChanges
  <2>1. UNCHANGED <<request, pc, header, index, sealed>>
    BY <1>13 DEF SourceChanges
  <2>2. CASE pc = "check"
    <3>1. sealed' = <<>>
      BY <2>1, <2>2 DEF Begun
    <3> QED BY <2>1, <2>2, <3>1 DEF SealedSoFar
  <2>3. CASE pc # "check"
    BY <1>1, <1>13, <2>1, <2>3 DEF SourceChanges, SealedSoFar
  <2> QED BY <2>2, <2>3
<1>14. CASE UNCHANGED vars
  BY <1>1, <1>14 DEF vars, SealedSoFar
<1> QED BY <1>2, <1>3, <1>4, <1>5, <1>6, <1>7, <1>8, <1>9, <1>10, <1>11, <1>12, <1>13, <1>14,
           StepKinds

LEMMA WireNext == EncryptInv /\ [Next]_vars => WireSoFar'
<1> SUFFICES ASSUME EncryptInv, [Next]_vars PROVE WireSoFar'
  OBVIOUS
<1> USE DEF EncryptInv
<1>1. ASSUME UNCHANGED <<header, sealed, tmp>> PROVE OwnWire(tmp.wire)'
  BY <1>1 DEF WireSoFar, OwnWire
<1>2. CASE Returns
  BY <1>1, <1>2 DEF Returns, Return, WireSoFar
<1>3. CASE (LastChunk \/ Flushed \/ Verified \/ Killed) /\ MovesOn
  BY <1>1, <1>3 DEF LastChunk, Flushed, Verified, Killed, MovesOn, WireSoFar
<1>4. CASE Measured
  BY <1>1, <1>4 DEF Measured, WireSoFar
<1>5. CASE HeaderMade
  <2>1. tmp'.wire = <<>> /\ pc' = "create"
    BY <1>5 DEF HeaderMade, Begun
  <2> QED BY <2>1 DEF WireSoFar, OwnWire
<1>6. CASE TmpCreated
  <2>1. tmp'.wire = <<>> /\ pc' = "header"
    BY <1>6 DEF TmpCreated
  <2> QED BY <2>1 DEF WireSoFar, OwnWire
<1>7. CASE HeaderWritten \/ ChunkWritten
  <2>1. PICK kept \in Seq(Pieces), box \in Pieces, pieces \in Seq(Pieces) :
              /\ Written(kept, pieces)
              /\ sealed' = Append(sealed, box)
              /\ \A k \in 1..Len(kept) : kept[k] \in {HeaderPiece(header), box, Noise}
              /\ \/ HeaderWritten /\ box = HeaderSeal /\ pieces = <<HeaderPiece(header), box>>
                 \/ ChunkWritten /\ box = ChunkSeal /\ pieces = <<box>>
    BY <1>7, WhatIsWritten
  <2>2. /\ tmp'.wire = tmp.wire \o kept
        /\ "storage" \notin mishaps' => kept = pieces /\ "storage" \notin mishaps
    BY <2>1, AfterWrite
  <2>3. header' = header
    BY <1>7 DEF HeaderWritten, ChunkWritten
  <2>4. /\ sealed \in Seq(Pieces) /\ tmp.wire \in Seq(Pieces)
        /\ Len(sealed) \in Nat /\ Len(tmp.wire) \in Nat /\ Len(kept) \in Nat
    BY DEF Kinds
  <2>5. /\ Len(sealed') = Len(sealed) + 1 /\ sealed'[Len(sealed) + 1] = box
        /\ \A j \in 1..Len(sealed) : sealed'[j] = sealed[j]
    BY <2>1, <2>4, Appended
  <2>6. /\ Len(tmp'.wire) = Len(tmp.wire) + Len(kept)
        /\ \A k \in 1..Len(tmp'.wire) :
              tmp'.wire[k] = IF k <= Len(tmp.wire) THEN tmp.wire[k] ELSE kept[k - Len(tmp.wire)]
    BY <2>2, <2>4, ConcatProperties
  <2>7. ASSUME NEW k \in 1..Len(tmp'.wire)
        PROVE  \/ tmp'.wire[k] \in {Noise, HeaderPiece(header)}
               \/ \E j \in 1..Len(sealed') : tmp'.wire[k] = sealed'[j]
    <3>1. CASE k <= Len(tmp.wire)
      <4>1. k \in 1..Len(tmp.wire) /\ tmp'.wire[k] = tmp.wire[k]
        BY <2>4, <2>6, <3>1
      <4>2. \/ tmp.wire[k] \in {Noise, HeaderPiece(header)}
            \/ \E j \in 1..Len(sealed) : tmp.wire[k] = sealed[j]
        BY <4>1 DEF WireSoFar, OwnWire
      <4> QED BY <2>4, <2>5, <4>1, <4>2
    <3>2. CASE k > Len(tmp.wire)
      <4>1. /\ k - Len(tmp.wire) \in 1..Len(kept)
            /\ tmp'.wire[k] = kept[k - Len(tmp.wire)]
        BY <2>4, <2>6, <3>2
      <4>2. tmp'.wire[k] \in {HeaderPiece(header), box, Noise}
        BY <2>1, <4>1
      <4>3. Len(sealed) + 1 \in 1..Len(sealed')
        BY <2>4, <2>5
      <4> QED BY <2>5, <4>2, <4>3
    <3> QED BY <2>4, <3>1, <3>2
  <2>8. OwnWire(tmp.wire)'
    BY <2>3, <2>7 DEF OwnWire
  <2>9. ASSUME "storage" \notin mishaps'
        PROVE  tmp'.wire = <<HeaderPiece(header)>> \o sealed'
    <3>1. kept = pieces /\ "storage" \notin mishaps
      BY <2>2, <2>9
    <3>2. HeaderPiece(header) \in Pieces
      BY DEF Pieces
    <3> DEFINE p == HeaderPiece(header)
    <3>3. p \in Pieces
      BY <3>2
    <3> HIDE DEF p
    <3>4. CASE HeaderWritten /\ pieces = <<p, box>>
      <4>1. sealed = <<>> /\ tmp.wire = <<>>
        BY <3>4 DEF HeaderWritten, Begun
      <4>2. tmp'.wire = <<p, box>>
        BY <2>2, <3>1, <3>3, <3>4, <4>1
      <4>3. sealed' = <<box>>
        BY <2>1, <4>1
      <4>4. <<p, box>> = <<p>> \o <<box>>
        OBVIOUS
      <4> QED BY <4>2, <4>3, <4>4 DEF p
    <3>5. CASE ChunkWritten /\ pieces = <<box>>
      <4>1. tmp.wire = <<p>> \o sealed
        BY <3>1, <3>5 DEF ChunkWritten, WireSoFar, p
      <4>2. tmp'.wire = (<<p>> \o sealed) \o <<box>>
        BY <2>2, <3>1, <3>5, <4>1
      <4>3. (<<p>> \o sealed) \o <<box>> = <<p>> \o (sealed \o <<box>>)
        BY <2>4, <3>3, ConcatAssociative
      <4>4. sealed \o <<box>> = Append(sealed, box)
        BY <2>4
      <4> QED BY <2>1, <4>2, <4>3, <4>4 DEF p
    <3> QED BY <2>1, <3>4, <3>5 DEF p
  <2> QED BY <2>3, <2>8, <2>9 DEF WireSoFar
<1>8. CASE FileRead \/ BufferRead
  BY <1>1, <1>8, ReadHandsOut DEF WireSoFar
<1>9. CASE NextChunk
  BY <1>1, <1>9 DEF NextChunk, WireSoFar
<1>10. CASE Persisted
  <2>1. tmp'.wire = <<>> /\ pc' = "drop"
    BY <1>10 DEF Persisted, NoFile
  <2> QED BY <2>1 DEF WireSoFar, OwnWire
<1>11. CASE Dropped
  <2>1. pc' = "done" /\ UNCHANGED <<header, sealed>>
    BY <1>11 DEF Dropped
  <2>2. CASE tmp' = NoFile
    BY <2>1, <2>2 DEF NoFile, WireSoFar, OwnWire
  <2>3. CASE UNCHANGED tmp
    BY <1>1, <2>1, <2>3 DEF WireSoFar
  <2> QED BY <1>11, <2>2, <2>3 DEF Dropped
<1>12. CASE SourceChanges
  BY <1>1, <1>12 DEF SourceChanges, WireSoFar
<1>13. CASE UNCHANGED vars
  BY <1>1, <1>13 DEF vars, WireSoFar
<1> QED BY <1>2, <1>3, <1>4, <1>5, <1>6, <1>7, <1>8, <1>9, <1>10, <1>11, <1>12, <1>13, StepKinds

LEMMA SealOpens ==
    ASSUME NEW key, NEW nonce, NEW aad, NEW text
    PROVE  Opens(Seal(key, nonce, aad, text), key, nonce, aad, Len(text))
<1> DEFINE box == Seal(key, nonce, aad, text)
<1>1. box.part = "box" /\ box.key = key /\ box.nonce = nonce /\ box.aad = aad /\ box.text = text
  BY DEF Seal
<1> HIDE DEF box
<1>2. Opens(box, key, nonce, aad, Len(text))
  BY <1>1 DEF Opens
<1> QED BY <1>2 DEF box

\* What encryption writes, decryption accepts.
LEMMA SealedVerifies ==
    ASSUME Kinds, Made, SealedSoFar, Len(sealed) = header.total_chunks + 1,
           NEW wire, wire = <<HeaderPiece(header)>> \o sealed
    PROVE  Verifies(request, wire)
<1> DEFINE n == header.total_chunks
           key == KeyFor(request.version, request.secret, header)
<1>1. n \in Nat \ {0}
  BY AcceptedCount DEF Made, IsCeil
<1>2. sealed \in Seq(Pieces) /\ Len(sealed) = n + 1 /\ sealed # <<>>
  BY <1>1 DEF Kinds
<1>3. HeaderPiece(header) \in Pieces
  BY DEF Pieces
<1> DEFINE p == HeaderPiece(header)
<1>4. p \in Pieces
  BY <1>3
<1>5. p.part = "header" /\ p.of = header
  BY DEF HeaderPiece
<1> HIDE DEF p
<1>6. /\ Len(wire) = n + 2 /\ wire[1] = p
      /\ \A k \in 2..(n + 2) : wire[k] = sealed[k - 1]
  <2>1. <<p>> \in Seq(Pieces) /\ Len(<<p>>) = 1 /\ <<p>>[1] = p
    BY <1>4
  <2>2. wire = <<p>> \o sealed
    BY DEF p
  <2> QED BY <1>1, <1>2, <2>1, <2>2, ConcatProperties
<1>7. Key = key
  BY DEF Key
<1>8. Opens(wire[2], key, DeriveNonce(header.base_nonce, HeaderCounter), HeaderAad(header), 0)
  <2>1. wire[2] = HeaderSeal
    BY <1>1, <1>2, <1>6 DEF SealedSoFar
  <2>2. Len(<<>>) = 0
    OBVIOUS
  <2>3. HeaderSeal = Seal(key, DeriveNonce(header.base_nonce, HeaderCounter),
                          HeaderAad(header), <<>>)
    BY <1>7 DEF HeaderSeal
  <2> QED BY <2>1, <2>2, <2>3, SealOpens
<1>9. ASSUME NEW i \in 0..(n - 1)
      PROVE  Opens(wire[i + 3], key, DeriveNonce(header.base_nonce, i), ChunkAad(header, i),
                   ExpectedLen(header, i))
  <2>1. wire[i + 3] = sealed[i + 2]
    <3>1. i + 3 \in 2..(n + 2) /\ (i + 3) - 1 = i + 2
      BY <1>1
    <3> QED BY <1>6, <3>1
  <2>2. ChunkSealed(i + 2) /\ (i + 2) - 2 = i
    BY <1>1, <1>2 DEF SealedSoFar
  <2>3. /\ sealed[i + 2] = ChunkBox(i, sealed[i + 2].text)
        /\ Len(sealed[i + 2].text) = ExpectedLen(header, i)
    BY <2>2 DEF ChunkSealed
  <2> DEFINE text == sealed[i + 2].text
  <2>4. sealed[i + 2] = Seal(key, DeriveNonce(header.base_nonce, i), ChunkAad(header, i), text)
    BY <1>7, <2>3 DEF ChunkBox
  <2>5. Len(text) = ExpectedLen(header, i)
    BY <2>3
  <2> HIDE DEF text
  <2> QED BY <2>1, <2>4, <2>5, SealOpens
<1>10. Len(wire) >= 2 /\ Len(wire) = 2 + n
  BY <1>1, <1>6
<1>11. Parses(header, request.version) /\ (request.version = 1 => Derivable(header))
  BY DEF Made
<1> HIDE DEF n, key
<1>12. wire[1].part = "header" /\ wire[1].of = header
  BY <1>5, <1>6
<1> QED BY <1>8, <1>9, <1>10, <1>11, <1>12 DEF Verifies, n, key

\* The output file has not been touched before the rename.
LEMMA Untouched ==
    ASSUME Outcome, pc \notin {"drop", "done", "killed"}
    PROVE  dest = BeforeUs /\ result = "none"
BY DEF Outcome

LEMMA OutcomeNext == EncryptInv /\ [Next]_vars => Outcome'
<1> SUFFICES ASSUME EncryptInv, [Next]_vars PROVE Outcome'
  OBVIOUS
<1> USE DEF EncryptInv
<1>1. /\ "none" \notin DecryptErrors /\ "Ok" \notin DecryptErrors
      /\ "Io" \notin DecryptErrors /\ "Cancelled" \notin DecryptErrors
      /\ "Ok" \notin Errors /\ "none" \notin Errors
  BY DEF DecryptErrors, Errors
\* A step that leaves the output and the boxes alone.
<1>2. ASSUME UNCHANGED <<request, header, sealed, dest>> PROVE
        dest' # BeforeUs =>
          /\ dest' = ByUs(dest'.wire)
          /\ dest'.wire \in Seq(Pieces')
          /\ Verifies(request', dest'.wire)
          /\ OwnWire(dest.wire)'
  <2>1. Pieces' = Pieces
    BY <1>2, SamePieces
  <2> QED BY <1>2, <2>1 DEF Outcome, OwnWire
<1>3. CASE /\ \/ RecipientsRefused \/ ParamsRefused \/ SourceTooShort \/ VerificationFails
              \/ CallbackCancels \/ IoFails
           /\ Returns
  <2>1. pc \notin {"drop", "done", "killed"}
    BY <1>3 DEF RecipientsRefused, ParamsRefused, SourceTooShort, VerificationFails,
                CallbackCancels, IoFails
  <2>2. dest = BeforeUs
    BY <2>1, Untouched
  <2>3. /\ result' \in Errors /\ pc' = "drop"
        /\ UNCHANGED <<request, mishaps, header, sealed, tmp, dest>>
    BY <1>3 DEF Returns, Return
  <2>4. result' \in DecryptErrors /\ sealed' # <<>> => "storage" \in mishaps'
    <3> SUFFICES ASSUME result' \in DecryptErrors, sealed # <<>>, "storage" \notin mishaps
                 PROVE  FALSE
      BY <2>3
    <3>1. CASE RecipientsRefused \/ ParamsRefused
      BY <3>1 DEF RecipientsRefused, ParamsRefused, Begun
    <3>2. CASE SourceTooShort \/ CallbackCancels \/ IoFails
      BY <1>1, <3>2 DEF SourceTooShort, CallbackCancels, IoFails, Return
    <3>3. CASE VerificationFails
      <4>1. pc = "verify" /\ ~Verifies(request, tmp.wire)
        BY <3>3 DEF VerificationFails
      <4>2. /\ Made /\ Len(sealed) = header.total_chunks + 1
            /\ tmp.wire = <<HeaderPiece(header)>> \o sealed
        BY <4>1 DEF Begun, Blank, SealedSoFar, WireSoFar
      <4> QED BY <4>1, <4>2, SealedVerifies
    <3> QED BY <1>3, <3>1, <3>2, <3>3
  <2> QED BY <1>1, <2>2, <2>3, <2>4 DEF Outcome, OnlyStorageFailsVerification
<1>4. CASE (LastChunk \/ Flushed \/ Verified \/ Killed) /\ MovesOn
  <2>1. UNCHANGED <<request, mishaps, header, sealed, tmp, dest, result>>
    BY <1>4 DEF MovesOn
  <2>2. CASE LastChunk \/ Flushed \/ Verified
    <3>1. pc \notin {"drop", "done", "killed"} /\ pc' \notin {"drop", "done", "killed"}
          /\ (pc' = "persist" => Verifies(request, tmp.wire))
      BY <2>2 DEF LastChunk, Flushed, Verified
    <3>2. dest = BeforeUs /\ result = "none"
      BY <3>1, Untouched
    <3> QED BY <1>1, <2>1, <3>1, <3>2 DEF Outcome, OnlyStorageFailsVerification
  <2>3. CASE Killed
    BY <1>2, <2>1, <2>3 DEF Killed, Outcome, OnlyStorageFailsVerification
  <2> QED BY <1>4, <2>2, <2>3
<1>5. CASE \/ Measured \/ HeaderMade \/ TmpCreated \/ HeaderWritten \/ FileRead \/ BufferRead
           \/ ChunkWritten \/ NextChunk
  <2>1. pc \notin {"drop", "done", "killed"} /\ UNCHANGED <<dest, result>>
        /\ pc' \in {"key", "create", "header", "read", "progress"}
    BY <1>5 DEF Measured, HeaderMade, TmpCreated, HeaderWritten, FileRead, BufferRead,
                ChunkWritten, NextChunk
  <2>2. dest = BeforeUs /\ result = "none"
    BY <2>1, Untouched
  <2> QED BY <1>1, <2>1, <2>2 DEF Outcome, OnlyStorageFailsVerification
<1>6. CASE Persisted
  <2>1. /\ pc = "persist" /\ dest' = ByUs(tmp.wire) /\ result' = "Ok" /\ pc' = "drop"
        /\ UNCHANGED <<request, header, sealed>>
    BY <1>6 DEF Persisted
  <2>2. dest'.by = "us" /\ dest'.wire = tmp.wire /\ dest'.by # BeforeUs.by
    BY <2>1 DEF ByUs, BeforeUs
  <2>3. tmp.wire \in Seq(Pieces') /\ Verifies(request, tmp.wire) /\ OwnWire(tmp.wire)
    BY <2>1, SamePieces DEF Kinds, Outcome, WireSoFar
  <2>4. OwnWire(dest.wire)'
    BY <2>1, <2>2, <2>3 DEF OwnWire
  <2>5. dest' # BeforeUs
    BY <2>2
  <2>6. dest' = ByUs(dest'.wire)
    BY <2>1, <2>2
  <2> QED BY <1>1, <2>1, <2>2, <2>3, <2>4, <2>5, <2>6 DEF Outcome, OnlyStorageFailsVerification
<1>7. CASE Dropped
  <2>1. /\ pc = "drop" /\ pc' = "done"
        /\ UNCHANGED <<request, header, sealed, dest, result>>
        /\ mishaps \subseteq mishaps'
        /\ tmp'.exists => "undeleted" \in mishaps'
    BY <1>7 DEF Dropped, NoFile
  <2> QED BY <1>2, <2>1 DEF Outcome, OnlyStorageFailsVerification
<1>8. CASE SourceChanges
  <2>1. /\ UNCHANGED <<request, pc, header, sealed, tmp, dest, result>>
        /\ mishaps \subseteq mishaps'
    BY <1>8 DEF SourceChanges
  <2> QED BY <1>2, <2>1 DEF Outcome, OnlyStorageFailsVerification
<1>9. CASE UNCHANGED vars
  <2>1. UNCHANGED <<request, pc, mishaps, header, sealed, tmp, dest, result>>
    BY <1>9 DEF vars
  <2> QED BY <1>2, <2>1 DEF Outcome, OnlyStorageFailsVerification
<1> QED BY <1>3, <1>4, <1>5, <1>6, <1>7, <1>8, <1>9, StepKinds

LEMMA EncryptInvHolds == Spec => []EncryptInv
<1>1. EncryptInv /\ [Next]_vars => EncryptInv'
  BY KindsNext, BegunNext, ReadNext, SealedNext, WireNext, OutcomeNext DEF EncryptInv
<1> QED BY <1>1, InvInit, PTL DEF Spec

-----------------------------------------------------------------------------
(* What a published container holds.                                       *)

LEMMA AadsDiffer ==
    /\ \A h, g, i : HeaderAad(h) # ChunkAad(g, i)
    /\ \A h, g, i, j : ChunkAad(h, i) = ChunkAad(g, j) => i = j
<1>1. \A a, b, c, d : <<a>> # <<b, c, d>>
  <2> SUFFICES ASSUME NEW a, NEW b, NEW c, NEW d, <<a>> = <<b, c, d>> PROVE FALSE
    OBVIOUS
  <2>1. Len(<<a>>) = 1 /\ Len(<<b, c, d>>) = 3
    OBVIOUS
  <2> QED BY <2>1
<1> QED BY <1>1 DEF HeaderAad, ChunkAad

\* What the sealed boxes are.
LEMMA SealedParts ==
    ASSUME SealedSoFar, NEW j \in 1..Len(sealed), sealed # <<>>
    PROVE  /\ sealed[j].part = "box"
           /\ sealed[j].key = Key
           /\ sealed[j].nonce = DeriveNonce(header.base_nonce,
                                            IF j = 1 THEN HeaderCounter ELSE j - 2)
           /\ sealed[j].aad = IF j = 1 THEN HeaderAad(header) ELSE ChunkAad(header, j - 2)
<1>1. CASE j = 1
  BY <1>1 DEF SealedSoFar, HeaderSeal, Seal
<1>2. CASE j # 1
  <2>1. sealed[j] = ChunkBox(j - 2, sealed[j].text)
    BY <1>2 DEF SealedSoFar, ChunkSealed
  <2> DEFINE text == sealed[j].text
  <2>2. sealed[j] = Seal(Key, DeriveNonce(header.base_nonce, j - 2), ChunkAad(header, j - 2), text)
    BY <2>1 DEF ChunkBox
  <2> HIDE DEF text
  <2> QED BY <1>2, <2>2 DEF Seal
<1> QED BY <1>1, <1>2

\* Box i of a published container is the box of chunk i.
LEMMA PublishedChunk ==
    ASSUME EncryptInv, dest # BeforeUs
    PROVE  /\ Made /\ MeasuredSource
           /\ Verifies(request, dest.wire)
           /\ dest.wire[1] = HeaderPiece(header)
           /\ \A i \in 0..(header.total_chunks - 1) :
                 /\ i + 2 \in 2..Len(sealed)
                 /\ ChunkSealed(i + 2)
                 /\ dest.wire[i + 3] = sealed[i + 2]
<1> USE DEF EncryptInv
<1>1. Made /\ MeasuredSource
  BY DEF Begun, Blank
<1>2. /\ dest.wire \in Seq(Pieces) /\ Len(dest.wire) \in Nat
      /\ Verifies(request, dest.wire) /\ OwnWire(dest.wire)
  BY DEF Outcome
<1> DEFINE w == dest.wire
<1>3. Len(w) >= 2 /\ w[1].part = "header"
  BY <1>2 DEF Verifies
<1>4. w[1] = HeaderPiece(header)
  <2>1. \/ w[1] \in {Noise, HeaderPiece(header)}
        \/ \E j \in 1..Len(sealed) : w[1] = sealed[j]
    BY <1>2, <1>3 DEF OwnWire
  <2>2. Noise.part # "header"
    BY DEF Noise
  <2>3. ASSUME NEW j \in 1..Len(sealed) PROVE sealed[j].part # "header"
    <3>1. sealed # <<>>
      BY <2>3
    <3> QED BY <3>1, SealedParts
  <2> QED BY <1>3, <2>1, <2>2, <2>3
<1>5. w[1].of = header
  BY <1>4 DEF HeaderPiece
<1>6. header.total_chunks \in Nat
  BY <1>1 DEF Made, HasSizes
<1>7. ASSUME NEW i \in 0..(header.total_chunks - 1)
      PROVE  /\ i + 2 \in 2..Len(sealed) /\ ChunkSealed(i + 2)
             /\ w[i + 3] = sealed[i + 2]
  <2> DEFINE p == w[i + 3]
  <2>1. Opens(p, KeyFor(request.version, request.secret, header),
              DeriveNonce(header.base_nonce, i), ChunkAad(header, i), ExpectedLen(header, i))
        /\ Len(w) = 2 + header.total_chunks
    BY <1>2, <1>5 DEF Verifies
  <2>2. p.part = "box" /\ p.aad = ChunkAad(header, i)
    BY <2>1 DEF Opens
  <2>3. i + 3 \in 1..Len(w)
    BY <1>6, <2>1
  <2>4. \/ p \in {Noise, HeaderPiece(header)}
        \/ \E j \in 1..Len(sealed) : p = sealed[j]
    BY <1>2, <2>3 DEF OwnWire
  <2>5. Noise.part # "box" /\ HeaderPiece(header).part # "box"
    BY DEF Noise, HeaderPiece
  <2>6. PICK j \in 1..Len(sealed) : p = sealed[j]
    BY <2>2, <2>4, <2>5
  <2>7. sealed # <<>>
    BY <2>6
  <2>8. p.aad = IF j = 1 THEN HeaderAad(header) ELSE ChunkAad(header, j - 2)
    BY <2>6, <2>7, SealedParts
  <2>9. j # 1
    BY <2>2, <2>8, AadsDiffer
  <2>10. ChunkAad(header, j - 2) = ChunkAad(header, i)
    BY <2>2, <2>8, <2>9
  <2>11. j - 2 = i
    BY <2>10, AadsDiffer
  <2>12. j = i + 2 /\ j \in 2..Len(sealed)
    BY <2>6, <2>9, <2>11
  <2> QED BY <2>6, <2>12 DEF SealedSoFar
<1> QED BY <1>1, <1>2, <1>4, <1>7

LEMMA PublishedIsSound ==
    ASSUME EncryptInv, dest # BeforeUs
    PROVE  Sound(Goal, dest)
<1>1. dest.by = "us"
  <2>1. dest = ByUs(dest.wire)
    BY DEF EncryptInv, Outcome
  <2> QED BY <2>1 DEF ByUs
<1>2. Goal.request = request /\ Goal.header = header /\ Goal.size = measured
  BY DEF Goal
<1>3. ASSUME NEW i \in 0..(header.total_chunks - 1), NEW k \in 1..ExpectedLen(header, i)
      PROVE  dest.wire[i + 3].text[k][2] = header.chunk_size * i + k
  <2>1. ChunkSealed(i + 2) /\ dest.wire[i + 3] = sealed[i + 2] /\ (i + 2) - 2 = i
    BY PublishedChunk
  <2> QED BY <2>1 DEF ChunkSealed, Placed
<1>4. header.total_plaintext_size = measured
  BY PublishedChunk DEF Made
<1>5. Verifies(request, dest.wire) /\ dest.wire[1] = HeaderPiece(header)
  BY PublishedChunk
<1> HIDE DEF Goal
<1> QED BY <1>1, <1>2, <1>3, <1>4, <1>5 DEF Sound

LEMMA OursOrBefore ==
    ASSUME Outcome
    PROVE  dest.by = "us" <=> dest # BeforeUs
<1>1. BeforeUs.by # "us"
  BY DEF BeforeUs
<1>2. \A wire : ByUs(wire).by = "us"
  BY DEF ByUs
<1>3. dest # BeforeUs => dest = ByUs(dest.wire)
  BY DEF Outcome
<1> QED BY <1>1, <1>2, <1>3

-----------------------------------------------------------------------------
(* What holds of every encryption to a file.                               *)

\* encrypt_file: types are kept.
THEOREM EncryptTypeCorrect == Spec => []TypeOK
<1>1. EncryptInv => TypeOK
  BY DEF EncryptInv, Kinds
<1> QED BY <1>1, EncryptInvHolds, PTL

\* encrypt_file: whatever storage, source and process do, the output file is
\* as it was or the whole container of this run, each byte in its place.
THEOREM DestinationAlwaysWhole == Spec => []DestinationIsWhole
<1>1. EncryptInv => DestinationIsWhole
  BY PublishedIsSound, OursOrBefore DEF EncryptInv, DestinationIsWhole
<1> QED BY <1>1, EncryptInvHolds, PTL

\* encrypt_file: from a source nobody touches, the container holds exactly
\* that source.
THEOREM UnchangedSourceAlwaysKept == Spec => []UnchangedSourceIsKept
<1>1. EncryptInv => UnchangedSourceIsKept
  <2> SUFFICES ASSUME EncryptInv, dest.by = "us", "source" \notin mishaps
               PROVE  /\ measured = source.size
                      /\ \A i \in 0..(header.total_chunks - 1) :
                            \A k \in 1..ExpectedLen(header, i) :
                               dest.wire[i + 3].text[k] =
                                  <<source.version, header.chunk_size * i + k>>
    BY DEF UnchangedSourceIsKept
  <2>1. dest # BeforeUs
    BY OursOrBefore DEF EncryptInv
  <2>2. measured = source.size
    BY <2>1, PublishedChunk DEF MeasuredSource
  <2>3. ASSUME NEW i \in 0..(header.total_chunks - 1), NEW k \in 1..ExpectedLen(header, i)
        PROVE  dest.wire[i + 3].text[k] = <<source.version, header.chunk_size * i + k>>
    <3>1. ChunkSealed(i + 2) /\ dest.wire[i + 3] = sealed[i + 2] /\ (i + 2) - 2 = i
      BY <2>1, PublishedChunk
    <3> DEFINE text == dest.wire[i + 3].text
    <3>2. /\ text \in Seq(Bytes) /\ k \in 1..Len(text)
          /\ text[k][2] = header.chunk_size * i + k
          /\ text[k][1] = source.version
      BY <3>1 DEF ChunkSealed, Placed, OfVersion
    <3> HIDE DEF text
    <3>3. text[k] \in (0..MaxChanges) \X Nat
      BY <3>2 DEF Bytes
    <3>4. text[k] = <<text[k][1], text[k][2]>>
      BY <3>3
    <3> QED BY <3>2, <3>4 DEF text
  <2> QED BY <2>2, <2>3
<1> QED BY <1>1, EncryptInvHolds, PTL

\* What is published is whole, and the source's if nobody changed it.
THEOREM PublishedAlwaysWhole == Spec => []PublishedIsWhole
<1>1. DestinationIsWhole /\ UnchangedSourceIsKept => PublishedIsWhole
  BY DEF PublishedIsWhole
<1> QED BY <1>1, DestinationAlwaysWhole, UnchangedSourceAlwaysKept, PTL

\* encrypt_file: an error leaves the output as it was and no temporary file,
\* unless its removal failed; Ok means published.
THEOREM FailuresLeaveNoTrace == Spec => []FailureLeavesNoTrace
<1>1. EncryptInv => FailureLeavesNoTrace
  BY OursOrBefore DEF EncryptInv, Outcome, FailureLeavesNoTrace
<1> QED BY <1>1, EncryptInvHolds, PTL

\* derive_nonce, HEADER_NONCE_COUNTER: no two boxes of a container share a
\* nonce, however many chunks a u64 lets a header have.
THEOREM NoncesAreUnique == Spec => []NoncesNeverRepeat
<1>1. EncryptInv => NoncesNeverRepeat
  <2> SUFFICES ASSUME EncryptInv, NEW i \in 1..Len(sealed), NEW j \in 1..Len(sealed), i # j
               PROVE  sealed[i].nonce # sealed[j].nonce
    BY DEF NoncesNeverRepeat
  <2>1. sealed # <<>>
    OBVIOUS
  <2>2. Made /\ Len(sealed) <= header.total_chunks + 1 /\ SealedSoFar
    BY <2>1 DEF EncryptInv, Begun, Blank, SealedSoFar
  <2>3. 0 < header.total_chunks
    BY <2>2, AcceptedCount DEF Made, IsCeil
  <2>4. header.total_chunks \in 1..U64Max
    BY <2>2, <2>3, ChunkOfHeader
  <2> DEFINE counter(n) == IF n = 1 THEN HeaderCounter ELSE n - 2
  <2>5. Len(sealed) \in Nat
    BY DEF EncryptInv, Kinds
  <2>6. counter(i) \in U64 /\ counter(j) \in U64 /\ counter(i) # counter(j)
    BY <2>2, <2>4, <2>5, ChunkBounds DEF U64, HeaderCounter
  <2>7. /\ sealed[i].nonce = DeriveNonce(header.base_nonce, counter(i))
        /\ sealed[j].nonce = DeriveNonce(header.base_nonce, counter(j))
    BY <2>1, <2>2, SealedParts
  <2>8. header.base_nonce \in BaseNonces
    BY <2>2 DEF Made
  <2> HIDE DEF counter
  <2> QED BY <2>6, <2>7, <2>8, EncryptAssumptions
<1> QED BY <1>1, EncryptInvHolds, PTL

\* verify_encrypted: it refuses nothing that encryption wrote and storage kept.
THEOREM VerificationIsComplete == Spec => []OnlyStorageFailsVerification
<1>1. EncryptInv => OnlyStorageFailsVerification
  BY DEF EncryptInv, Outcome
<1> QED BY <1>1, EncryptInvHolds, PTL

\* encrypt_file replaces its output as AtomicReplace promises.
THEOREM EncryptReplacesAtomically == Spec => ReplacesAtomically
<1>1. Init => Output!Init
  <2> SUFFICES ASSUME Init PROVE Output!Init
    OBVIOUS
  <2>1. Answer = "pending"
    BY DEF Init, Answer
  <2> QED BY <2>1 DEF Init, Output!Init
<1>2. EncryptInv /\ DestinationIsWhole' /\ [Next]_vars => [Output!Next]_(Output!replaceVars)
  <2> SUFFICES ASSUME EncryptInv, DestinationIsWhole', [Next]_vars
               PROVE  [Output!Next]_(Output!replaceVars)
    OBVIOUS
  <2>1. CASE Persisted
    <3>1. Answer = "pending" /\ Answer' = "pending"
      BY <2>1 DEF Persisted, Answer
    <3>2. dest = BeforeUs /\ dest' = ByUs(tmp.wire)
      BY <2>1, Untouched DEF Persisted, EncryptInv
    <3>3. dest' # BeforeUs /\ dest'.by = "us"
      BY <3>2 DEF ByUs, BeforeUs
    <3>4. Goal' = Goal
      BY <2>1 DEF Persisted, Goal
    <3>5. (Sound(Goal, dest))'
      BY <3>3 DEF DestinationIsWhole
    <3>6. Sound(Goal, dest')
      BY <3>4, <3>5
    <3> QED BY <3>1, <3>2, <3>3, <3>4, <3>6 DEF Output!Replace, Output!Next
  <2>2. CASE Dropped
    <3>1. Goal' = Goal /\ dest' = dest /\ Answer = "pending"
      BY <2>2 DEF Dropped, Goal, Answer
    <3>2. CASE result = "Ok"
      <4>1. Answer' = "Ok" /\ dest # BeforeUs
        BY <2>2, <3>2 DEF Dropped, Answer, EncryptInv, Outcome
      <4> QED BY <3>1, <4>1 DEF Output!Succeed, Output!Next
    <3>3. CASE result # "Ok"
      <4>1. Answer' = "failed" /\ dest = BeforeUs
        BY <2>2, <3>3 DEF Dropped, Answer, EncryptInv, Outcome
      <4> QED BY <3>1, <4>1 DEF Output!Fail, Output!Next
    <3> QED BY <3>2, <3>3
  <2>3. CASE Killed
    <3>1. Goal' = Goal /\ dest' = dest
      BY <2>3 DEF Killed, Goal
    <3>2. Answer = "pending" /\ Answer' = "never"
      BY <2>3 DEF Killed, Ended, Answer
    <3> QED BY <3>1, <3>2 DEF Output!Stop, Output!Next
  <2>4. CASE \/ Measured \/ HeaderMade \/ TmpCreated \/ HeaderWritten \/ FileRead \/ BufferRead
             \/ ChunkWritten \/ NextChunk
    <3>1. pc \notin {"drop", "done", "killed"} /\ dest' = dest
          /\ pc' \in {"key", "create", "header", "read", "progress"}
      BY <2>4 DEF Measured, HeaderMade, TmpCreated, HeaderWritten, FileRead, BufferRead,
                  ChunkWritten, NextChunk
    <3>2. dest = BeforeUs
      BY <3>1, Untouched DEF EncryptInv
    <3>3. Answer = "pending" /\ Answer' = "pending"
      BY <3>1 DEF Answer
    <3> QED BY <3>1, <3>2, <3>3 DEF Output!Progress, Output!Next
  <2>5. CASE /\ \/ RecipientsRefused \/ ParamsRefused \/ SourceTooShort \/ VerificationFails
                \/ CallbackCancels \/ IoFails
             /\ Returns
    <3>1. pc \notin {"drop", "done", "killed"} /\ pc' = "drop" /\ dest' = dest /\ Goal' = Goal
      BY <2>5 DEF RecipientsRefused, ParamsRefused, SourceTooShort, VerificationFails,
                  CallbackCancels, IoFails, Returns, Return, Goal
    <3>2. Answer = "pending" /\ Answer' = "pending"
      BY <3>1 DEF Answer
    <3> QED BY <3>1, <3>2 DEF Output!replaceVars
  <2>6. CASE (LastChunk \/ Flushed \/ Verified) /\ MovesOn
    <3>1. pc \notin {"drop", "done", "killed"} /\ pc' \notin {"done", "killed"}
          /\ dest' = dest /\ Goal' = Goal
      BY <2>6 DEF LastChunk, Flushed, Verified, Goal
    <3>2. Answer = "pending" /\ Answer' = "pending"
      BY <3>1 DEF Answer
    <3> QED BY <3>1, <3>2 DEF Output!replaceVars
  <2>7. CASE SourceChanges
    BY <2>7 DEF SourceChanges, Output!replaceVars, Goal, Answer
  <2>8. CASE UNCHANGED vars
    BY <2>8 DEF vars, Output!replaceVars, Goal, Answer
  <2> QED BY <2>1, <2>2, <2>3, <2>4, <2>5, <2>6, <2>7, <2>8, StepKinds
<1> QED BY <1>1, <1>2, EncryptInvHolds, DestinationAlwaysWhole, PTL
        DEF Spec, ReplacesAtomically, Output!Spec
=============================================================================
