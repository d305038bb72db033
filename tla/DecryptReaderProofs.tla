------------------------- MODULE DecryptReaderProofs -------------------------
(***************************************************************************)
(* What decryption guarantees for every input, every set of archives and   *)
(* every width: type correctness, the authenticity of what it releases,    *)
(* the meaning of "Ok", and the redundancy of its final size check.        *)
(***************************************************************************)
EXTENDS DecryptBytes, ContainerDamage, EncLayoutProofs, SequenceTheorems

-----------------------------------------------------------------------------
(* Archives and their boxes.                                               *)

LEMMA ArchiveHeader ==
    ASSUME NEW a \in Archives
    PROVE  /\ HasSizes(HeaderOf[a])
           /\ SizesConsistent(HeaderOf[a])
           /\ HeaderOf[a].total_chunks \in Nat \ {0}
           /\ HeaderOf[a].total_chunks <= U64Max
<1> DEFINE h == HeaderOf[a]
<1>1. HasSizes(h) /\ SizesConsistent(h) /\ ProductFits(h)
  BY ArchivesWellFormed, HeadersHaveSizes DEF Parses, StructureOK
<1>2. h.chunk_size \in Nat \ {0} /\ h.total_chunks \in Nat \ {0}
  BY <1>1, AcceptedCount DEF IsCeil
<1>3. h.chunk_size * h.total_chunks >= 1 * h.total_chunks
  BY <1>2, MulMonotone
<1> QED BY <1>1, <1>2, <1>3, ChunkBounds DEF ProductFits

LEMMA BoxShape ==
    ASSUME NEW b \in Boxes
    PROVE  /\ b[1] \in Archives
           /\ b = <<b[1], b[2]>>
           /\ b[2] \in Nat
           /\ TextLen(b) \in Nat
           /\ b[2] = HeaderCounter \/ b[2] < HeaderOf[b[1]].total_chunks
<1>1. PICK a \in Archives : b \in BoxesOf(a)
  BY DEF Boxes
<1>2. HasSizes(HeaderOf[a]) /\ SizesConsistent(HeaderOf[a])
      /\ HeaderOf[a].total_chunks \in Nat \ {0}
  BY ArchiveHeader
<1>3. CASE b = <<a, HeaderCounter>>
  BY <1>3, ChunkBounds DEF HeaderCounter, TextLen
<1>4. ASSUME NEW i \in 0..(HeaderOf[a].total_chunks - 1), b = <<a, i>>
      PROVE  /\ b[1] \in Archives /\ b = <<b[1], b[2]>> /\ b[2] \in Nat
             /\ TextLen(b) \in Nat /\ b[2] < HeaderOf[b[1]].total_chunks
  <2>1. i \in Nat /\ i < HeaderOf[a].total_chunks
    BY <1>2
  <2>2. ExpectedLen(HeaderOf[a], i) \in 0..HeaderOf[a].chunk_size
    BY <1>2, <2>1, ChunkIsACut
  <2> QED BY <1>2, <1>4, <2>1, <2>2 DEF TextLen, HasSizes
<1> QED BY <1>1, <1>3, <1>4 DEF BoxesOf

\* A chunk's box: its attributes, and its place among the boxes.
LEMMA ChunkBox ==
    ASSUME NEW a \in Archives, NEW i \in 0..(HeaderOf[a].total_chunks - 1)
    PROVE  /\ <<a, i>> \in Boxes
           /\ i # HeaderCounter
           /\ TextLen(<<a, i>>) = ExpectedLen(HeaderOf[a], i)
           /\ SealAad(<<a, i>>) = ChunkAad(HeaderOf[a], i)
<1>1. HeaderOf[a].total_chunks \in Nat \ {0} /\ HeaderOf[a].total_chunks <= U64Max
  BY ArchiveHeader
<1>2. i # HeaderCounter
  BY <1>1, ChunkBounds DEF HeaderCounter
<1> QED BY <1>2 DEF Boxes, BoxesOf, TextLen, SealAad

\* What opens as chunk i under the header of archive a is chunk i of a.
LEMMA OpenedChunk ==
    ASSUME NEW a \in Archives, NEW i \in Nat, NEW w, NEW p, NEW n, NEW k, NEW nonce,
           NEW b \in Opened(w, p, n, k, nonce, ChunkAad(HeaderOf[a], i))
    PROVE  b = <<a, i>> /\ BoxAt(w, p, n, b)
<1>1. b \in Boxes /\ SealAad(b) = ChunkAad(HeaderOf[a], i) /\ BoxAt(w, p, n, b)
  BY DEF Opened
<1>2. b[1] \in Archives /\ b = <<b[1], b[2]>>
  BY <1>1, BoxShape
<1>3. b[2] # HeaderCounter
  <2>1. SealAad(b) # <<HeaderOf[b[1]]>>
    BY <1>1 DEF ChunkAad
  <2> QED BY <2>1 DEF SealAad, HeaderAad
<1>4. HeaderOf[b[1]] = HeaderOf[a] /\ b[2] = i
  BY <1>1, <1>3 DEF SealAad, ChunkAad
<1> QED BY <1>1, <1>2, <1>4, FreshHeaders

\* What opens as the tag of header h, under the key a caller derives for h,
\* is the header tag of an archive whose secret the caller gave.
LEMMA OpenedHeader ==
    ASSUME NEW h, NEW v, NEW s, NEW w, NEW p, NEW n, NEW nonce, h.version = v,
           NEW b \in Opened(w, p, n, KeyFor(v, s, h), nonce, HeaderAad(h))
    PROVE  \E a \in Archives :
               /\ b = <<a, HeaderCounter>>
               /\ h = HeaderOf[a]
               /\ s = SecretOf[a]
               /\ BoxAt(w, p, n, b)
<1>1. /\ b \in Boxes /\ SealAad(b) = <<h>> /\ SealKey(b) = KeyFor(v, s, h)
      /\ BoxAt(w, p, n, b)
  BY DEF Opened, HeaderAad
<1>2. b[1] \in Archives /\ b = <<b[1], b[2]>>
  BY <1>1, BoxShape
<1>3. b[2] = HeaderCounter
  BY <1>1 DEF SealAad, ChunkAad
<1>4. HeaderOf[b[1]] = h
  BY <1>1, <1>3 DEF SealAad, HeaderAad
<1>5. KeyFor(v, SecretOf[b[1]], h) = KeyFor(v, s, h)
  BY <1>1, <1>4 DEF SealKey, KeyOf
<1>6. SecretOf[b[1]] = s
  BY <1>5 DEF KeyFor, DerivedKey, RawKey
<1> QED BY <1>1, <1>2, <1>3, <1>4, <1>6
\* Where chunk i lies, in the plaintext and on the wire.
LEMMA ChunkPlace ==
    ASSUME NEW a \in Archives, NEW i \in 0..(HeaderOf[a].total_chunks - 1)
    PROVE  LET h == HeaderOf[a] IN
           /\ PlainBefore(h, i) \in Nat
           /\ ExpectedLen(h, i) \in Nat
           /\ PlainBefore(h, i + 1) = PlainBefore(h, i) + ExpectedLen(h, i)
           /\ PlainBefore(h, i) = h.chunk_size * i
           /\ ChunkStart(h, i) = 1 + TagLen + PlainBefore(h, i) + i * TagLen
<1> DEFINE h == HeaderOf[a]
           C == h.chunk_size
<1>1. HasSizes(h) /\ SizesConsistent(h) /\ h.total_chunks \in Nat \ {0}
  BY ArchiveHeader
<1>2. i \in Nat /\ i < h.total_chunks /\ C \in Nat
  BY <1>1 DEF HasSizes
<1>3. /\ ExpectedLen(h, i) \in 0..C
      /\ C * i \in U64
      /\ i + 1 < h.total_chunks => C * (i + 1) = C * i + ExpectedLen(h, i)
      /\ i + 1 = h.total_chunks => h.total_plaintext_size = C * i + ExpectedLen(h, i)
  BY <1>1, <1>2, ChunkIsACut
<1>4. PlainBefore(h, i) = C * i /\ C * i \in Nat
  BY <1>1, <1>2 DEF PlainBefore
<1>5. PlainBefore(h, i + 1) = C * i + ExpectedLen(h, i)
  BY <1>1, <1>2, <1>3 DEF PlainBefore
<1>6. i * (C + TagLen) = C * i + i * TagLen
  BY <1>2, Widths
<1>7. i * TagLen \in Nat
  BY <1>2, Widths
<1> QED BY <1>2, <1>3, <1>4, <1>5, <1>6, <1>7, Widths DEF ChunkStart

-----------------------------------------------------------------------------
(* The inductive invariant.  Up to the authentication it only follows the  *)
(* cursor; from then on one archive accounts for everything that has been  *)
(* read and everything that has been written.                              *)

InLoopOrAfter == {"chunk", "progress", "trailing", "size"}

\* The header has been parsed from the first byte.
HeaderKnown ==
    /\ header \in Headers
    /\ Len(input) >= 1
    /\ input[1] = HeaderByte(header)
    /\ Parses(header, caller.version)

NothingReleased == index = 0 /\ total_written = 0 /\ sink = <<>>

\* Archive a is the one being read: its header, key and first chunks are what
\* the input holds, and its first bytes are what the sink holds.
Reading(a) ==
    /\ Owns(a)
    /\ header = HeaderOf[a]
    /\ key = KeyOf(a)
    /\ HeaderIntact(a)
    /\ ChunksDone <= header.total_chunks
    /\ total_written = PlainBefore(header, ChunksDone)
    /\ Len(sink) = total_written
    /\ \A j \in 1..total_written : sink[j] = <<a, j>>
    /\ pos = 1 + TagLen + total_written + ChunksDone * TagLen
    /\ \A i \in 0..(ChunksDone - 1) :
          BoxAt(input, ChunkStart(header, i), ExpectedLen(header, i) + TagLen, <<a, i>>)

\* No archive of the caller is intact in the input (or its header is not).
NotIntact == ~\E a \in Archives : IsContainer(input, a) /\ Owns(a)
NoIntactHeader == ~\E a \in Archives : HeaderIntact(a) /\ Owns(a)

IInv ==
    /\ TypeOK
    /\ sink \in Seq(Archives \X Nat)
    /\ pc \in {"tag", "key", "authenticate"} => HeaderKnown
    /\ pc \in {"header", "tag", "key", "authenticate"} => NothingReleased
    /\ pc = "header" => pos = 0
    /\ pc = "tag" => pos = 1
    /\ pc \in {"key", "authenticate"} => pos = 1 + TagLen
    /\ pc = "authenticate" => key = KeyFor(caller.version, caller.secret, header)
    /\ pc \in InLoopOrAfter => \E a \in Archives : Reading(a)
    /\ pc = "progress" => index < header.total_chunks
    /\ pc \in {"trailing", "size"} => index = header.total_chunks
    /\ pc = "size" => pos = Len(input)
    /\ pc = "done" => ReleasedIsAuthentic
    /\ OkMeansIntact
    /\ result \in {"WrongPassword", "InvalidHeader", "Crypto"} => NoIntactHeader
    /\ result = "Corrupted" => \E a \in Archives : HeaderIntact(a) /\ Owns(a)
    /\ result \in Errors \ {"Io", "Cancelled"} => NotIntact
-----------------------------------------------------------------------------
(* Plaintexts as sequences.                                                *)

PlainBytes == Archives \X Nat

LEMMA PlaintextIsSeq ==
    ASSUME NEW a \in Archives
    PROVE  /\ Plaintext(a) \in Seq(PlainBytes)
           /\ Len(Plaintext(a)) = HeaderOf[a].total_plaintext_size
           /\ \A j \in 1..HeaderOf[a].total_plaintext_size : Plaintext(a)[j] = <<a, j>>
<1>1. HeaderOf[a].total_plaintext_size \in Nat
  BY ArchiveHeader DEF HasSizes
<1> QED BY <1>1 DEF Plaintext, PlainBytes

LEMMA TextIsSeq ==
    ASSUME NEW a \in Archives, NEW i \in 0..(HeaderOf[a].total_chunks - 1)
    PROVE  LET b == <<a, i>> IN
           /\ Text(b) \in Seq(PlainBytes)
           /\ Len(Text(b)) = TextLen(b)
           /\ TextLen(b) \in Nat
           /\ TextLen(b) = ExpectedLen(HeaderOf[a], i)
           /\ \A k \in 1..TextLen(b) : Text(b)[k] = <<a, PlainBefore(HeaderOf[a], i) + k>>
<1>1. TextLen(<<a, i>>) = ExpectedLen(HeaderOf[a], i)
  BY ChunkBox
<1>2. /\ ExpectedLen(HeaderOf[a], i) \in Nat
      /\ PlainBefore(HeaderOf[a], i) = HeaderOf[a].chunk_size * i
      /\ PlainBefore(HeaderOf[a], i) \in Nat
  BY ChunkPlace
<1> DEFINE b == <<a, i>>
           n == TextLen(b)
           start == PlainBefore(HeaderOf[a], i)
<1>3. b[1] = a /\ b[2] = i
  OBVIOUS
<1>4. Text(b) = [k \in 1..n |-> <<a, start + k>>]
  BY <1>2, <1>3 DEF Text
<1>5. n \in Nat /\ start \in Nat
  BY <1>1, <1>2
<1> HIDE DEF n, start, b
<1>6. \A k \in 1..n : <<a, start + k>> \in PlainBytes
  BY <1>5 DEF PlainBytes
<1>7. DOMAIN Text(b) = 1..n /\ \A k \in 1..n : Text(b)[k] = <<a, start + k>>
  BY <1>4
<1>8. Text(b) \in [1..n -> PlainBytes]
  BY <1>4, <1>6
<1>9. Text(b) \in Seq(PlainBytes)
  BY <1>5, <1>8
<1>10. Len(Text(b)) = n
  BY <1>5, <1>7, <1>9
<1> QED BY <1>1, <1>5, <1>7, <1>9, <1>10 DEF n, start, b

\* A sequence whose bytes are those of archive a, in order, is a beginning of
\* its plaintext.
LEMMA PrefixOfPlaintext ==
    ASSUME NEW a \in Archives, NEW s \in Seq(PlainBytes),
           Len(s) <= HeaderOf[a].total_plaintext_size,
           \A j \in 1..Len(s) : s[j] = <<a, j>>
    PROVE  IsPrefix(s, Plaintext(a))
<1> DEFINE t == Plaintext(a)
<1>1. /\ t \in Seq(PlainBytes) /\ Len(s) \in Nat /\ Len(s) <= Len(t)
      /\ \A j \in 1..Len(s) : t[j] = <<a, j>>
  BY PlaintextIsSeq
<1>2. SubSeq(s, 1, Len(s)) = s
  BY SubSeqFull
<1>3. /\ SubSeq(t, 1, Len(s)) \in Seq(PlainBytes)
      /\ Len(SubSeq(t, 1, Len(s))) = Len(s)
      /\ \A j \in 1..Len(s) : SubSeq(t, 1, Len(s))[j] = t[j]
  <2>1. \A j \in 1..Len(s) : t[j] \in PlainBytes
    BY <1>1
  <2> QED BY <1>1, <2>1, SubSeqProperties
<1> HIDE DEF t
<1>4. SubSeq(t, 1, Len(s)) = s
  BY <1>1, <1>3, SeqEqual
<1> QED BY <1>1, <1>2, <1>4 DEF IsPrefix, t
\* Writing the first n bytes of chunk i after the chunks before it.
LEMMA SinkExtends ==
    ASSUME NEW a \in Archives, NEW i \in 0..(HeaderOf[a].total_chunks - 1),
           NEW s \in Seq(PlainBytes),
           Len(s) = PlainBefore(HeaderOf[a], i),
           \A j \in 1..Len(s) : s[j] = <<a, j>>,
           NEW n \in 0..TextLen(<<a, i>>)
    PROVE  LET t == s \o SubSeq(Text(<<a, i>>), 1, n) IN
           /\ t \in Seq(PlainBytes)
           /\ Len(t) = Len(s) + n
           /\ \A j \in 1..Len(t) : t[j] = <<a, j>>
<1> DEFINE x == Text(<<a, i>>)
           u == SubSeq(x, 1, n)
           start == PlainBefore(HeaderOf[a], i)
<1>1. /\ x \in Seq(PlainBytes) /\ Len(x) = TextLen(<<a, i>>) /\ Len(x) \in Nat
      /\ \A k \in 1..Len(x) : x[k] = <<a, start + k>>
  BY TextIsSeq
<1>2. start \in Nat
  BY ChunkPlace
<1> HIDE DEF x, start
<1>3. \A k \in 1..n : x[k] \in PlainBytes /\ x[k] = <<a, start + k>>
  BY <1>1
<1>4. n \in Nat
  BY <1>1
<1>5. /\ u \in Seq(PlainBytes) /\ Len(u) = n
      /\ \A k \in 1..n : u[k] = x[k]
  BY <1>3, <1>4, SubSeqProperties
<1> HIDE DEF u
<1>6. /\ s \o u \in Seq(PlainBytes) /\ Len(s \o u) = Len(s) + Len(u)
      /\ \A j \in 1..(Len(s) + Len(u)) :
            (s \o u)[j] = IF j <= Len(s) THEN s[j] ELSE u[j - Len(s)]
  BY <1>5, ConcatProperties
<1>7. ASSUME NEW j \in 1..(Len(s) + n) PROVE (s \o u)[j] = <<a, j>>
  <2>1. Len(s) = start BY DEF start
  <2>2. CASE j <= Len(s)
    <3>1. j \in 1..Len(s) BY <1>2, <2>1, <2>2
    <3>2. s[j] = <<a, j>> BY <3>1
    <3>3. (s \o u)[j] = IF j <= Len(s) THEN s[j] ELSE u[j - Len(s)]
      BY <1>5, <1>6
    <3> QED BY <2>2, <3>2, <3>3
  <2>3. CASE j > Len(s)
    <3>1. j - Len(s) \in 1..n BY <1>2, <1>4, <2>1, <2>3
    <3>2. u[j - Len(s)] = <<a, start + (j - Len(s))>> BY <1>3, <1>5, <3>1
    <3>3. start + (j - Len(s)) = j BY <1>2, <1>4, <2>1
    <3>4. ~(j <= Len(s)) BY <1>2, <2>1, <2>3
    <3>5. (s \o u)[j] = u[j - Len(s)] BY <1>5, <1>6, <3>4
    <3> QED BY <3>2, <3>3, <3>5
  <2>4. j <= Len(s) \/ j > Len(s)
    BY <1>2, <1>4, <2>1
  <2> QED BY <2>2, <2>3, <2>4
<1> QED BY <1>5, <1>6, <1>7 DEF u, x

LEMMA ReadingReleased ==
    ASSUME IInv, NEW a \in Archives, Reading(a)
    PROVE  IsPrefix(sink, Plaintext(a))
<1> DEFINE h == HeaderOf[a]
<1>1. HasSizes(h) /\ SizesConsistent(h) /\ h.total_chunks \in Nat \ {0}
  BY ArchiveHeader
<1>2. ChunksDone \in Nat /\ ChunksDone <= h.total_chunks
  BY DEF IInv, TypeOK, ChunksDone, Reading
<1>3. PlainBefore(h, ChunksDone) <= h.total_plaintext_size
  BY <1>1, <1>2, ChunkIsACut DEF PlainBefore, HasSizes
<1> QED BY <1>3, PrefixOfPlaintext DEF Reading, IInv, PlainBytes

-----------------------------------------------------------------------------
(* Intact containers.                                                      *)

LEMMA IntactHasHeader ==
    ASSUME NEW a \in Archives, IsContainer(input, a)
    PROVE  HeaderIntact(a)
<1> DEFINE h == HeaderOf[a]
<1>1. h.total_plaintext_size \in Nat /\ h.total_chunks \in Nat \ {0}
  BY ArchiveHeader DEF HasSizes
<1>2. h.total_chunks * TagLen \in Nat
  BY <1>1, Widths
<1>3. Len(input) = 1 + TagLen + h.total_plaintext_size + h.total_chunks * TagLen
  BY DEF IsContainer, ContainerLen
<1> DEFINE S == h.total_plaintext_size
           tags == h.total_chunks * TagLen
<1>4. S \in Nat /\ tags \in Nat /\ TagLen \in Nat /\ Len(input) = 1 + TagLen + S + tags
  BY <1>1, <1>2, <1>3, Widths
<1> HIDE DEF S, tags, h
<1>5. Len(input) > TagLen
  BY <1>4
<1> QED BY <1>5 DEF IsContainer, HeaderIntact, h

\* The header in the input names the archive.
LEMMA SameArchive ==
    ASSUME NEW a \in Archives, NEW b \in Archives, HeaderIntact(a), HeaderIntact(b)
    PROVE  a = b
<1>1. <<HeaderOf[a]>> = <<HeaderOf[b]>>
  BY DEF HeaderIntact, HeaderByte
<1> QED BY <1>1, FreshHeaders

\* An intact header and tag of the caller's own parse, and the header the
\* reader holds, if any, is that one.
LEMMA IntactIsReadable ==
    ASSUME NEW a \in Archives, HeaderIntact(a), Owns(a)
    PROVE  /\ Len(input) > TagLen
           /\ HeaderReadable
           /\ HeaderKnown => /\ header = HeaderOf[a]
                             /\ caller.version = 1 => Derivable(header)
<1>1. input[1] = HeaderByte(HeaderOf[a]) /\ Len(input) > TagLen
  BY DEF HeaderIntact
<1>2. /\ Parses(HeaderOf[a], caller.version)
      /\ caller.version = 1 => Derivable(HeaderOf[a])
  BY ArchivesWellFormed DEF Owns
<1>3. HeaderReadable
  BY <1>1, <1>2 DEF HeaderReadable, HeaderByte
<1>4. ASSUME HeaderKnown PROVE header = HeaderOf[a]
  <2>1. HeaderByte(header) = HeaderByte(HeaderOf[a])
    BY <1>1, <1>4 DEF HeaderKnown
  <2>2. <<header>> = <<HeaderOf[a]>>
    BY <2>1 DEF HeaderByte
  <2> QED BY <2>2
<1> QED BY <1>1, <1>2, <1>3, <1>4

\* While archive a is read and a chunk remains, the cursor is at that chunk.
LEMMA AtChunk ==
    ASSUME IInv, InLoop, NEW a \in Archives, Reading(a)
    PROVE  /\ header = HeaderOf[a]
           /\ index \in 0..(HeaderOf[a].total_chunks - 1)
           /\ pos = ChunkStart(header, index)
           /\ total_written = PlainBefore(header, index)
           /\ ChunksDone = index
<1>1. header = HeaderOf[a] /\ ChunksDone = index
  BY DEF Reading, InLoop, ChunksDone
<1>2. index \in 0..(HeaderOf[a].total_chunks - 1)
  <2>1. HeaderOf[a].total_chunks \in Nat /\ index \in Nat
    BY ArchiveHeader DEF IInv, TypeOK
  <2> QED BY <1>1, <2>1 DEF InLoop
<1>3. ChunkStart(header, index) = 1 + TagLen + PlainBefore(header, index) + index * TagLen
  BY <1>1, <1>2, ChunkPlace
<1> QED BY <1>1, <1>2, <1>3 DEF Reading

\* What the sink holds is authentic in every reachable state.
LEMMA ReleasedHolds ==
    ASSUME IInv
    PROVE  ReleasedIsAuthentic
<1>1. CASE pc \in {"header", "tag", "key", "authenticate"}
  BY <1>1 DEF IInv, NothingReleased, ReleasedIsAuthentic
<1>2. CASE pc \in InLoopOrAfter
  <2>1. PICK a \in Archives : Reading(a)
    BY <1>2 DEF IInv
  <2>2. IsPrefix(sink, Plaintext(a))
    BY <2>1, ReadingReleased
  <2> QED BY <2>1, <2>2 DEF Reading, ReleasedIsAuthentic
<1>3. CASE pc = "done"
  BY <1>3 DEF IInv
<1> QED BY <1>1, <1>2, <1>3 DEF IInv, TypeOK, InLoopOrAfter

-----------------------------------------------------------------------------
(* Steps that return: what has to be known of the answer.                  *)

LEMMA ReturnInv ==
    ASSUME IInv, pc # "done", NEW r \in Errors \cup {"Ok"}, Return(r),
           r = "Ok" => \E a \in Archives :
                           Owns(a) /\ IsContainer(input, a) /\ sink = Plaintext(a),
           r \in {"WrongPassword", "InvalidHeader", "Crypto"} => NoIntactHeader,
           r = "Corrupted" => \E a \in Archives : HeaderIntact(a) /\ Owns(a),
           r \in Errors \ {"Io", "Cancelled"} => NotIntact
    PROVE  IInv'
<1>1. /\ result' = r /\ pc' = "done"
      /\ UNCHANGED <<input, caller, pos, header, key, index, total_written, sink>>
  BY DEF Return
<1>2. TypeOK' /\ (sink \in Seq(Archives \X Nat))'
  BY <1>1 DEF IInv, TypeOK, Errors
<1>3. ReleasedIsAuthentic'
  BY <1>1, ReleasedHolds DEF ReleasedIsAuthentic, Owns
<1>4. OkMeansIntact'
  BY <1>1 DEF OkMeansIntact, Owns
<1>5. (result \in {"WrongPassword", "InvalidHeader", "Crypto"} => NoIntactHeader)'
  BY <1>1 DEF NoIntactHeader, HeaderIntact, Owns
<1>6. (result = "Corrupted" => \E a \in Archives : HeaderIntact(a) /\ Owns(a))'
  BY <1>1 DEF HeaderIntact, Owns
<1>7. (result \in Errors \ {"Io", "Cancelled"} => NotIntact)'
  BY <1>1 DEF NotIntact, Owns
<1> QED BY <1>1, <1>2, <1>3, <1>4, <1>5, <1>6, <1>7 DEF IInv, InLoopOrAfter

\* No archive the caller owns is intact if none has its header intact.
LEMMA NoHeaderNoArchive ==
    ASSUME NoIntactHeader
    PROVE  NotIntact
BY IntactHasHeader DEF NoIntactHeader, NotIntact

\* Once archive a is being read, it is the only one that could be intact.
LEMMA OnlyCandidate ==
    ASSUME NEW a \in Archives, Reading(a), ~IsContainer(input, a)
    PROVE  NotIntact
<1>1. HeaderIntact(a)
  BY DEF Reading
<1> QED BY <1>1, IntactHasHeader, SameArchive DEF NotIntact

-----------------------------------------------------------------------------
(* One lemma per part of the function.                                     *)

LEMMA InitInv == Init => IInv
<1> SUFFICES ASSUME Init PROVE IInv
  OBVIOUS
<1>1. Len(input) \in Nat
  BY InputsAreWire DEF Init
<1>2. TypeOK
  BY <1>1 DEF Init, TypeOK, Errors
<1> QED BY <1>2 DEF Init, IInv, NothingReleased, InLoopOrAfter, OkMeansIntact, Errors

\* The three sorts of wire bytes.
LEMMA WireByteSorts ==
    ASSUME NEW w \in WireBytes
    PROVE  \/ \E h \in Headers : w = HeaderByte(h)
           \/ \E b \in Boxes : \E k \in 1..(TextLen(b) + TagLen) : w = BoxByte(b, k)
           \/ w = Noise
<1> DEFINE OfBox(b) == {BoxByte(b, k) : k \in 1..(TextLen(b) + TagLen)}
           OfHeaders == {HeaderByte(h) : h \in Headers}
           OfBoxes == UNION {OfBox(b) : b \in Boxes}
<1>1. CASE w \in OfBoxes
  <2>1. PICK bytes \in {OfBox(b) : b \in Boxes} : w \in bytes
    BY <1>1
  <2>2. PICK b \in Boxes : bytes = OfBox(b)
    BY <2>1
  <2>3. \E k \in 1..(TextLen(b) + TagLen) : w = BoxByte(b, k)
    BY <2>1, <2>2
  <2> QED BY <2>2, <2>3
<1>2. CASE w \in OfHeaders
  BY <1>2
<1>3. WireBytes = OfHeaders \cup {Noise} \cup OfBoxes
  BY DEF WireBytes
<1> HIDE DEF OfHeaders, OfBoxes
<1> QED BY <1>1, <1>2, <1>3

LEMMA HeaderSteps ==
    ASSUME IInv, HeaderMissing \/ HeaderRefused \/ HeaderRead
    PROVE  IInv'
<1>0. /\ pc = "header" /\ pos = 0 /\ NothingReleased /\ input \in Seq(WireBytes)
      /\ Len(input) \in Nat /\ result = "none" /\ pc # "done"
  BY InputsAreWire DEF IInv, TypeOK, HeaderMissing, HeaderRefused, HeaderRead
<1>1. CASE HeaderMissing
  <2>1. Len(input) < 1
    BY <1>0, <1>1 DEF HeaderMissing, Short
  <2>2. NoIntactHeader
    BY <1>0, <2>1, IntactIsReadable, Widths DEF NoIntactHeader
  <2> QED BY <1>0, <1>1, <2>2, NoHeaderNoArchive, ReturnInv DEF HeaderMissing, Errors
<1>2. CASE HeaderRefused
  <2>1. NoIntactHeader
    BY <1>2, IntactIsReadable DEF NoIntactHeader, HeaderRefused
  <2> QED BY <1>0, <1>2, <2>1, NoHeaderNoArchive, ReturnInv DEF HeaderRefused, Errors
<1>3. CASE HeaderRead
  <2>1. Len(input) >= 1
    BY <1>0, <1>3 DEF HeaderRead, Short
  <2>2. input[1] \in WireBytes /\ input[1].part = "header" /\ Parses(input[1].of[1], caller.version)
    BY <1>0, <1>3, <2>1 DEF HeaderRead, HeaderReadable
  <2>3. PICK h \in Headers : input[1] = HeaderByte(h)
    <3>1. CASE input[1] = Noise
      BY <2>2, <3>1 DEF Noise
    <3>2. ASSUME NEW b \in Boxes, NEW k \in 1..(TextLen(b) + TagLen), input[1] = BoxByte(b, k)
          PROVE  FALSE
      BY <2>2, <3>2 DEF BoxByte
    <3> QED BY <2>2, <3>1, <3>2, WireByteSorts
  <2>4. input[1].of[1] = h
    BY <2>3 DEF HeaderByte
  <2>5. HeaderKnown'
    BY <1>3, <2>1, <2>2, <2>3, <2>4 DEF HeaderRead, HeaderKnown
  <2>6. TypeOK'
    BY <1>0, <1>3, <2>1 DEF IInv, TypeOK, HeaderRead, Errors
  <2> QED
    BY <1>0, <1>3, <2>5, <2>6
       DEF IInv, HeaderRead, NothingReleased, InLoopOrAfter, OkMeansIntact, Errors
<1> QED BY <1>1, <1>2, <1>3

LEMMA TagAndKeySteps ==
    ASSUME IInv, TagMissing \/ TagRead \/ ParamsRefused \/ KeyResolved
    PROVE  IInv'
<1>0. /\ pc \in {"tag", "key"} /\ NothingReleased /\ HeaderKnown
      /\ Len(input) \in Nat /\ TagLen \in Nat /\ result = "none" /\ pc # "done"
  BY InputsAreWire, Widths DEF IInv, TypeOK, TagMissing, TagRead, ParamsRefused, KeyResolved
<1>1. CASE TagMissing
  <2>1. ~(Len(input) > TagLen)
    BY <1>0, <1>1 DEF IInv, TagMissing, Short
  <2>2. NoIntactHeader
    BY <2>1, IntactIsReadable DEF NoIntactHeader
  <2> QED BY <1>0, <1>1, <2>2, NoHeaderNoArchive, ReturnInv DEF TagMissing, Errors
<1>2. CASE TagRead
  <2>1. pos' = 1 + TagLen /\ pos' \in 0..Len(input)
    BY <1>0, <1>2 DEF IInv, TagRead, Short
  <2>2. TypeOK'
    BY <1>0, <1>2, <2>1 DEF IInv, TypeOK, TagRead, Errors
  <2> QED
    BY <1>0, <1>2, <2>1, <2>2
       DEF IInv, TagRead, NothingReleased, HeaderKnown, InLoopOrAfter, OkMeansIntact, Errors
<1>3. CASE ParamsRefused
  <2>1. NoIntactHeader
    BY <1>0, <1>3, IntactIsReadable DEF NoIntactHeader, ParamsRefused
  <2> QED BY <1>0, <1>3, <2>1, NoHeaderNoArchive, ReturnInv DEF ParamsRefused, Errors
<1>4. CASE KeyResolved
  <2>1. TypeOK'
    BY <1>0, <1>4 DEF IInv, TypeOK, KeyResolved, Errors
  <2> QED
    BY <1>0, <1>4, <2>1
       DEF IInv, KeyResolved, NothingReleased, HeaderKnown, InLoopOrAfter, OkMeansIntact, Errors
<1> QED BY <1>1, <1>2, <1>3, <1>4

LEMMA AuthenticateSteps ==
    ASSUME IInv, HeaderNotAuthentic \/ HeaderAuthenticated
    PROVE  IInv'
<1>0. /\ pc = "authenticate" /\ NothingReleased /\ HeaderKnown
      /\ key = KeyFor(caller.version, caller.secret, header)
      /\ pos = 1 + TagLen /\ pos - TagLen = 1 /\ result = "none" /\ pc # "done"
  BY Widths DEF IInv, TypeOK, HeaderNotAuthentic, HeaderAuthenticated
<1>1. CASE HeaderNotAuthentic
  <2>1. ASSUME NEW a \in Archives, HeaderIntact(a), Owns(a) PROVE FALSE
    <3> DEFINE b == <<a, HeaderCounter>>
    <3>1. header = HeaderOf[a] /\ BoxAt(input, pos - TagLen, TagLen, b)
      BY <1>0, <2>1, IntactIsReadable DEF HeaderIntact
    <3>2. b \in Boxes
      BY DEF Boxes, BoxesOf
    <3>3. SealKey(b) = key
      BY <1>0, <2>1, <3>1 DEF SealKey, KeyOf, Owns
    <3>4. /\ SealNonce(b) = DeriveNonce(header.base_nonce, HeaderCounter)
          /\ SealAad(b) = HeaderAad(header)
      BY <3>1 DEF SealNonce, SealAad
    <3>5. b \in HeaderBoxes
      BY <3>1, <3>2, <3>3, <3>4 DEF HeaderBoxes, Opened
    <3> QED BY <1>1, <3>5 DEF HeaderNotAuthentic
  <2>2. NoIntactHeader
    BY <2>1 DEF NoIntactHeader
  <2> QED BY <1>0, <1>1, <2>2, NoHeaderNoArchive, ReturnInv DEF HeaderNotAuthentic, Errors
<1>2. CASE HeaderAuthenticated
  <2>1. PICK b \in HeaderBoxes : TRUE
    BY <1>2 DEF HeaderAuthenticated
  <2>2. PICK a \in Archives : /\ header = HeaderOf[a]
                              /\ caller.secret = SecretOf[a]
                              /\ BoxAt(input, 1, TagLen, <<a, HeaderCounter>>)
    <3>1. header.version = caller.version
      BY <1>0 DEF HeaderKnown, Parses
    <3>2. b \in Opened(input, 1, TagLen, KeyFor(caller.version, caller.secret, header),
                       DeriveNonce(header.base_nonce, HeaderCounter), HeaderAad(header))
      BY <1>0, <2>1 DEF HeaderBoxes
    <3>3. \E a \in Archives : /\ b = <<a, HeaderCounter>>
                              /\ header = HeaderOf[a]
                              /\ caller.secret = SecretOf[a]
                              /\ BoxAt(input, 1, TagLen, b)
      BY <3>1, <3>2, OpenedHeader
    <3> QED BY <3>3
  <2>3. Owns(a) /\ key = KeyOf(a)
    BY <1>0, <2>2 DEF Owns, KeyOf, HeaderKnown, Parses
  <2>4. HeaderIntact(a)
    <3>1. Len(input) \in Nat /\ TagLen \in Nat
      BY InputsAreWire, Widths DEF IInv, TypeOK
    <3>2. 1 + TagLen <= Len(input)
      BY <2>2 DEF BoxAt
    <3> QED BY <1>0, <2>2, <3>1, <3>2 DEF HeaderIntact, HeaderKnown
  <2>5. /\ pc' = "chunk" /\ total_written = 0 /\ index = 0 /\ sink = <<>>
        /\ UNCHANGED <<input, caller, pos, header, key, index, total_written, sink, result>>
    BY <1>0, <1>2 DEF HeaderAuthenticated, NothingReleased
  <2>6. ChunksDone' = 0
    BY <2>5 DEF ChunksDone
  <2>7. PlainBefore(header, 0) = 0 /\ 0 <= header.total_chunks
    BY <2>2, ArchiveHeader DEF PlainBefore, HasSizes
  <2>8. Reading(a)'
    <3>1. (Owns(a) /\ HeaderIntact(a))'
      BY <2>3, <2>4, <2>5 DEF Owns, HeaderIntact
    <3>2. pos = 1 + TagLen + 0 + 0 * TagLen
      BY <1>0, Widths
    <3> QED BY <2>2, <2>3, <2>5, <2>6, <2>7, <3>1, <3>2 DEF Reading
  <2>9. TypeOK'
    BY <1>0, <2>5 DEF IInv, TypeOK
  <2> QED BY <1>0, <2>5, <2>8, <2>9 DEF IInv, InLoopOrAfter, OkMeansIntact, Errors
<1> QED BY <1>1, <1>2

\* The chunk the reader wants is the one an intact container has there.
LEMMA ChunkFailures ==
    ASSUME IInv, ChunkMissing \/ ChunkNotAuthentic
    PROVE  IInv'
<1>0. InLoop /\ pc = "chunk" /\ pc # "done"
  BY DEF ChunkMissing, ChunkNotAuthentic, InLoop
<1>1. PICK a \in Archives : Reading(a)
  BY <1>0 DEF IInv, InLoopOrAfter
<1> DEFINE n == ExpectedLen(header, index) + TagLen
<1>2. /\ header = HeaderOf[a]
      /\ index \in 0..(HeaderOf[a].total_chunks - 1)
      /\ pos = ChunkStart(header, index)
  BY <1>0, <1>1, AtChunk
<1>3. IsContainer(input, a) => BoxAt(input, pos, n, <<a, index>>)
  BY <1>2 DEF IsContainer
<1>4. CASE ChunkMissing
  <2>0. ExpectedLen(header, index) \in Nat
    BY <1>2, ChunkPlace
  <2>1. Len(input) \in Nat /\ pos \in Nat /\ n \in Nat
    BY <2>0, InputsAreWire, Widths DEF IInv, TypeOK
  <2>2. Len(input) < pos + n
    BY <1>4 DEF ChunkMissing, Short, WantCipher
  <2>3. ~(pos + n <= Len(input))
    BY <2>1, <2>2
  <2>4. ~IsContainer(input, a)
    BY <1>3, <2>3 DEF BoxAt
  <2> QED BY <1>0, <1>1, <1>4, <2>4, OnlyCandidate, ReturnInv DEF ChunkMissing, Errors
<1>5. CASE ChunkNotAuthentic
  <2>1. ASSUME IsContainer(input, a) PROVE FALSE
    <3>1. <<a, index>> \in Boxes /\ SealAad(<<a, index>>) = ChunkAad(header, index)
      BY <1>2, ChunkBox
    <3>2. SealKey(<<a, index>>) = key
      BY <1>1 DEF SealKey, Reading
    <3>3. SealNonce(<<a, index>>) = DeriveNonce(header.base_nonce, index)
      BY <1>2 DEF SealNonce
    <3>4. BoxAt(input, pos, WantCipher, <<a, index>>)
      BY <1>3, <2>1 DEF WantCipher
    <3>5. <<a, index>> \in ChunkBoxes
      BY <3>1, <3>2, <3>3, <3>4 DEF ChunkBoxes, Opened
    <3> QED BY <1>5, <3>5 DEF ChunkNotAuthentic
  <2>2. HeaderIntact(a) /\ Owns(a)
    BY <1>1 DEF Reading
  <2> QED BY <1>0, <1>1, <1>5, <2>1, <2>2, OnlyCandidate, ReturnInv DEF ChunkNotAuthentic, Errors
<1> QED BY <1>4, <1>5

\* What a step that opens a chunk knows of it.
LEMMA OpensChunk ==
    ASSUME IInv, InLoop, ~Short(WantCipher), NEW b \in ChunkBoxes
    PROVE  \E a \in Archives :
               /\ Reading(a)
               /\ header = HeaderOf[a]
               /\ index \in 0..(HeaderOf[a].total_chunks - 1)
               /\ pos = ChunkStart(header, index)
               /\ total_written = PlainBefore(header, index)
               /\ ChunksDone = index
               /\ b = <<a, index>>
               /\ BoxAt(input, pos, WantCipher, <<a, index>>)
               /\ pos + WantCipher \in 0..Len(input)
               /\ TextLen(b) = ExpectedLen(header, index)
               /\ TextLen(b) \in Nat
<1>1. PICK a \in Archives : Reading(a)
  BY DEF IInv, InLoopOrAfter, InLoop
<1>2. /\ header = HeaderOf[a]
      /\ index \in 0..(HeaderOf[a].total_chunks - 1)
      /\ pos = ChunkStart(header, index)
      /\ total_written = PlainBefore(header, index)
      /\ ChunksDone = index
  BY <1>1, AtChunk
<1>3. b = <<a, index>> /\ BoxAt(input, pos, WantCipher, b)
  <2>1. index \in Nat
    BY DEF IInv, TypeOK
  <2> QED BY <1>2, <2>1, OpenedChunk DEF ChunkBoxes
<1>4. TextLen(b) = ExpectedLen(header, index) /\ TextLen(b) \in Nat
  BY <1>2, <1>3, TextIsSeq
<1>5. pos + WantCipher \in 0..Len(input)
  <2>1. Len(input) \in Nat /\ pos \in Nat /\ WantCipher \in Nat
    BY <1>4, InputsAreWire, Widths DEF IInv, TypeOK, WantCipher
  <2> QED BY <2>1 DEF Short
<1> QED BY <1>1, <1>2, <1>3, <1>4, <1>5

LEMMA ChunkWrittenStep ==
    ASSUME IInv, ChunkWritten
    PROVE  IInv'
<1>1. PICK b \in ChunkBoxes : /\ sink' = sink \o Text(b)
                              /\ total_written' = total_written + TextLen(b)
  BY DEF ChunkWritten
<1>2. /\ InLoop /\ pc = "chunk" /\ ~Short(WantCipher) /\ pc' = "progress"
      /\ pos' = pos + WantCipher
      /\ UNCHANGED <<input, caller, header, key, index, result>>
  BY DEF ChunkWritten, InLoop
<1>3. PICK a \in Archives :
         /\ Reading(a)
         /\ header = HeaderOf[a]
         /\ index \in 0..(HeaderOf[a].total_chunks - 1)
         /\ pos = ChunkStart(header, index)
         /\ total_written = PlainBefore(header, index)
         /\ ChunksDone = index
         /\ b = <<a, index>>
         /\ BoxAt(input, pos, WantCipher, <<a, index>>)
         /\ pos + WantCipher \in 0..Len(input)
         /\ TextLen(b) = ExpectedLen(header, index)
         /\ TextLen(b) \in Nat
  BY <1>1, <1>2, OpensChunk
<1> DEFINE n == TextLen(b)
<1>4. /\ sink' \in Seq(PlainBytes) /\ Len(sink') = total_written + n
      /\ \A j \in 1..(total_written + n) : sink'[j] = <<a, j>>
  <2>1. /\ sink \in Seq(PlainBytes) /\ Len(sink) = PlainBefore(HeaderOf[a], index)
        /\ \A j \in 1..Len(sink) : sink[j] = <<a, j>>
    BY <1>3 DEF IInv, Reading, PlainBytes
  <2>2. Text(<<a, index>>) \in Seq(PlainBytes) /\ Len(Text(<<a, index>>)) = n
    BY <1>3, TextIsSeq
  <2>3. SubSeq(Text(<<a, index>>), 1, n) = Text(<<a, index>>)
    BY <2>2, SubSeqFull
  <2>4. n \in 0..TextLen(<<a, index>>)
    BY <1>3
  <2>5. LET t == sink \o SubSeq(Text(<<a, index>>), 1, n) IN
        /\ t \in Seq(PlainBytes)
        /\ Len(t) = Len(sink) + n
        /\ \A j \in 1..Len(t) : t[j] = <<a, j>>
    BY <1>3, <2>1, <2>4, SinkExtends
  <2>6. sink' = sink \o SubSeq(Text(<<a, index>>), 1, n)
    BY <1>1, <1>3, <2>3
  <2>7. Len(sink) = total_written
    BY <1>3 DEF Reading
  <2> HIDE DEF n
  <2> QED BY <2>5, <2>6, <2>7
<1>5. /\ ChunksDone' = index + 1
      /\ index + 1 \in 1..header.total_chunks
      /\ total_written' = PlainBefore(header, index + 1)
  <2>1. ChunksDone' = index + 1
    BY <1>2 DEF ChunksDone
  <2>2. header.total_chunks \in Nat
    BY <1>3, ArchiveHeader
  <2>3. PlainBefore(header, index + 1) = PlainBefore(header, index) + ExpectedLen(header, index)
    BY <1>3, ChunkPlace
  <2> QED BY <1>1, <1>3, <2>1, <2>2, <2>3
<1>6. pos' = 1 + TagLen + total_written' + (index + 1) * TagLen
  <2>1. pos = 1 + TagLen + total_written + index * TagLen
    BY <1>3 DEF Reading
  <2>2. index \in Nat /\ TagLen \in Nat /\ total_written \in Nat
    BY Widths DEF IInv, TypeOK
  <2>3. (index + 1) * TagLen = index * TagLen + TagLen /\ index * TagLen \in Nat
    BY <2>2
  <2>4. pos' = pos + n + TagLen /\ total_written' = total_written + n /\ n \in Nat
    BY <1>1, <1>2, <1>3, Widths DEF WantCipher, IInv, TypeOK
  <2> HIDE DEF n
  <2> DEFINE x == index * TagLen
             y == (index + 1) * TagLen
  <2>5. x \in Nat /\ y = x + TagLen /\ pos = 1 + TagLen + total_written + x
    BY <2>1, <2>3
  <2> HIDE DEF x, y
  <2>6. pos' = 1 + TagLen + total_written' + y
    BY <2>2, <2>4, <2>5
  <2> QED BY <2>6 DEF y
<1>7. \A i \in 0..(ChunksDone' - 1) :
         BoxAt(input, ChunkStart(header, i), ExpectedLen(header, i) + TagLen, <<a, i>>)
  <2>1. \A i \in 0..(index - 1) :
           BoxAt(input, ChunkStart(header, i), ExpectedLen(header, i) + TagLen, <<a, i>>)
    BY <1>3 DEF Reading
  <2>2. BoxAt(input, ChunkStart(header, index), ExpectedLen(header, index) + TagLen,
              <<a, index>>)
    BY <1>3 DEF WantCipher
  <2>3. \A i \in 0..(ChunksDone' - 1) : i = index \/ i \in 0..(index - 1)
    BY <1>3, <1>5, ArchiveHeader
  <2> QED BY <2>1, <2>2, <2>3
<1>8. Reading(a)'
  <2>1. (Owns(a) /\ HeaderIntact(a))' /\ key = KeyOf(a)
    BY <1>2, <1>3 DEF Reading, Owns, HeaderIntact
  <2>2. header.total_chunks \in Nat /\ ChunksDone' <= header.total_chunks
    BY <1>3, <1>5, ArchiveHeader
  <2>3. total_written' = total_written + n
    BY <1>1
  <2> QED BY <1>2, <1>3, <1>4, <1>5, <1>6, <1>7, <2>1, <2>2, <2>3 DEF Reading
<1>9. TypeOK'
  BY <1>1, <1>2, <1>3 DEF IInv, TypeOK
<1>10. index < header.total_chunks
  BY <1>2 DEF InLoop
<1> QED BY <1>2, <1>4, <1>8, <1>9, <1>10
        DEF IInv, InLoopOrAfter, OkMeansIntact, Errors, PlainBytes, TypeOK

LEMMA SinkFailsStep ==
    ASSUME IInv, SinkFails
    PROVE  IInv'
<1>1. PICK b \in ChunkBoxes : \E n \in 0..TextLen(b) : sink' = sink \o SubSeq(Text(b), 1, n)
  BY DEF SinkFails
<1>2. /\ InLoop /\ ~Short(WantCipher) /\ pos' = pos + WantCipher
      /\ result' = "Io" /\ pc' = "done"
      /\ UNCHANGED <<input, caller, header, key, index, total_written>>
  BY DEF SinkFails
<1>3. PICK a \in Archives :
         /\ Reading(a)
         /\ header = HeaderOf[a]
         /\ index \in 0..(HeaderOf[a].total_chunks - 1)
         /\ total_written = PlainBefore(header, index)
         /\ b = <<a, index>>
         /\ pos + WantCipher \in 0..Len(input)
         /\ TextLen(b) = ExpectedLen(header, index)
  BY <1>1, <1>2, OpensChunk
<1>4. PICK n \in 0..TextLen(<<a, index>>) : sink' = sink \o SubSeq(Text(<<a, index>>), 1, n)
  BY <1>1, <1>3
<1>5. /\ sink \in Seq(PlainBytes) /\ Len(sink) = PlainBefore(HeaderOf[a], index)
      /\ \A j \in 1..Len(sink) : sink[j] = <<a, j>>
  BY <1>3 DEF IInv, Reading, PlainBytes
<1>6. LET t == sink \o SubSeq(Text(<<a, index>>), 1, n) IN
      /\ t \in Seq(PlainBytes)
      /\ Len(t) = Len(sink) + n
      /\ \A j \in 1..Len(t) : t[j] = <<a, j>>
  BY <1>3, <1>5, SinkExtends
<1>7. IsPrefix(sink', Plaintext(a))
  <2>1. /\ PlainBefore(header, index + 1) = PlainBefore(header, index) + ExpectedLen(header, index)
        /\ PlainBefore(header, index) \in Nat /\ ExpectedLen(header, index) \in Nat
    BY <1>3, ChunkPlace
  <2>2. PlainBefore(header, index + 1) <= header.total_plaintext_size
    <3>1. /\ HasSizes(header) /\ SizesConsistent(header)
          /\ header.total_chunks \in Nat \ {0} /\ index \in Nat
      BY <1>3, ArchiveHeader
    <3>2. index + 1 < header.total_chunks => header.chunk_size * (index + 1) <= header.total_plaintext_size
      BY <3>1, ChunkIsACut DEF HasSizes
    <3> QED BY <3>1, <3>2 DEF PlainBefore, HasSizes
  <2>3. header.total_plaintext_size \in Nat
    BY <1>3, ArchiveHeader DEF HasSizes
  <2>4. Len(sink') <= header.total_plaintext_size
    BY <1>3, <1>4, <1>5, <1>6, <2>1, <2>2, <2>3
  <2> QED BY <1>3, <1>4, <1>6, <2>4, PrefixOfPlaintext
<1>8. ReleasedIsAuthentic'
  BY <1>2, <1>3, <1>7 DEF ReleasedIsAuthentic, Reading, Owns
<1>9. TypeOK'
  BY <1>2, <1>3 DEF IInv, TypeOK, Errors
<1> QED BY <1>2, <1>4, <1>6, <1>8, <1>9
        DEF IInv, InLoopOrAfter, OkMeansIntact, Errors, PlainBytes

\* The steps that only move on within the loop, and the end of the input.
LEMMA MoveOnSteps ==
    ASSUME IInv, CallbackContinues \/ LoopEnds \/ InputExhausted
    PROVE  IInv'
<1>0. /\ pc \in {"chunk", "progress", "trailing"} /\ result = "none"
      /\ index \in Nat /\ Len(input) \in Nat /\ pos \in 0..Len(input)
  BY InputsAreWire DEF IInv, TypeOK, CallbackContinues, LoopEnds, InputExhausted
<1>1. PICK a \in Archives : Reading(a)
  BY <1>0 DEF IInv, InLoopOrAfter
<1>2. UNCHANGED <<input, caller, pos, header, key, total_written, sink, result>>
  BY DEF CallbackContinues, LoopEnds, InputExhausted
<1>3. ASSUME ChunksDone' = ChunksDone PROVE Reading(a)'
  <2>1. (Owns(a) /\ HeaderIntact(a))'
    BY <1>1, <1>2 DEF Reading, Owns, HeaderIntact
  <2> QED BY <1>1, <1>2, <1>3, <2>1 DEF Reading
<1>4. CASE CallbackContinues
  <2>1. pc = "progress" /\ pc' = "chunk" /\ index' = index + 1
    BY <1>4 DEF CallbackContinues
  <2>2. Reading(a)'
    BY <1>3, <2>1 DEF ChunksDone
  <2>3. TypeOK'
    BY <1>0, <1>2, <2>1 DEF IInv, TypeOK
  <2> QED BY <1>0, <1>2, <2>1, <2>2, <2>3 DEF IInv, InLoopOrAfter, OkMeansIntact, Errors
<1>5. CASE LoopEnds
  <2>1. pc = "chunk" /\ pc' = "trailing" /\ index' = index /\ ~(index < header.total_chunks)
    BY <1>5 DEF LoopEnds, InLoop
  <2>2. Reading(a)'
    BY <1>3, <2>1 DEF ChunksDone
  <2>3. index = header.total_chunks
    <3>1. header.total_chunks \in Nat
      BY <1>1, ArchiveHeader DEF Reading
    <3>2. index <= header.total_chunks
      BY <1>1, <2>1 DEF Reading, ChunksDone
    <3> QED BY <1>0, <2>1, <3>1, <3>2
  <2>4. TypeOK'
    BY <1>0, <1>2, <2>1 DEF IInv, TypeOK
  <2> QED BY <1>0, <1>2, <2>1, <2>2, <2>3, <2>4 DEF IInv, InLoopOrAfter, OkMeansIntact, Errors
<1>6. CASE InputExhausted
  <2>1. pc = "trailing" /\ pc' = "size" /\ index' = index /\ Len(input) < pos + 1
    BY <1>6 DEF InputExhausted, Short
  <2>2. Reading(a)'
    BY <1>3, <2>1 DEF ChunksDone
  <2>3. pos = Len(input)
    BY <1>0, <2>1
  <2>4. TypeOK'
    BY <1>0, <1>2, <2>1 DEF IInv, TypeOK
  <2> QED BY <1>0, <1>2, <2>1, <2>2, <2>3, <2>4 DEF IInv, InLoopOrAfter, OkMeansIntact, Errors
<1> QED BY <1>4, <1>5, <1>6

\* All the chunks of archive a are behind the cursor, which is at the end of
\* its container.
LEMMA AllRead ==
    ASSUME IInv, pc \in {"trailing", "size"}, NEW a \in Archives, Reading(a)
    PROVE  /\ header = HeaderOf[a]
           /\ ChunksDone = header.total_chunks
           /\ total_written = header.total_plaintext_size
           /\ pos = ContainerLen(header)
<1>1. header = HeaderOf[a] /\ ChunksDone = header.total_chunks
  BY DEF Reading, ChunksDone, IInv
<1>2. header.total_chunks \in Nat
  BY <1>1, ArchiveHeader
<1>3. total_written = header.total_plaintext_size
  BY <1>1, <1>2 DEF Reading, PlainBefore
<1> QED BY <1>1, <1>3 DEF Reading, ContainerLen

LEMMA ClosingSteps ==
    ASSUME IInv, TrailingByte \/ SizeChecked
    PROVE  IInv'
<1>0. pc \in {"trailing", "size"} /\ pc # "done"
  BY DEF TrailingByte, SizeChecked
<1>1. PICK a \in Archives : Reading(a)
  BY <1>0 DEF IInv, InLoopOrAfter
<1>2. /\ header = HeaderOf[a]
      /\ ChunksDone = header.total_chunks
      /\ total_written = header.total_plaintext_size
      /\ pos = ContainerLen(header)
  BY <1>0, <1>1, AllRead
<1>3. CASE TrailingByte
  <2>1. Len(input) \in Nat /\ pos \in Nat
    BY InputsAreWire DEF IInv, TypeOK
  <2>2. Len(input) # pos
    BY <1>3, <2>1 DEF TrailingByte, Short
  <2>3. ~IsContainer(input, a)
    BY <1>2, <2>2 DEF IsContainer
  <2>4. HeaderIntact(a) /\ Owns(a)
    BY <1>1 DEF Reading
  <2> QED BY <1>0, <1>1, <1>3, <2>3, <2>4, OnlyCandidate, ReturnInv DEF TrailingByte, Errors
<1>4. CASE SizeChecked
  <2>1. Return("Ok")
    BY <1>2, <1>4 DEF SizeChecked
  <2>2. Len(input) = ContainerLen(header)
    BY <1>2, <1>4 DEF IInv, SizeChecked
  <2>3. IsContainer(input, a)
    BY <1>1, <1>2, <2>2 DEF IsContainer, Reading, HeaderIntact
  <2>4. sink = Plaintext(a)
    <3>1. /\ sink \in Seq(PlainBytes) /\ Len(sink) = HeaderOf[a].total_plaintext_size
          /\ \A j \in 1..Len(sink) : sink[j] = <<a, j>>
      BY <1>1, <1>2 DEF IInv, Reading, PlainBytes
    <3>2. /\ Plaintext(a) \in Seq(PlainBytes)
          /\ Len(Plaintext(a)) = HeaderOf[a].total_plaintext_size
          /\ \A j \in 1..HeaderOf[a].total_plaintext_size : Plaintext(a)[j] = <<a, j>>
      BY PlaintextIsSeq
    <3> QED BY <3>1, <3>2, SeqEqual
  <2> QED BY <1>0, <1>1, <2>1, <2>3, <2>4, ReturnInv DEF Reading, Errors
<1> QED BY <1>3, <1>4

\* I/O errors and cancellations accuse nobody.
LEMMA InterruptedSteps ==
    ASSUME IInv, CallbackCancels \/ ReadFails
    PROVE  IInv'
<1>1. pc # "done"
  BY DEF CallbackCancels, ReadFails, InLoop
<1>2. CASE CallbackCancels
  BY <1>1, <1>2, ReturnInv DEF CallbackCancels, Errors
<1>3. CASE ReadFails
  BY <1>1, <1>3, ReturnInv DEF ReadFails, Errors
<1> QED BY <1>2, <1>3

LEMMA StutterInv ==
    ASSUME IInv, UNCHANGED vars
    PROVE  IInv'
<1>1. UNCHANGED <<input, caller, pc, pos, header, key, index, total_written, sink, result>>
  BY DEF vars
<1>2. TypeOK' /\ HeaderKnown' = HeaderKnown /\ NothingReleased' = NothingReleased
  BY <1>1 DEF IInv, TypeOK, HeaderKnown, NothingReleased
<1>3. \A a \in Archives : Owns(a)' = Owns(a) /\ HeaderIntact(a)' = HeaderIntact(a)
  BY <1>1 DEF Owns, HeaderIntact
<1>4. ChunksDone' = ChunksDone
  BY <1>1 DEF ChunksDone
<1>5. \A a \in Archives : Reading(a) => Reading(a)'
  BY <1>1, <1>3, <1>4 DEF Reading
<1>6. /\ ReleasedIsAuthentic => ReleasedIsAuthentic'
      /\ OkMeansIntact => OkMeansIntact'
      /\ NoIntactHeader => NoIntactHeader'
      /\ NotIntact => NotIntact'
  BY <1>1, <1>3 DEF ReleasedIsAuthentic, OkMeansIntact, NoIntactHeader, NotIntact
<1> QED BY <1>1, <1>2, <1>3, <1>5, <1>6 DEF IInv

LEMMA NextInv == IInv /\ [Next]_vars => IInv'
<1> SUFFICES ASSUME IInv, [Next]_vars PROVE IInv'
  OBVIOUS
<1>1. CASE HeaderMissing \/ HeaderRefused \/ HeaderRead
  BY <1>1, HeaderSteps
<1>2. CASE TagMissing \/ TagRead \/ ParamsRefused \/ KeyResolved
  BY <1>2, TagAndKeySteps
<1>3. CASE HeaderNotAuthentic \/ HeaderAuthenticated
  BY <1>3, AuthenticateSteps
<1>4. CASE ChunkMissing \/ ChunkNotAuthentic
  BY <1>4, ChunkFailures
<1>5. CASE ChunkWritten
  BY <1>5, ChunkWrittenStep
<1>6. CASE SinkFails
  BY <1>6, SinkFailsStep
<1>7. CASE CallbackContinues \/ LoopEnds \/ InputExhausted
  BY <1>7, MoveOnSteps
<1>8. CASE TrailingByte \/ SizeChecked
  BY <1>8, ClosingSteps
<1>9. CASE CallbackCancels \/ ReadFails
  BY <1>9, InterruptedSteps
<1>10. CASE UNCHANGED vars
  BY <1>10, StutterInv
<1> QED BY <1>1, <1>2, <1>3, <1>4, <1>5, <1>6, <1>7, <1>8, <1>9, <1>10 DEF Next, Proceed

LEMMA InvHolds == Spec => []IInv
<1> QED BY InitInv, NextInv, PTL DEF Spec

-----------------------------------------------------------------------------
(* What holds of every decryption.                                         *)

\* Types are kept, whatever the input and the caller.
THEOREM TypeCorrect == Spec => []TypeOK
<1>1. IInv => TypeOK
  BY DEF IInv
<1> QED BY <1>1, InvHolds, PTL

\* decrypt_reader: no byte reaches the sink but the next byte of the one
\* archive whose header was presented and whose secret the caller gave.
THEOREM NothingForgedIsReleased == Spec => []ReleasedIsAuthentic
<1> QED BY ReleasedHolds, InvHolds, PTL

\* decrypt_reader: Ok(()) is only ever returned for a whole, intact container,
\* its whole plaintext written.
THEOREM OkIsEarned == Spec => []OkMeansIntact
<1>1. IInv => OkMeansIntact
  BY DEF IInv
<1> QED BY <1>1, InvHolds, PTL

\* decrypt_reader: an intact container of the caller's own opens, unless an
\* I/O error or the caller's cancellation interrupts it.
THEOREM IntactAlwaysOpens == Spec => []IntactOpens
<1>1. IInv => IntactOpens
  BY DEF IInv, TypeOK, IntactOpens, NotIntact, Errors
<1> QED BY <1>1, InvHolds, PTL

\* "Ok" neither too often nor too rarely.
THEOREM OkExactlyForIntact == Spec => []OkExactlyIfIntact
<1>1. OkMeansIntact /\ IntactOpens => OkExactlyIfIntact
  BY DEF OkExactlyIfIntact
<1> QED BY <1>1, OkIsEarned, IntactAlwaysOpens, PTL

\* decrypt_reader: "wrong password" is not said of damage below an intact
\* header and tag, nor "corrupted" to a caller whose secret is wrong.
THEOREM BlameIsAlwaysRight == Spec => []BlameIsRight
<1>1. IInv => BlameIsRight
  BY DEF IInv, BlameIsRight, NoIntactHeader
<1> QED BY <1>1, InvHolds, PTL

\* The comparison with total_plaintext_size that ends the function never
\* fails: the loop and the trailing-byte check have settled it.
THEOREM FinalSizeCheckNeverFails == Spec => []SizeCheckIsRedundant
<1>1. IInv => SizeCheckIsRedundant
  <2> SUFFICES ASSUME IInv, pc = "size" PROVE total_written = header.total_plaintext_size
    BY DEF SizeCheckIsRedundant
  <2>1. PICK a \in Archives : Reading(a)
    BY DEF IInv, InLoopOrAfter
  <2> QED BY <2>1, AllRead
<1> QED BY <1>1, InvHolds, PTL

\* The cursor, the counter and the sink move together with the chunk index.
THEOREM PositionIsFunctionOfIndex == Spec => []PositionFollowsIndex
<1>1. IInv => PositionFollowsIndex
  <2> SUFFICES ASSUME IInv, pc \in InLoopOrAfter
               PROVE  /\ total_written = PlainBefore(header, ChunksDone)
                      /\ total_written = Len(sink)
                      /\ pos = 1 + TagLen + total_written + ChunksDone * TagLen
    BY DEF PositionFollowsIndex, InLoopOrAfter
  <2>1. PICK a \in Archives : Reading(a)
    BY DEF IInv
  <2> QED BY <2>1 DEF Reading
<1> QED BY <1>1, InvHolds, PTL

\* What has been written before chunk i is at most the whole, and after the
\* last chunk the whole.
LEMMA PlainBeforeBounded ==
    ASSUME NEW a \in Archives, NEW i \in 0..(HeaderOf[a].total_chunks - 1)
    PROVE  LET h == HeaderOf[a] IN
           /\ PlainBefore(h, i + 1) \in Nat
           /\ PlainBefore(h, i + 1) <= h.total_plaintext_size
           /\ IsLast(h, i) => PlainBefore(h, i + 1) = h.total_plaintext_size
<1> DEFINE h == HeaderOf[a]
<1>1. HasSizes(h) /\ SizesConsistent(h) /\ h.total_chunks \in Nat \ {0}
  BY ArchiveHeader
<1>2. i \in Nat /\ i + 1 \in Nat /\ h.total_plaintext_size \in Nat
  BY <1>1 DEF HasSizes
<1>3. CASE i + 1 < h.total_chunks
  <2>1. h.chunk_size * (i + 1) \in U64 /\ h.chunk_size * (i + 1) <= h.total_plaintext_size
    BY <1>1, <1>2, <1>3, ChunkIsACut
  <2>2. PlainBefore(h, i + 1) = h.chunk_size * (i + 1)
    BY <1>3 DEF PlainBefore
  <2>3. ~IsLast(h, i)
    BY <1>1, <1>2, <1>3 DEF IsLast
  <2> QED BY <1>2, <2>1, <2>2, <2>3 DEF U64
<1>4. CASE ~(i + 1 < h.total_chunks)
  <2>1. PlainBefore(h, i + 1) = h.total_plaintext_size
    BY <1>4 DEF PlainBefore
  <2> QED BY <1>2, <2>1
<1> QED BY <1>3, <1>4

\* A part is never more than 100 %, the whole exactly 100 %.
LEMMA PercentBounded ==
    ASSUME NEW d \in Nat, NEW t \in Nat, d <= t
    PROVE  /\ Percent(d, t) <= 100
           /\ d = t => Percent(d, t) = 100
<1>1. CASE t = 0
  BY <1>1 DEF Percent
<1>2. CASE t > 0
  <2> DEFINE m == 2 * t
             n == 200 * d + t
             q == n \div m
  <2>1. Percent(d, t) = q
    BY <1>2 DEF Percent
  <2>2. n \in Nat /\ m \in Nat \ {0} /\ n < 101 * m
    BY <1>2
  <2>3. d = t => n = 100 * m + t
    OBVIOUS
  <2>4. t < m
    BY <1>2
  <2> HIDE DEF n, m
  <2>5. q \in Nat /\ n % m \in 0..(m - 1) /\ n = m * q + (n % m)
    BY <2>2, DivMod
  <2> HIDE DEF q
  <2>6. q <= 100
    <3> SUFFICES ASSUME q >= 101 PROVE FALSE
      BY <2>5
    <3>1. m * 101 <= m * q
      BY <2>2, <2>5, MulMonotone
    <3> QED BY <2>2, <2>5, <3>1
  <2>7. ASSUME d = t PROVE q = 100
    <3> SUFFICES ASSUME q <= 99 PROVE FALSE
      BY <2>5, <2>6
    <3>1. m * q <= m * 99
      BY <2>2, <2>5, MulMonotone
    <3> QED BY <2>2, <2>3, <2>5, <2>7, <3>1
  <2> QED BY <2>1, <2>6, <2>7
<1> QED BY <1>1, <1>2

\* The progress callback is never told more than 100 %, and 100 % of the last
\* chunk.
THEOREM ProgressNeverOverstates == Spec => []ProgressHonest
<1>1. IInv => ProgressHonest
  <2> SUFFICES ASSUME IInv, pc = "progress"
               PROVE  /\ index < header.total_chunks
                      /\ total_written <= header.total_plaintext_size
                      /\ Percent(total_written, header.total_plaintext_size) <= 100
                      /\ IsLast(header, index) =>
                            Percent(total_written, header.total_plaintext_size) = 100
    BY DEF ProgressHonest
  <2>1. PICK a \in Archives : Reading(a)
    BY DEF IInv, InLoopOrAfter
  <2>2. /\ header = HeaderOf[a]
        /\ index \in Nat /\ index < header.total_chunks
        /\ total_written = PlainBefore(header, index + 1)
    BY <2>1 DEF Reading, ChunksDone, IInv, TypeOK
  <2>3. /\ HeaderOf[a].total_chunks \in Nat
        /\ HeaderOf[a].total_plaintext_size \in Nat
    BY ArchiveHeader DEF HasSizes
  <2>4. index \in 0..(HeaderOf[a].total_chunks - 1)
    BY <2>2, <2>3
  <2>5. /\ total_written \in Nat
        /\ total_written <= header.total_plaintext_size
        /\ IsLast(header, index) => total_written = header.total_plaintext_size
    BY <2>2, <2>4, PlainBeforeBounded
  <2> QED BY <2>2, <2>3, <2>5, PercentBounded
<1> QED BY <1>1, InvHolds, PTL

\* Position, bytes written, chunk index and reported progress never drift apart.
THEOREM CountersAlwaysAgree == Spec => []CountersAgree
<1>1. PositionFollowsIndex /\ SizeCheckIsRedundant /\ ProgressHonest => CountersAgree
  BY DEF CountersAgree
<1> QED BY <1>1, PositionIsFunctionOfIndex, FinalSizeCheckNeverFails,
           ProgressNeverOverstates, PTL

-----------------------------------------------------------------------------
(* decrypt_bytes: the buffer is never outgrown.                            *)

\* What the sink holds has been read, under the header that the input starts
\* with.
BytesInv ==
    /\ Len(sink) <= pos
    /\ (pc \notin {"header", "done"} \/ sink # <<>>) =>
          /\ Len(input) >= 1 /\ input[1] = HeaderByte(header)
          /\ Parses(header, caller.version)

LEMMA BytesKept ==
    ASSUME IInv, IInv', BytesInv, [Next]_vars
    PROVE  BytesInv'
<1>0. /\ pos \in Nat /\ sink \in Seq(PlainBytes) /\ Len(sink) \in Nat
      /\ pc = "header" => sink = <<>> /\ pos = 0
  BY InputsAreWire DEF IInv, TypeOK, PlainBytes, NothingReleased
<1>1. CASE HeaderRead
  <2>1. /\ sink' = <<>> /\ pos' = 1 /\ pc' = "tag"
    BY <1>0, <1>1 DEF HeaderRead
  <2>2. HeaderKnown'
    BY <2>1 DEF IInv
  <2>3. Len(sink') <= pos'
    BY <2>1
  <2> QED BY <2>2, <2>3 DEF BytesInv, HeaderKnown
<1>2. CASE ChunkWritten \/ SinkFails
  <2>1. /\ InLoop /\ ~Short(WantCipher) /\ pc = "chunk" /\ pos' = pos + WantCipher
        /\ UNCHANGED <<input, caller, header>>
    BY <1>2 DEF ChunkWritten, SinkFails, InLoop
  <2>2. PICK b \in ChunkBoxes : \/ sink' = sink \o Text(b)
                                \/ \E n \in 0..TextLen(b) : sink' = sink \o SubSeq(Text(b), 1, n)
    BY <1>2 DEF ChunkWritten, SinkFails
  <2>3. PICK a \in Archives : /\ index \in 0..(HeaderOf[a].total_chunks - 1)
                              /\ b = <<a, index>>
                              /\ TextLen(b) = ExpectedLen(header, index)
    BY <2>1, <2>2, OpensChunk
  <2>4. /\ Text(b) \in Seq(PlainBytes) /\ Len(Text(b)) = TextLen(b) /\ TextLen(b) \in Nat
    BY <2>3, TextIsSeq
  <2>5. WantCipher = TextLen(b) + TagLen
    BY <2>3 DEF WantCipher
  <2>6. Len(sink') <= Len(sink) + TextLen(b)
    <3>1. CASE sink' = sink \o Text(b)
      BY <1>0, <2>4, <3>1
    <3>2. ASSUME NEW n \in 0..TextLen(b), sink' = sink \o SubSeq(Text(b), 1, n)
          PROVE  Len(sink') <= Len(sink) + TextLen(b)
      <4>1. SubSeq(Text(b), 1, n) \in Seq(PlainBytes) /\ Len(SubSeq(Text(b), 1, n)) = n
        BY <2>4
      <4> QED BY <1>0, <2>4, <3>2, <4>1
    <3> QED BY <2>2, <3>1, <3>2
  <2>7. sink' \in Seq(PlainBytes)
    BY DEF IInv, PlainBytes
  <2>8. Len(sink') <= pos'
    BY <1>0, <2>1, <2>4, <2>5, <2>6, <2>7, Widths DEF BytesInv
  <2> QED BY <2>1, <2>8 DEF BytesInv
<1>3. CASE /\ UNCHANGED <<input, caller, header, sink>>
           /\ pos' \in {pos, pos + TagLen}
           /\ pc' = "header" => pc = "header"
           /\ pc = "header" => pc' \in {"header", "done"}
           /\ pc = "done" => pc' = "done"
  BY <1>0, <1>3, Widths DEF BytesInv
<1> QED BY <1>1, <1>2, <1>3
        DEF Next, Proceed, HeaderMissing, HeaderRefused, TagMissing, TagRead, ParamsRefused,
            KeyResolved, HeaderNotAuthentic, HeaderAuthenticated, InLoop, ChunkMissing,
            ChunkNotAuthentic, CallbackContinues, CallbackCancels, LoopEnds, TrailingByte,
            InputExhausted, SizeChecked, ReadFails, Return, vars

LEMMA HeaderByteIsKnown ==
    ASSUME input \in Seq(WireBytes), Len(input) >= 1, input[1].part = "header"
    PROVE  \E h \in Headers : input[1] = HeaderByte(h) /\ input[1].of[1] = h
<1>1. input[1] \in WireBytes
  OBVIOUS
<1>2. CASE input[1] = Noise
  BY <1>2 DEF Noise
<1>3. ASSUME NEW b \in Boxes, NEW k \in 1..(TextLen(b) + TagLen), input[1] = BoxByte(b, k)
      PROVE  FALSE
  BY <1>3 DEF BoxByte
<1>4. PICK h \in Headers : input[1] = HeaderByte(h)
  BY <1>1, <1>2, <1>3, WireByteSorts
<1>5. input[1].of[1] = h
  BY <1>4 DEF HeaderByte
<1> QED BY <1>4, <1>5

\* decrypt_bytes reserves its buffer once, no larger than the input, and what
\* is decrypted never outgrows it, whatever the header declares.
THEOREM BufferNeverOutgrown == Spec => []NeverReallocated
<1>1. Init => BytesInv
  <2> SUFFICES ASSUME Init PROVE BytesInv
    OBVIOUS
  <2>1. sink = <<>> /\ pos = 0 /\ pc = "header"
    BY DEF Init
  <2> QED BY <2>1 DEF BytesInv
<1>2. IInv /\ IInv' /\ BytesInv /\ [Next]_vars => BytesInv'
  BY BytesKept
<1>3. IInv /\ BytesInv /\ ReleasedIsAuthentic => NeverReallocated
  <2> SUFFICES ASSUME IInv, BytesInv, ReleasedIsAuthentic, caller.version = 1
               PROVE  /\ Len(sink) <= Capacity
                      /\ Capacity <= Len(input)
                      /\ result = "Ok" => Len(sink) = Capacity
    BY DEF NeverReallocated
  <2>1. /\ input \in Seq(WireBytes) /\ Len(input) \in Nat /\ pos \in 0..Len(input)
        /\ sink \in Seq(PlainBytes) /\ Len(sink) \in Nat
        /\ Len(sink) <= pos
    BY InputsAreWire DEF IInv, TypeOK, PlainBytes, BytesInv
  <2>2. input # <<>> <=> Len(input) >= 1
    BY <2>1, EmptySeq
  <2>3. Declared \in Nat
    <3>1. CASE input # <<>> /\ HeaderReadable
      <4>1. PICK h \in Headers : input[1].of[1] = h
        BY <2>1, <2>2, <3>1, HeaderByteIsKnown DEF HeaderReadable
      <4> QED BY <3>1, <4>1, HeadersHaveSizes DEF Declared, HasSizes
    <3> QED BY <3>1 DEF Declared
  <2>4. Capacity <= Len(input)
    BY <2>1, <2>3 DEF Capacity, Smaller
  <2>5. Len(sink) <= Declared
    <3>1. CASE sink = <<>>
      BY <2>3, <3>1
    <3>2. CASE sink # <<>>
      <4>1. PICK a \in Archives : header = HeaderOf[a] /\ IsPrefix(sink, Plaintext(a))
        BY <3>2 DEF ReleasedIsAuthentic
      <4>2. Len(sink) <= HeaderOf[a].total_plaintext_size
        BY <4>1, PlaintextIsSeq DEF IsPrefix
      <4>3. input # <<>> /\ HeaderReadable /\ input[1].of[1] = header
        BY <2>2, <3>2 DEF BytesInv, HeaderReadable, HeaderByte
      <4> QED BY <4>1, <4>2, <4>3 DEF Declared
    <3> QED BY <3>1, <3>2
  <2>6. Len(sink) <= Capacity
    BY <2>1, <2>3, <2>5 DEF Capacity, Smaller
  <2>7. ASSUME result = "Ok" PROVE Len(sink) = Capacity
    <3>1. PICK a \in Archives : Owns(a) /\ IsContainer(input, a) /\ sink = Plaintext(a)
      BY <2>7 DEF IInv, OkMeansIntact
    <3>2. /\ Len(sink) = HeaderOf[a].total_plaintext_size
          /\ input[1] = HeaderByte(HeaderOf[a])
      BY <3>1, PlaintextIsSeq DEF IsContainer
    <3>3. Len(input) = ContainerLen(HeaderOf[a])
      BY <3>1 DEF IsContainer
    <3>4. /\ HeaderOf[a].total_plaintext_size \in Nat /\ HeaderOf[a].total_chunks \in Nat
      BY ArchiveHeader DEF HasSizes
    <3>5. HeaderOf[a].total_chunks * TagLen \in Nat
      BY <3>4, Widths
    <3>6. Len(input) >= 1
      BY <3>3, <3>4, <3>5, Widths DEF ContainerLen
    <3>7. HeaderReadable
      BY <3>1, <3>2, ArchivesWellFormed DEF HeaderReadable, HeaderByte, Owns
    <3>8. Declared = Len(sink)
      BY <2>2, <3>2, <3>6, <3>7 DEF Declared, HeaderByte
    <3> QED BY <2>1, <2>6, <3>8 DEF Capacity, Smaller
  <2> QED BY <2>4, <2>6, <2>7
<1> QED BY <1>1, <1>2, <1>3, InvHolds, NothingForgedIsReleased, PTL DEF Spec

-----------------------------------------------------------------------------
(* The reader implements AuthenticRelease.                                 *)

LEMMA ConcatHasPrefix ==
    ASSUME NEW s \in Seq(PlainBytes), NEW u \in Seq(PlainBytes)
    PROVE  IsPrefix(s, s \o u)
<1> DEFINE t == s \o u
<1>1. /\ t \in Seq(PlainBytes) /\ Len(t) = Len(s) + Len(u)
      /\ \A j \in 1..(Len(s) + Len(u)) : t[j] = IF j <= Len(s) THEN s[j] ELSE u[j - Len(s)]
  BY ConcatProperties
<1>2. Len(s) \in Nat /\ Len(u) \in Nat
  OBVIOUS
<1> HIDE DEF t
<1>3. \A j \in 1..Len(s) : t[j] = s[j] /\ t[j] \in PlainBytes
  <2> TAKE j \in 1..Len(s)
  <2>1. j \in 1..(Len(s) + Len(u)) /\ j <= Len(s)
    BY <1>2
  <2>2. t[j] = IF j <= Len(s) THEN s[j] ELSE u[j - Len(s)]
    BY <1>1, <2>1
  <2> QED BY <2>1, <2>2
<1>4. /\ SubSeq(t, 1, Len(s)) \in Seq(PlainBytes)
      /\ Len(SubSeq(t, 1, Len(s))) = Len(s)
      /\ \A j \in 1..Len(s) : SubSeq(t, 1, Len(s))[j] = t[j]
  BY <1>2, <1>3, SubSeqProperties
<1>5. SubSeq(t, 1, Len(s)) = s
  BY <1>3, <1>4, SeqEqual
<1>6. SubSeq(s, 1, Len(s)) = s
  BY SubSeqFull
<1> QED BY <1>1, <1>2, <1>5, <1>6 DEF IsPrefix, t

\* A step that hands bytes to the sink appends to what it holds.
LEMMA SinkGrows ==
    ASSUME IInv, ChunkWritten \/ SinkFails
    PROVE  IsPrefix(sink, sink')
<1>1. sink \in Seq(PlainBytes) /\ InLoop /\ ~Short(WantCipher)
  BY DEF IInv, PlainBytes, ChunkWritten, SinkFails
<1>2. PICK b \in ChunkBoxes : \/ sink' = sink \o Text(b)
                              \/ \E n \in 0..TextLen(b) : sink' = sink \o SubSeq(Text(b), 1, n)
  BY DEF ChunkWritten, SinkFails
<1>3. PICK a \in Archives : /\ index \in 0..(HeaderOf[a].total_chunks - 1)
                            /\ b = <<a, index>>
  BY <1>1, <1>2, OpensChunk
<1>4. /\ Text(b) \in Seq(PlainBytes) /\ Len(Text(b)) = TextLen(b) /\ TextLen(b) \in Nat
  BY <1>3, TextIsSeq
<1>5. ASSUME NEW n \in 0..TextLen(b) PROVE SubSeq(Text(b), 1, n) \in Seq(PlainBytes)
  BY <1>4
<1> QED BY <1>1, <1>2, <1>4, <1>5, ConcatHasPrefix

\* decrypt_reader and decrypt_stream_v2 keep the promise AuthenticRelease
\* makes to whoever consumes the sink.
THEOREM KeepsItsPromise == Spec => KeepsPromise
<1>1. Init => Promise!Init
  <2> SUFFICES ASSUME Init PROVE Promise!Init
    OBVIOUS
  <2>1. Verdict = "pending"
    BY DEF Init, Verdict
  <2> QED BY <2>1 DEF Init, Promise!Init
<1>2. IInv /\ IInv' /\ ReleasedIsAuthentic' /\ [Next]_vars
      => [Promise!Next]_(Promise!relVars)
  <2> SUFFICES ASSUME IInv, IInv', ReleasedIsAuthentic', [Next]_vars
               PROVE  [Promise!Next]_(Promise!relVars)
    OBVIOUS
  <2>1. \A a \in Archives : Owns(a) => a \in Holdings[caller] /\ Contents[a] = Plaintext(a)
    BY DEF Owns, Holdings, Contents, IInv, TypeOK
  <2>2. /\ pc # "done" => Verdict = "pending"
        /\ result' = "Ok" => Verdict' = "Ok"
        /\ result' \in Errors => Verdict' = "failed"
    BY DEF IInv, TypeOK, Errors, Verdict
  <2>3. ASSUME UNCHANGED caller, IsPrefix(sink, sink'), sink' # sink
        PROVE  \E a \in Archives : Owns(a) /\ IsPrefix(sink', Plaintext(a))
    <3>1. sink \in Seq(PlainBytes) /\ Len(sink) <= Len(sink')
      BY <2>3 DEF IInv, PlainBytes, IsPrefix
    <3>2. sink' # <<>>
      BY <2>3, <3>1
    <3>3. PICK a \in Archives : Owns(a)' /\ IsPrefix(sink', Plaintext(a))
      BY <3>2 DEF ReleasedIsAuthentic
    <3> QED BY <2>3, <3>3 DEF Owns
  <2>4. ASSUME NEW r \in Errors, Return(r), pc # "done" PROVE Promise!GiveUp
    <3>1. Verdict = "pending" /\ Verdict' = "failed" /\ UNCHANGED <<caller, sink>>
      BY <2>2, <2>4 DEF Return
    <3> QED BY <3>1 DEF Promise!GiveUp
  <2>5. CASE ChunkWritten
    <3>1. pc = "chunk" /\ pc' = "progress" /\ UNCHANGED <<caller, result>>
      BY <2>5 DEF ChunkWritten, InLoop
    <3>2. Verdict = "pending" /\ Verdict' = Verdict
      BY <2>2, <3>1 DEF Verdict
    <3>3. IsPrefix(sink, sink')
      BY <2>5, SinkGrows
    <3>4. CASE sink' = sink
      BY <3>1, <3>2, <3>4 DEF Promise!relVars
    <3>5. CASE sink' # sink
      <4>1. PICK a \in Archives : Owns(a) /\ IsPrefix(sink', Plaintext(a))
        BY <2>3, <3>1, <3>3, <3>5
      <4>2. a \in Holdings[caller] /\ IsPrefix(sink', Contents[a])
        BY <2>1, <4>1
      <4> QED BY <3>1, <3>2, <3>3, <4>2 
           DEF Promise!Release, Promise!Next, Promise!IsPrefix, IsPrefix
    <3> QED BY <3>4, <3>5
  <2>6. CASE SinkFails
    <3>1. pc = "chunk" /\ result' = "Io" /\ UNCHANGED <<caller, header>>
      BY <2>6 DEF SinkFails, InLoop
    <3>2. Verdict = "pending" /\ Verdict' = "failed"
      BY <2>2, <3>1 DEF Errors
    <3>3. IsPrefix(sink, sink')
      BY <2>6, SinkGrows
    <3>4. CASE sink' = sink
      BY <3>1, <3>2, <3>4 DEF Promise!GiveUp, Promise!Next
    <3>5. CASE sink' # sink
      <4>1. PICK a \in Archives : Owns(a) /\ IsPrefix(sink', Plaintext(a))
        BY <2>3, <3>1, <3>3, <3>5
      <4>2. a \in Holdings[caller] /\ IsPrefix(sink', Contents[a])
        BY <2>1, <4>1
      <4> QED BY <3>1, <3>2, <3>3, <4>2
           DEF Promise!GiveUp, Promise!Next, Promise!IsPrefix, IsPrefix
    <3> QED BY <3>4, <3>5
  <2>7. CASE SizeChecked
    <3>1. pc = "size"
      BY <2>7 DEF SizeChecked
    <3>2. PICK a \in Archives : Reading(a)
      BY <3>1 DEF IInv, InLoopOrAfter
    <3>3. result' = "Ok" /\ UNCHANGED <<caller, sink>>
      BY <2>7, <3>1, <3>2, AllRead DEF SizeChecked, Return
    <3>4. PICK c \in Archives : Owns(c)' /\ sink' = Plaintext(c)
      BY <3>3 DEF IInv, OkMeansIntact
    <3>5. Owns(c) /\ sink = Plaintext(c)
      BY <3>3, <3>4 DEF Owns
    <3>6. Promise!Succeed
      BY <2>1, <2>2, <3>1, <3>3, <3>5 DEF Promise!Succeed
    <3> QED BY <3>6 DEF Promise!Next
  <2>8. CASE \/ HeaderRead \/ TagRead \/ KeyResolved \/ HeaderAuthenticated
             \/ CallbackContinues \/ LoopEnds \/ InputExhausted \/ UNCHANGED vars
    <3>1. UNCHANGED <<caller, sink, result>>
      BY <2>8 DEF HeaderRead, TagRead, KeyResolved, HeaderAuthenticated,
                  CallbackContinues, LoopEnds, InputExhausted, vars
    <3> QED BY <3>1 DEF Promise!relVars, Verdict
  <2>9. CASE \/ HeaderMissing \/ HeaderRefused \/ TagMissing \/ ParamsRefused
             \/ HeaderNotAuthentic \/ ChunkMissing \/ ChunkNotAuthentic
             \/ CallbackCancels \/ TrailingByte \/ ReadFails
    <3>1. pc # "done" /\ \E r \in Errors : Return(r)
      BY <2>9 DEF HeaderMissing, HeaderRefused, TagMissing, ParamsRefused,
                  HeaderNotAuthentic, ChunkMissing, ChunkNotAuthentic,
                  CallbackCancels, TrailingByte, ReadFails, InLoop, Errors
    <3> QED BY <2>4, <3>1 DEF Promise!Next
  <2> QED BY <2>5, <2>6, <2>7, <2>8, <2>9 DEF Next, Proceed
<1> QED BY <1>1, <1>2, InvHolds, NothingForgedIsReleased, PTL DEF Spec, KeepsPromise, Promise!Spec
-----------------------------------------------------------------------------
(* Which damage is given which answer.                                     *)

\* What is known of the input when the function has answered.
AnswerInv ==
    /\ result = "InvalidHeader" => Len(input) >= 1 /\ ~HeaderReadable
    /\ result = "Crypto" =>
          /\ Len(input) > TagLen
          /\ caller.version = 1 /\ ~Derivable(input[1].of[1])
    /\ result = "WrongPassword" => Len(input) > TagLen
    /\ result = "Truncated" =>
          \/ Len(input) <= TagLen
          \/ \E a \in Archives : /\ HeaderIntact(a) /\ Owns(a)
                                 /\ Len(input) < ContainerLen(HeaderOf[a])
    /\ result = "Corrupted" =>
          \E a \in Archives : HeaderIntact(a) /\ Owns(a) /\ ~CutShort(a)
    /\ result = "Cancelled" => \E a \in Archives : HeaderIntact(a) /\ Owns(a)

\* A chunk of an archive ends within its container.
LEMMA ChunkEndsInside ==
    ASSUME NEW a \in Archives, NEW i \in 0..(HeaderOf[a].total_chunks - 1)
    PROVE  LET h == HeaderOf[a] IN
           ChunkStart(h, i) + ExpectedLen(h, i) + TagLen <= ContainerLen(h)
<1> DEFINE h == HeaderOf[a]
           N == h.total_chunks
           S == h.total_plaintext_size
<1>1. N \in Nat /\ S \in Nat /\ TagLen \in Nat
  BY ArchiveHeader, Widths DEF HasSizes
<1>2. i \in Nat /\ i + 1 <= N /\ i + 1 \in Nat
  BY <1>1
<1>3. /\ PlainBefore(h, i) \in Nat /\ ExpectedLen(h, i) \in Nat
      /\ PlainBefore(h, i) + ExpectedLen(h, i) <= S
      /\ ChunkStart(h, i) = 1 + TagLen + PlainBefore(h, i) + i * TagLen
  BY ChunkPlace, PlainBeforeBounded
<1>4. (i + 1) * TagLen <= N * TagLen
  BY <1>1, <1>2, MulMonotone
<1>5. (i + 1) * TagLen = i * TagLen + TagLen
  BY <1>1, <1>2
<1>6. i * TagLen \in Nat /\ N * TagLen \in Nat
  BY <1>1, <1>2
<1> DEFINE x == i * TagLen
           y == N * TagLen
           b == PlainBefore(h, i)
           e == ExpectedLen(h, i)
<1>7. ContainerLen(h) = 1 + TagLen + S + y
  BY DEF ContainerLen
<1>8. x + TagLen <= y /\ x \in Nat /\ y \in Nat
  BY <1>4, <1>5, <1>6
<1>9. ChunkStart(h, i) = 1 + TagLen + b + x /\ b + e <= S /\ b \in Nat /\ e \in Nat
  BY <1>3
<1> HIDE DEF x, y, b, S
<1> QED BY <1>1, <1>7, <1>8, <1>9 DEF e

\* The chunk that is read is there if the input begins like the container.
LEMMA NextChunkOpens ==
    ASSUME IInv, InLoop, ~Short(WantCipher), NEW a \in Archives, Reading(a), BeginsLike(a)
    PROVE  ChunkBoxes # {}
<1> DEFINE b == <<a, index>>
<1>1. /\ header = HeaderOf[a] /\ index \in 0..(HeaderOf[a].total_chunks - 1)
      /\ pos = ChunkStart(header, index)
  BY AtChunk
<1>2. /\ b \in Boxes /\ SealAad(b) = ChunkAad(header, index)
      /\ TextLen(b) = ExpectedLen(header, index)
  BY <1>1, ChunkBox
<1>3. SealKey(b) = key /\ SealNonce(b) = DeriveNonce(header.base_nonce, index)
  BY <1>1 DEF SealKey, SealNonce, Reading
<1>4. Len(input) \in Nat /\ pos \in Nat /\ WantCipher \in Nat
  BY <1>1, ChunkPlace, InputsAreWire, Widths DEF IInv, TypeOK, WantCipher
<1>5. pos + WantCipher <= Len(input)
  BY <1>4 DEF Short
<1>6. \A k \in 1..WantCipher : pos + k <= Len(input) => input[pos + k] = BoxByte(b, k)
  BY <1>1 DEF BeginsLike, WantCipher
<1>7. \A k \in 1..WantCipher : pos + k <= Len(input)
  BY <1>4, <1>5
<1>8. BoxAt(input, pos, WantCipher, b)
  BY <1>2, <1>5, <1>6, <1>7 DEF BoxAt, WantCipher
<1> QED BY <1>2, <1>3, <1>8 DEF ChunkBoxes, Opened

LEMMA AnswerKept ==
    ASSUME IInv, AnswerInv, [Next]_vars
    PROVE  AnswerInv'
<1> DEFINE Same == UNCHANGED <<input, caller>>
<1>1. Same
  BY DEF Next, Proceed, HeaderMissing, HeaderRefused, HeaderRead, TagMissing, TagRead,
         ParamsRefused, KeyResolved, HeaderNotAuthentic, HeaderAuthenticated, ChunkMissing,
         ChunkNotAuthentic, ChunkWritten, SinkFails, CallbackContinues, CallbackCancels,
         LoopEnds, TrailingByte, InputExhausted, SizeChecked, ReadFails, Return, vars
<1>2. /\ \A a \in Archives : /\ HeaderIntact(a)' = HeaderIntact(a) /\ Owns(a)' = Owns(a)
                             /\ CutShort(a)' = CutShort(a)
      /\ HeaderReadable' = HeaderReadable
  BY <1>1 DEF HeaderIntact, Owns, CutShort, BeginsLike, HeaderReadable
<1>3. ASSUME NEW answer, result' = answer,
             /\ answer = "InvalidHeader" => Len(input) >= 1 /\ ~HeaderReadable
             /\ answer = "Crypto" =>
                   /\ Len(input) > TagLen
                   /\ caller.version = 1 /\ ~Derivable(input[1].of[1])
             /\ answer = "WrongPassword" => Len(input) > TagLen
             /\ answer = "Truncated" =>
                   \/ Len(input) <= TagLen
                   \/ \E a \in Archives : /\ HeaderIntact(a) /\ Owns(a)
                                          /\ Len(input) < ContainerLen(HeaderOf[a])
             /\ answer = "Corrupted" =>
                   \E a \in Archives : HeaderIntact(a) /\ Owns(a) /\ ~CutShort(a)
             /\ answer = "Cancelled" => \E a \in Archives : HeaderIntact(a) /\ Owns(a)
      PROVE  AnswerInv'
  BY <1>1, <1>2, <1>3 DEF AnswerInv
<1>4. CASE result' = result
  BY <1>3, <1>4 DEF AnswerInv
<1>5. CASE result' \in {"Io", "Ok"}
  BY <1>3, <1>5
<1>6. Len(input) \in Nat /\ TagLen \in Nat
  BY InputsAreWire, Widths DEF IInv, TypeOK
<1>7. pc \in InLoopOrAfter => \E a \in Archives : Reading(a) /\ HeaderIntact(a) /\ Owns(a)
  BY DEF IInv, Reading
<1>8. CASE HeaderMissing
  <2>1. result' = "Truncated" /\ Len(input) <= TagLen
    BY <1>6, <1>8, Widths DEF HeaderMissing, Return, Short, IInv
  <2> QED BY <1>3, <2>1
<1>9. CASE HeaderRefused
  <2>1. result' = "InvalidHeader" /\ Len(input) >= 1 /\ ~HeaderReadable
    BY <1>6, <1>9 DEF HeaderRefused, Return, Short, IInv
  <2> QED BY <1>3, <2>1
<1>10. CASE TagMissing
  <2>1. result' = "Truncated" /\ Len(input) <= TagLen
    BY <1>6, <1>10 DEF TagMissing, Return, Short, IInv
  <2> QED BY <1>3, <2>1
<1>11. CASE ParamsRefused
  <2>1. result' = "Crypto" /\ caller.version = 1 /\ ~Derivable(header)
    BY <1>11 DEF ParamsRefused, Return
  <2>2. input[1] = HeaderByte(header) /\ pos = 1 + TagLen /\ pos <= Len(input)
    BY <1>6, <1>11 DEF ParamsRefused, IInv, TypeOK, HeaderKnown
  <2>3. input[1].of[1] = header /\ Len(input) > TagLen
    BY <1>6, <2>2 DEF HeaderByte
  <2> QED BY <1>3, <2>1, <2>3
<1>12. CASE HeaderNotAuthentic
  <2>1. result' = "WrongPassword" /\ pos = 1 + TagLen /\ pos <= Len(input)
    BY <1>6, <1>12 DEF HeaderNotAuthentic, Return, IInv, TypeOK
  <2>2. Len(input) > TagLen
    BY <1>6, <2>1
  <2> QED BY <1>3, <2>1, <2>2
<1>13. CASE ChunkMissing
  <2>1. InLoop /\ pc \in InLoopOrAfter /\ result' = "Truncated" /\ Short(WantCipher)
    BY <1>13 DEF ChunkMissing, Return, InLoop, InLoopOrAfter
  <2>2. PICK a \in Archives : Reading(a) /\ HeaderIntact(a) /\ Owns(a)
    BY <1>7, <2>1
  <2>3. /\ header = HeaderOf[a] /\ index \in 0..(HeaderOf[a].total_chunks - 1)
        /\ pos = ChunkStart(header, index)
    BY <2>1, <2>2, AtChunk
  <2>4. ChunkStart(header, index) + ExpectedLen(header, index) + TagLen <= ContainerLen(header)
    BY <2>3, ChunkEndsInside
  <2>5. ExpectedLen(header, index) \in Nat /\ pos \in Nat /\ ContainerLen(header) \in Int
    <3>1. HeaderOf[a].total_plaintext_size \in Nat /\ HeaderOf[a].total_chunks \in Nat
      BY ArchiveHeader DEF HasSizes
    <3>2. HeaderOf[a].total_chunks * TagLen \in Int
      BY <1>6, <3>1
    <3>3. ContainerLen(header) \in Int
      BY <1>6, <2>3, <3>1, <3>2 DEF ContainerLen
    <3> QED BY <2>3, <3>3, ChunkPlace DEF IInv, TypeOK
  <2>6. Len(input) < pos + (ExpectedLen(header, index) + TagLen)
    BY <2>1 DEF Short, WantCipher
  <2>7. Len(input) < ContainerLen(HeaderOf[a])
    BY <1>6, <2>3, <2>4, <2>5, <2>6
  <2> QED BY <1>3, <2>1, <2>2, <2>7
<1>14. CASE ChunkNotAuthentic
  <2>1. /\ InLoop /\ pc \in InLoopOrAfter /\ result' = "Corrupted"
        /\ ~Short(WantCipher) /\ ChunkBoxes = {}
    BY <1>14 DEF ChunkNotAuthentic, Return, InLoop, InLoopOrAfter
  <2>2. PICK a \in Archives : Reading(a) /\ HeaderIntact(a) /\ Owns(a)
    BY <1>7, <2>1
  <2>3. ~CutShort(a)
    BY <2>1, <2>2, NextChunkOpens DEF CutShort
  <2> QED BY <1>3, <2>1, <2>2, <2>3
<1>15. CASE CallbackCancels
  <2>1. pc \in InLoopOrAfter /\ result' = "Cancelled"
    BY <1>15 DEF CallbackCancels, Return, InLoopOrAfter
  <2> QED BY <1>3, <1>7, <2>1
<1>16. CASE TrailingByte
  <2>1. pc = "trailing" /\ pc \in InLoopOrAfter /\ result' = "Corrupted" /\ ~Short(1)
    BY <1>16 DEF TrailingByte, Return, InLoopOrAfter
  <2>2. PICK a \in Archives : Reading(a) /\ HeaderIntact(a) /\ Owns(a)
    BY <1>7, <2>1
  <2>3. pos = ContainerLen(HeaderOf[a]) /\ pos \in Nat
    BY <2>1, <2>2, AllRead DEF IInv, TypeOK
  <2>4. ~CutShort(a)
    BY <1>6, <2>1, <2>3 DEF CutShort, Short
  <2> QED BY <1>3, <2>1, <2>2, <2>4
<1>17. CASE SizeChecked
  <2>1. pc = "size" /\ pc \in InLoopOrAfter
    BY <1>17 DEF SizeChecked, InLoopOrAfter
  <2>2. PICK a \in Archives : Reading(a)
    BY <1>7, <2>1
  <2>3. result' = "Ok"
    BY <1>17, <2>1, <2>2, AllRead DEF SizeChecked, Return
  <2> QED BY <1>5, <2>3
<1>18. CASE SinkFails \/ ReadFails
  BY <1>5, <1>18 DEF SinkFails, ReadFails, Return
<1>19. CASE \/ HeaderRead \/ TagRead \/ KeyResolved \/ HeaderAuthenticated \/ ChunkWritten
            \/ CallbackContinues \/ LoopEnds \/ InputExhausted \/ UNCHANGED vars
  BY <1>4, <1>19 DEF HeaderRead, TagRead, KeyResolved, HeaderAuthenticated, ChunkWritten,
                     CallbackContinues, LoopEnds, InputExhausted, vars
<1> QED BY <1>8, <1>9, <1>10, <1>11, <1>12, <1>13, <1>14, <1>15, <1>16, <1>17, <1>18, <1>19
        DEF Next, Proceed

LEMMA InitAnswer == Init => AnswerInv
BY DEF Init, AnswerInv

LEMMA AnswerInvHolds == Spec => []AnswerInv
BY InitAnswer, AnswerKept, InvHolds, PTL DEF Spec

\* The beginning of a container that reaches beyond the tag has its header.
LEMMA CutHasHeader ==
    ASSUME NEW a \in Archives, BeginsLike(a), Len(input) > TagLen, Len(input) \in Nat
    PROVE  HeaderIntact(a)
<1>1. TagLen \in Nat \ {0} /\ 1 + TagLen <= Len(input) /\ Len(input) >= 1
  BY Widths
<1>2. TextLen(<<a, HeaderCounter>>) = 0
  BY DEF TextLen
<1>3. \A k \in 1..TagLen : 1 + k <= Len(input)
  BY <1>1
<1>4. \A k \in 1..TagLen : input[1 + k] = BoxByte(<<a, HeaderCounter>>, k)
  BY <1>3 DEF BeginsLike
<1>5. TagLen = TextLen(<<a, HeaderCounter>>) + TagLen
  BY <1>1, <1>2
<1> QED BY <1>1, <1>4, <1>5 DEF HeaderIntact, BeginsLike, BoxAt

\* A damaged container is given the answer FORMAT.md (section 6) announces for
\* the damage, and one presented with another secret is called that.
LEMMA AnswersFollow ==
    ASSUME IInv, AnswerInv
    PROVE  AnswersAreTheTable
<1>1. Len(input) \in Nat /\ TagLen \in Nat \ {0}
  BY InputsAreWire, Widths DEF IInv, TypeOK
<1>2. pc = "done" => result \in {"Ok"} \cup Errors
  BY DEF IInv, TypeOK
<1>3. \A b \in Archives : HeaderIntact(b) => Len(input) > TagLen
  BY DEF HeaderIntact
<1>4. ASSUME NEW a \in Archives, HeaderIntact(a), Owns(a)
      PROVE  result \notin {"WrongPassword", "InvalidHeader", "Crypto"}
  BY <1>4 DEF IInv, NoIntactHeader
<1>5. ASSUME NEW a \in Archives, pc = "done", Owns(a), CutShort(a)
      PROVE  Says({"Truncated"})
  <2>1. BeginsLike(a) /\ Len(input) < ContainerLen(HeaderOf[a])
    BY <1>5 DEF CutShort
  <2>2. ~IsContainer(input, a)
    <3>1. Len(input) # ContainerLen(HeaderOf[a])
      BY <1>1, <2>1
    <3> QED BY <3>1 DEF IsContainer
  <2>3. CASE Len(input) > TagLen
    <3>1. HeaderIntact(a)
      BY <1>1, <2>1, <2>3, CutHasHeader
    <3>2. result # "Corrupted"
      BY <1>5, <3>1, SameArchive DEF AnswerInv
    <3>3. result # "Ok"
      BY <2>2, <3>1, IntactHasHeader, SameArchive DEF IInv, OkMeansIntact
    <3> QED BY <1>2, <1>4, <1>5, <3>1, <3>2, <3>3 DEF Says, Errors
  <2>4. CASE ~(Len(input) > TagLen)
    <3>1. \A b \in Archives : ~HeaderIntact(b)
      BY <1>3, <2>4
    <3>2. result \notin {"Corrupted", "Cancelled", "WrongPassword", "Crypto"}
      BY <2>4, <3>1 DEF AnswerInv
    <3>3. result # "Ok"
      BY <3>1, IntactHasHeader DEF IInv, OkMeansIntact
    <3>4. result # "InvalidHeader"
      <4>1. ASSUME Len(input) >= 1 PROVE HeaderReadable
        <5>1. input[1] = HeaderByte(HeaderOf[a])
          BY <2>1, <4>1 DEF BeginsLike
        <5>2. Parses(HeaderOf[a], caller.version)
          BY <1>5, ArchivesWellFormed DEF Owns
        <5> QED BY <5>1, <5>2 DEF HeaderReadable, HeaderByte
      <4> QED BY <4>1 DEF AnswerInv
    <3> QED BY <1>2, <1>5, <3>2, <3>3, <3>4 DEF Says, Errors
  <2> QED BY <2>3, <2>4
<1>6. ASSUME NEW a \in Archives, pc = "done", Owns(a), DamagedBelow(a)
      PROVE  /\ Says({"Corrupted", "Truncated"})
             /\ Len(input) >= ContainerLen(HeaderOf[a]) => Says({"Corrupted"})
  <2>1. HeaderIntact(a) /\ ~IsContainer(input, a)
    BY <1>6 DEF DamagedBelow
  <2>2. result # "Ok"
    BY <2>1, IntactHasHeader, SameArchive DEF IInv, OkMeansIntact
  <2>3. Says({"Corrupted", "Truncated"})
    BY <1>2, <1>4, <1>6, <2>1, <2>2 DEF Says, Errors
  <2>4. ASSUME Len(input) >= ContainerLen(HeaderOf[a]), result = "Truncated" PROVE FALSE
    <3>1. Len(input) > TagLen
      BY <1>3, <2>1
    <3>2. PICK b \in Archives : HeaderIntact(b) /\ Len(input) < ContainerLen(HeaderOf[b])
      BY <1>1, <2>4, <3>1 DEF AnswerInv
    <3>3. b = a
      BY <2>1, <3>2, SameArchive
    <3>4. ContainerLen(HeaderOf[a]) \in Int
      <4>1. HeaderOf[a].total_plaintext_size \in Nat /\ HeaderOf[a].total_chunks \in Nat
        BY ArchiveHeader DEF HasSizes
      <4>2. HeaderOf[a].total_chunks * TagLen \in Int
        BY <1>1, <4>1
      <4> QED BY <1>1, <4>1, <4>2 DEF ContainerLen
    <3> QED BY <1>1, <2>4, <3>2, <3>3, <3>4
  <2> QED BY <2>3, <2>4 DEF Says
<1>7. DamageTable
  BY <1>5, <1>6 DEF DamageTable
<1>8. ASSUME NEW a \in Archives, pc = "done", HeaderIntact(a),
             caller.version = HeaderOf[a].version, caller.secret # SecretOf[a]
      PROVE  result \in {"WrongPassword", "Io"}
  <2>1. \A b \in Archives : ~(HeaderIntact(b) /\ Owns(b))
    BY <1>8, SameArchive DEF Owns
  <2>2. Len(input) > TagLen /\ input[1] = HeaderByte(HeaderOf[a])
    BY <1>8 DEF HeaderIntact
  <2>3. result \notin {"Corrupted", "Cancelled", "Truncated"}
    <3>1. ~(Len(input) <= TagLen)
      BY <1>1, <2>2
    <3> QED BY <2>1, <3>1 DEF AnswerInv
  <2>4. result # "Ok"
    BY <2>1, IntactHasHeader DEF IInv, OkMeansIntact
  <2>5. /\ Parses(HeaderOf[a], caller.version)
        /\ caller.version = 1 => Derivable(HeaderOf[a])
    BY <1>8, ArchivesWellFormed
  <2>6. input[1].of[1] = HeaderOf[a] /\ HeaderReadable
    BY <2>2, <2>5 DEF HeaderReadable, HeaderByte
  <2>7. result \notin {"InvalidHeader", "Crypto"}
    BY <2>5, <2>6 DEF AnswerInv
  <2> QED BY <1>2, <1>8, <2>3, <2>4, <2>7 DEF Errors
<1>9. WrongSecretIsSaid
  BY <1>8 DEF WrongSecretIsSaid
<1> QED BY <1>7, <1>9 DEF AnswersAreTheTable

\* decrypt_reader and decrypt_stream_v2: whatever the damage, whatever the
\* width and wherever it lies, the answer is the one FORMAT.md announces.
THEOREM AnswersAlwaysTheTable == Spec => []AnswersAreTheTable
BY AnswersFollow, InvHolds, AnswerInvHolds, PTL
=============================================================================
