--------------------------- MODULE ContainerDamage ---------------------------
(***************************************************************************)
(* What can become of a container between the encryption that wrote it and *)
(* the decryption that reads it: the manipulations the table of FORMAT.md  *)
(* section 6 lists (and the tests of format.rs perform), one set of byte   *)
(* sequences for each row, and the answer that table gives for it.         *)
(***************************************************************************)
EXTENDS DecryptReader, FiniteSets

\* Box b on the wire.
BoxBytes(b) == [k \in 1..(TextLen(b) + TagLen) |-> BoxByte(b, k)]

\* The boxes of archive a in the order they are written.
Chunks == [a \in Archives |->
    [i \in 1..HeaderOf[a].total_chunks |-> BoxBytes(<<a, i - 1>>)]]

Prologue(a) == <<HeaderByte(HeaderOf[a])>> \o BoxBytes(<<a, HeaderCounter>>)

\* The container of a with its chunks replaced by those of seq.
WithChunks(a, seq) ==
    Prologue(a) \o IF seq = <<>> THEN <<>> ELSE FlattenSeq(seq)

\* The container as encryption writes it.
Container == [a \in Archives |-> WithChunks(a, Chunks[a])]

Positions(a) == 1..HeaderOf[a].total_chunks

Truncated == [a \in Archives |->
    {SubSeq(Container[a], 1, n) : n \in 0..(Len(Container[a]) - 1)}]

Appended == [a \in Archives |->
    {Append(Container[a], b) : b \in {Noise, Container[a][1]}}]

\* One byte of a chunk is altered.
ChunkAltered == [a \in Archives |->
    {ReplaceAt(Container[a], p, Noise) : p \in (TagLen + 2)..Len(Container[a])}]

TagAltered == [a \in Archives |->
    {ReplaceAt(Container[a], p, Noise) : p \in 2..(TagLen + 1)}]

ChunksSwapped == [a \in Archives |->
    {WithChunks(a, [Chunks[a] EXCEPT ![i] = Chunks[a][j], ![j] = Chunks[a][i]]) :
        i, j \in Positions(a)} \ {Container[a]}]

\* Chunk i is written twice in a row.
ChunkDuplicated == [a \in Archives |->
    {WithChunks(a, InsertAt(Chunks[a], i, Chunks[a][i])) : i \in Positions(a)}]

ChunkRemoved == [a \in Archives |->
    {WithChunks(a, RemoveAt(Chunks[a], i)) : i \in Positions(a)}]

\* A chunk of archive b takes the place of one of a, or is put before it.
ChunkFromElsewhere == [a, b \in Archives |->
    UNION {{WithChunks(a, [Chunks[a] EXCEPT ![i] = Chunks[b][j]]) :
                i \in {k \in Positions(a) : Len(Chunks[a][k]) = Len(Chunks[b][j])}} :
           j \in Positions(b)}]

ChunkInserted == [a, b \in Archives |->
    {WithChunks(a, InsertAt(Chunks[a], i, Chunks[b][j])) :
        i \in Positions(a), j \in Positions(b)}]

\* Some header field changes, the rest of the container does not.
HeaderAltered(a, headers) ==
    {ReplaceAt(Container[a], 1, HeaderByte(h)) : h \in headers \ {HeaderOf[a]}}

AllDamage(a, headers) ==
    UNION ({Truncated[a], Appended[a], ChunkAltered[a], TagAltered[a], ChunksSwapped[a],
            ChunkDuplicated[a], ChunkRemoved[a], HeaderAltered(a, headers)}
           \cup {ChunkFromElsewhere[a, b] : b \in Archives \ {a}}
           \cup {ChunkInserted[a, b] : b \in Archives \ {a}})

-----------------------------------------------------------------------------
(* Properties.                                                             *)

\* As far as it goes, the input is what encryption wrote for a.
BeginsLike(a) ==
    LET h == HeaderOf[a]
        Same(p, n, b) ==
            \A k \in 1..n : p + k <= Len(input) => input[p + k] = BoxByte(b, k)
    IN  /\ Len(input) >= 1 => input[1] = HeaderByte(h)
        /\ Same(1, TagLen, <<a, HeaderCounter>>)
        /\ \A i \in 0..(h.total_chunks - 1) :
              Same(ChunkStart(h, i), ExpectedLen(h, i) + TagLen, <<a, i>>)

CutShort(a) == BeginsLike(a) /\ Len(input) < ContainerLen(HeaderOf[a])

\* Something below the header and its tag is not as encryption wrote it.
DamagedBelow(a) == HeaderIntact(a) /\ ~IsContainer(input, a)

Says(answers) == result \in answers \cup {"Io", "Cancelled"}

\* The rows of FORMAT.md section 6 below the header, for any damage and not only
\* the listed ones.  The owner of an archive is told of a container that stops
\* early that it is truncated; of one that is altered and no shorter (chunks altered,
\* swapped, duplicated or from elsewhere, bytes appended) that it is corrupted; of
\* any other (chunks removed) one of the two.
DamageTable ==
    \A a \in Archives :
        pc = "done" /\ Owns(a) =>
            /\ CutShort(a) => Says({"Truncated"})
            /\ DamagedBelow(a) => Says({"Corrupted", "Truncated"})
            /\ DamagedBelow(a) /\ Len(input) >= ContainerLen(HeaderOf[a]) =>
                  Says({"Corrupted"})

\* A wrong secret is called that wherever header and tag are intact, whatever
\* follows them.
WrongSecretIsSaid ==
    \A a \in Archives :
        /\ pc = "done"
        /\ HeaderIntact(a)
        /\ caller.version = HeaderOf[a].version
        /\ caller.secret # SecretOf[a]
        => result \in {"WrongPassword", "Io"}

\* Whoever owns the container is told of its damage, whoever does not that the
\* secret is wrong.
AnswersAreTheTable == DamageTable /\ WrongSecretIsSaid

\* FORMAT.md section 6, first row: a container whose header has any field
\* altered is answered WrongPassword.
HeaderChangeIsWrongPassword ==
    \A a \in Archives :
        /\ pc = "done"
        /\ Len(input) = ContainerLen(HeaderOf[a])
        /\ input # Container[a]
        /\ Tail(input) = Tail(Container[a])
        /\ input[1].part = "header"
        /\ Owns(a)
        => result \in {"WrongPassword", "Io"}
=============================================================================
