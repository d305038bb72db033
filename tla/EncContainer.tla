---------------------------- MODULE EncContainer -----------------------------
(***************************************************************************)
(* A `.enc` container as a sequence of wire bytes, with the cryptography   *)
(* of the crate taken symbolically.                                        *)
(*                                                                         *)
(* Archives are the containers that encryptions have produced.  Archive a  *)
(* has a header HeaderOf[a], was made under the secret SecretOf[a], and    *)
(* its plaintext is the sequence of bytes <<a, 1>>, <<a, 2>>, ...          *)
(*                                                                         *)
(* AES-256-GCM is perfect: the only boxes that open are those an           *)
(* encryption has sealed, under the same key, nonce and AAD, all of their  *)
(* bytes present and in order.  Box <<a, i>> is chunk i of archive a;      *)
(* <<a, HeaderCounter>> is its header tag, which seals no plaintext.       *)
(*                                                                         *)
(* The header is one wire byte that carries all of its fields: a partly    *)
(* present header reads as an absent one (both are `Truncated`), and a     *)
(* header with altered bytes is a header with altered fields.              *)
(***************************************************************************)
EXTENDS EncCrypto

CONSTANTS
    Archives,            \* the containers produced so far
    Headers,             \* every header value considered, sound or not
    HeaderOf,            \* [Archives -> Headers]
    SecretOf,            \* the password (v1) or raw key (v2) of an archive
    TagLen               \* TAG_LEN (16)

-----------------------------------------------------------------------------
(* The boxes encryption seals.                                             *)

KeyOf(a) == KeyFor(HeaderOf[a].version, SecretOf[a], HeaderOf[a])

BoxesOf(a) == {<<a, HeaderCounter>>}
                  \cup {<<a, i>> : i \in 0..(HeaderOf[a].total_chunks - 1)}

Boxes == UNION {BoxesOf(a) : a \in Archives}

SealKey(b) == KeyOf(b[1])
SealNonce(b) == DeriveNonce(HeaderOf[b[1]].base_nonce, b[2])
SealAad(b) == IF b[2] = HeaderCounter
              THEN HeaderAad(HeaderOf[b[1]])
              ELSE ChunkAad(HeaderOf[b[1]], b[2])

TextLen(b) == IF b[2] = HeaderCounter THEN 0 ELSE ExpectedLen(HeaderOf[b[1]], b[2])

\* The plaintext in box b: chunk i of archive a is the ExpectedLen bytes that
\* follow chunk_size * i.
Text(b) == [k \in 1..TextLen(b) |->
               <<b[1], HeaderOf[b[1]].chunk_size * b[2] + k>>]

\* The whole plaintext of an archive.
Plaintext(a) == [k \in 1..HeaderOf[a].total_plaintext_size |-> <<a, k>>]

-----------------------------------------------------------------------------
(* The wire.                                                               *)

HeaderByte(h) == [part |-> "header", of |-> <<h>>, at |-> 1]
BoxByte(b, k) == [part |-> "box", of |-> b, at |-> k]

\* A byte that is none of those an encryption wrote.
Noise == [part |-> "noise", of |-> <<>>, at |-> 0]

WireBytes ==
    {HeaderByte(h) : h \in Headers}
    \cup {Noise}
    \cup UNION {{BoxByte(b, k) : k \in 1..(TextLen(b) + TagLen)} : b \in Boxes}

\* The `n` bytes of `wire` after position p are box b, whole and in order.
BoxAt(wire, p, n, b) ==
    /\ n = TextLen(b) + TagLen
    /\ p + n <= Len(wire)
    /\ \A k \in 1..n : wire[p + k] = BoxByte(b, k)

\* decrypt_buffer: the boxes those n bytes open to (at most one).
Opened(wire, p, n, key, nonce, aad) ==
    {b \in Boxes : /\ BoxAt(wire, p, n, b)
                   /\ SealKey(b) = key
                   /\ SealNonce(b) = nonce
                   /\ SealAad(b) = aad}

-----------------------------------------------------------------------------
(* The container encrypt_stream and write_encrypted_v2 write.              *)

\* Where chunk i starts: one header byte, the header tag, and the i full
\* chunks before it, each with its tag.
ChunkStart(h, i) == 1 + TagLen + i * (h.chunk_size + TagLen)

ContainerLen(h) ==
    1 + TagLen + h.total_plaintext_size + h.total_chunks * TagLen

IsContainer(wire, a) ==
    LET h == HeaderOf[a] IN
    /\ Len(wire) = ContainerLen(h)
    /\ wire[1] = HeaderByte(h)
    /\ BoxAt(wire, 1, TagLen, <<a, HeaderCounter>>)
    /\ \A i \in 0..(h.total_chunks - 1) :
          BoxAt(wire, ChunkStart(h, i), ExpectedLen(h, i) + TagLen, <<a, i>>)

-----------------------------------------------------------------------------
(* What is assumed of the constants.                                       *)

ASSUME Widths == TagLen \in Nat \ {0}

ASSUME HeadersHaveSizes == \A h \in Headers : HasSizes(h)

\* Encryption writes headers its decoder accepts (DeclaredIsAccepted of
\* ChunkWalk), under Argon2 parameters derive_key has validated.
ASSUME ArchivesWellFormed ==
    \A a \in Archives :
        /\ HeaderOf[a] \in Headers
        /\ HeaderOf[a].version \in {1, 2}
        /\ Parses(HeaderOf[a], HeaderOf[a].version)
        /\ HeaderOf[a].version = 1 => Derivable(HeaderOf[a])

\* Each encryption draws a fresh salt (v1) and a fresh base nonce, so no two
\* archives have the same header.
ASSUME FreshHeaders ==
    \A a, b \in Archives : HeaderOf[a] = HeaderOf[b] => a = b
=============================================================================
