---------------------------- MODULE DecryptReader ----------------------------
(***************************************************************************)
(* decrypt_reader (v1, behind decrypt_file, decrypt_bytes and the          *)
(* verification that ends an encryption) and decrypt_stream_v2 (raw keys), *)
(* which differ only in the header they parse and in where the key comes   *)
(* from.  One action per step of the function; every read may fail (Io),   *)
(* every write to the sink may fail after part of its bytes, and the       *)
(* progress callback may cancel after any chunk.                           *)
(*                                                                         *)
(* The input is any sequence of wire bytes in Inputs: what storage or a    *)
(* copy gave back, intact or not.                                          *)
(***************************************************************************)
EXTENDS EncContainer, SequencesExt

CONSTANTS
    Inputs,    \* the byte sequences that may be presented
    Callers    \* [version : {1, 2}, secret : _]: the API called, its secret

ASSUME InputsAreWire == Inputs \subseteq Seq(WireBytes)

VARIABLES
    input,          \* the reader's bytes
    caller,         \* the API called and its secret
    pc,             \* the next step of the function
    pos,            \* bytes consumed from the input
    header,         \* the parsed header, NoHeader before
    key,            \* the key in use, NoKey before
    index,          \* the next chunk
    total_written,  \* plaintext bytes accepted by the sink
    sink,           \* what the sink has received
    result          \* "none" until the function returns

vars == <<input, caller, pc, pos, header, key, index, total_written, sink, result>>

NoHeader == [magic |-> FALSE]
NoKey == <<>>

Errors == {"Truncated", "InvalidHeader", "Crypto", "WrongPassword", "Corrupted",
           "Cancelled", "Io"}

Init ==
    /\ input \in Inputs
    /\ caller \in Callers
    /\ pc = "header"
    /\ pos = 0
    /\ header = NoHeader
    /\ key = NoKey
    /\ index = 0
    /\ total_written = 0
    /\ sink = <<>>
    /\ result = "none"

\* The function returns r, nothing else changes.
Return(r) ==
    /\ result' = r
    /\ pc' = "done"
    /\ UNCHANGED <<input, caller, pos, header, key, index, total_written, sink>>

\* The next n bytes are not all there.
Short(n) == Len(input) < pos + n

-----------------------------------------------------------------------------
(* Header, header tag, key.                                                *)

HeaderReadable ==
    /\ input[1].part = "header"
    /\ Parses(input[1].of[1], caller.version)

HeaderMissing == pc = "header" /\ Short(1) /\ Return("Truncated")

HeaderRefused ==
    pc = "header" /\ ~Short(1) /\ ~HeaderReadable /\ Return("InvalidHeader")

HeaderRead ==
    /\ pc = "header"
    /\ ~Short(1)
    /\ HeaderReadable
    /\ header' = input[1].of[1]
    /\ pos' = 1
    /\ pc' = "tag"
    /\ UNCHANGED <<input, caller, key, index, total_written, sink, result>>

TagMissing == pc = "tag" /\ Short(TagLen) /\ Return("Truncated")

\* Seeded fault: the tag is read without checking that it is there.
TagReadUnchecked ==
    /\ pc = "tag"
    /\ pos' = pos + TagLen
    /\ pc' = "key"
    /\ UNCHANGED <<input, caller, header, key, index, total_written, sink, result>>

\* The tag's bytes are consumed here and authenticated once the key is known.
TagRead ==
    /\ pc = "tag"
    /\ ~Short(TagLen)
    /\ pos' = pos + TagLen
    /\ pc' = "key"
    /\ UNCHANGED <<input, caller, header, key, index, total_written, sink, result>>

\* v1 only: derive_key refuses parameters outside the policy.
ParamsRefused ==
    pc = "key" /\ caller.version = 1 /\ ~Derivable(header) /\ Return("Crypto")

KeyResolved ==
    /\ pc = "key"
    /\ caller.version = 1 => Derivable(header)
    /\ key' = KeyFor(caller.version, caller.secret, header)
    /\ pc' = "authenticate"
    /\ UNCHANGED <<input, caller, pos, header, index, total_written, sink, result>>

HeaderBoxes ==
    Opened(input, pos - TagLen, TagLen, key,
           DeriveNonce(header.base_nonce, HeaderCounter), HeaderAad(header))

HeaderNotAuthentic ==
    pc = "authenticate" /\ HeaderBoxes = {} /\ Return("WrongPassword")

HeaderAuthenticated ==
    /\ pc = "authenticate"
    /\ HeaderBoxes # {}
    /\ pc' = "chunk"
    /\ UNCHANGED <<input, caller, pos, header, key, index, total_written, sink, result>>

-----------------------------------------------------------------------------
(* The chunk loop.                                                         *)

InLoop == pc = "chunk" /\ index < header.total_chunks

WantCipher == ExpectedLen(header, index) + TagLen

ChunkBoxes ==
    Opened(input, pos, WantCipher, key,
           DeriveNonce(header.base_nonce, index), ChunkAad(header, index))

\* Seeded fault: the loop of read_up_to goes on at the end of the input.
ReadsOnAtEnd == InLoop /\ Short(WantCipher) /\ UNCHANGED vars

ChunkMissing == InLoop /\ Short(WantCipher) /\ Return("Truncated")

\* Seeded fault: a damaged chunk is blamed on the password.
ChunkBlamesPassword ==
    InLoop /\ ~Short(WantCipher) /\ ChunkBoxes = {} /\ Return("WrongPassword")

ChunkNotAuthentic ==
    InLoop /\ ~Short(WantCipher) /\ ChunkBoxes = {} /\ Return("Corrupted")

\* Seeded fault: the bytes written are counted with their tag.
CipherCounted ==
    /\ InLoop
    /\ ~Short(WantCipher)
    /\ \E b \in ChunkBoxes : sink' = sink \o Text(b)
    /\ total_written' = total_written + WantCipher
    /\ pos' = pos + WantCipher
    /\ pc' = "progress"
    /\ UNCHANGED <<input, caller, header, key, index, result>>
\* The chunk opens and the sink takes all of it.
ChunkWritten ==
    /\ InLoop
    /\ ~Short(WantCipher)
    /\ \E b \in ChunkBoxes :
          /\ sink' = sink \o Text(b)
          /\ total_written' = total_written + TextLen(b)
    /\ pos' = pos + WantCipher
    /\ pc' = "progress"
    /\ UNCHANGED <<input, caller, header, key, index, result>>

\* Seeded fault: the failure of the sink goes unnoticed.
SinkFailureIgnored ==
    /\ InLoop
    /\ ~Short(WantCipher)
    /\ \E b \in ChunkBoxes : \E n \in 0..TextLen(b) :
          sink' = sink \o SubSeq(Text(b), 1, n)
    /\ pos' = pos + WantCipher
    /\ result' = "Ok"
    /\ pc' = "done"
    /\ UNCHANGED <<input, caller, header, key, index, total_written>>

\* The chunk opens and write_all fails after n of its bytes.
SinkFails ==
    /\ InLoop
    /\ ~Short(WantCipher)
    /\ \E b \in ChunkBoxes : \E n \in 0..TextLen(b) :
          sink' = sink \o SubSeq(Text(b), 1, n)
    /\ pos' = pos + WantCipher
    /\ result' = "Io"
    /\ pc' = "done"
    /\ UNCHANGED <<input, caller, header, key, index, total_written>>

CallbackContinues ==
    /\ pc = "progress"
    /\ index' = index + 1
    /\ pc' = "chunk"
    /\ UNCHANGED <<input, caller, pos, header, key, total_written, sink, result>>

CallbackCancels == pc = "progress" /\ Return("Cancelled")

LoopEnds ==
    /\ pc = "chunk"
    /\ ~InLoop
    /\ pc' = "trailing"
    /\ UNCHANGED <<input, caller, pos, header, key, index, total_written, sink, result>>

-----------------------------------------------------------------------------
(* After the last chunk.                                                   *)

\* Seeded fault: bytes after the last chunk are called a truncation.
TrailingCalledTruncated == pc = "trailing" /\ ~Short(1) /\ Return("Truncated")

TrailingByte == pc = "trailing" /\ ~Short(1) /\ Return("Corrupted")

\* Seeded fault: what follows the last chunk is not looked at.
TrailingIgnored ==
    /\ pc = "trailing"
    /\ pc' = "size"
    /\ UNCHANGED <<input, caller, pos, header, key, index, total_written, sink, result>>

InputExhausted ==
    /\ pc = "trailing"
    /\ Short(1)
    /\ pc' = "size"
    /\ UNCHANGED <<input, caller, pos, header, key, index, total_written, sink, result>>

SizeChecked ==
    /\ pc = "size"
    /\ Return(IF total_written # header.total_plaintext_size
              THEN "Truncated" ELSE "Ok")

\* A read of the underlying file fails.
ReadFails ==
    /\ pc \in {"header", "tag", "trailing"} \/ InLoop
    /\ Return("Io")

\* The steps of the function itself; the others are the environment's doing.
Proceed ==
    \/ HeaderMissing \/ HeaderRefused \/ HeaderRead
    \/ TagMissing \/ TagRead
    \/ ParamsRefused \/ KeyResolved
    \/ HeaderNotAuthentic \/ HeaderAuthenticated
    \/ ChunkMissing \/ ChunkNotAuthentic \/ ChunkWritten
    \/ CallbackContinues \/ LoopEnds
    \/ TrailingByte \/ InputExhausted \/ SizeChecked

Next == Proceed \/ SinkFails \/ CallbackCancels \/ ReadFails

\* A synchronous function runs on: it waits for nothing.  Neither a failure
\* nor a cancellation is ever counted upon.
Spec == Init /\ [][Next]_vars /\ WF_vars(Proceed)

-----------------------------------------------------------------------------
(* Properties.                                                             *)

\* Archive a is one the caller has the API and the secret for.
Owns(a) == caller.version = HeaderOf[a].version /\ caller.secret = SecretOf[a]

TypeOK ==
    /\ input \in Inputs
    /\ caller \in Callers
    /\ pc \in {"header", "tag", "key", "authenticate", "chunk", "progress",
               "trailing", "size", "done"}
    /\ pos \in 0..Len(input)
    /\ index \in Nat
    /\ total_written \in Nat
    /\ result \in {"none", "Ok"} \cup Errors
    /\ (result = "none") <=> (pc # "done")

\* Whatever the input, every byte the sink has received so far is the next
\* byte of one archive, the one whose header was presented and whose secret
\* the caller gave: no chunk out of place, from elsewhere, or before the
\* header is authenticated ever reaches the sink.
ReleasedIsAuthentic ==
    sink # <<>> =>
        \E a \in Archives :
            /\ Owns(a)
            /\ header = HeaderOf[a]
            /\ IsPrefix(sink, Plaintext(a))

\* "Ok" means the input is, byte for byte, a container some encryption
\* produced under the caller's secret, and the sink holds its whole plaintext.
OkMeansIntact ==
    result = "Ok" =>
        \E a \in Archives :
            /\ Owns(a)
            /\ IsContainer(input, a)
            /\ sink = Plaintext(a)

\* Conversely an intact container opens under its secret: nothing but an I/O
\* error or the caller's own cancellation stands in the way.
IntactOpens ==
    pc = "done" =>
        \A a \in Archives :
            IsContainer(input, a) /\ Owns(a) => result \in {"Ok", "Io", "Cancelled"}

\* "Ok" neither too often nor too rarely.
OkExactlyIfIntact == OkMeansIntact /\ IntactOpens

\* The error tells whose fault it is.  With the right secret, damage below an
\* intact header and tag is never reported as a wrong password; and
\* "Corrupted" is only ever reported to a caller whose secret opened the
\* header.
HeaderIntact(a) ==
    /\ Len(input) > TagLen
    /\ input[1] = HeaderByte(HeaderOf[a])
    /\ BoxAt(input, 1, TagLen, <<a, HeaderCounter>>)

BlameIsRight ==
    /\ \A a \in Archives :
          HeaderIntact(a) /\ Owns(a) =>
              result \notin {"WrongPassword", "InvalidHeader", "Crypto"}
    /\ result = "Corrupted" => \E a \in Archives : HeaderIntact(a) /\ Owns(a)

\* Where the reader is in the input and how much it has written is a function
\* of the chunk index; in particular the size check that ends the function
\* can no longer fail once the loop and the trailing-byte check have passed.
ChunksDone == IF pc = "progress" THEN index + 1 ELSE index

PlainBefore(h, i) == IF i < h.total_chunks THEN h.chunk_size * i
                                           ELSE h.total_plaintext_size

PositionFollowsIndex ==
    pc \in {"chunk", "progress", "trailing", "size"} =>
        /\ total_written = PlainBefore(header, ChunksDone)
        /\ total_written = Len(sink)
        /\ pos = 1 + TagLen + total_written + ChunksDone * TagLen

SizeCheckIsRedundant == pc = "size" => total_written = header.total_plaintext_size

\* What the progress callback is told never overstates: at most 100 %, and the
\* last chunk is reported as 100 %.
ProgressHonest ==
    pc = "progress" =>
        /\ index < header.total_chunks
        /\ total_written <= header.total_plaintext_size
        /\ Percent(total_written, header.total_plaintext_size) <= 100
        /\ IsLast(header, index) =>
              Percent(total_written, header.total_plaintext_size) = 100

\* Position, bytes written, chunk index and reported progress never drift apart.
CountersAgree == PositionFollowsIndex /\ SizeCheckIsRedundant /\ ProgressHonest

\* What the function promises of its sink and its answer.
Contents == [a \in Archives |-> Plaintext(a)]
Holdings == [c \in Callers |-> {a \in Archives : /\ c.version = HeaderOf[a].version
                                                 /\ c.secret = SecretOf[a]}]
Verdict == CASE result = "none" -> "pending"
             [] result = "Ok" -> "Ok"
             [] OTHER -> "failed"

Promise == INSTANCE AuthenticRelease WITH
    Callers <- Callers,
    Sources <- Archives,
    ContentOf <- Contents,
    OwnedBy <- Holdings,
    asker <- caller,
    released <- sink,
    verdict <- Verdict

KeepsPromise == Promise!Spec
=============================================================================
