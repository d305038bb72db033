----------------------------- MODULE EncryptFile -----------------------------
(***************************************************************************)
(* encrypt_file_with_progress (v1, password) and                           *)
(* encrypt_file_with_raw_key_and_progress (v2, raw key): the container is  *)
(* written to a temporary file next to the output, read back and           *)
(* authenticated, and only then renamed over the output.  encrypt_bytes    *)
(* takes the same steps without the files.                                 *)
(*                                                                         *)
(* Meanwhile the source may be changed by others, a write may be stored    *)
(* wrong, every I/O call may fail, the callback may cancel, and the        *)
(* process may be killed; PowerSpec adds a power failure.                  *)
(*                                                                         *)
(* A container is a sequence of pieces here: the header, its tag and one   *)
(* box per chunk; the bytes within a piece are DecryptReader's matter.     *)
(***************************************************************************)
EXTENDS EncCrypto, SequencesExt

CONSTANTS
    Requests,          \* [version, secret, argon2_params, recipients]
    DefaultChunkSize,  \* DEFAULT_CHUNK_SIZE (1 MiB)
    SourceSizes,       \* sizes the source may have
    Salts, BaseNonces, \* what the random generator may draw
    NoSalt, NoParams,  \* the fields a header of version 2 does not have
    MaxChanges         \* bound on the changes others make to the source

ASSUME EncryptAssumptions ==
    /\ DefaultChunkSize \in MinChunkSize..MaxChunkSize
    \* A file has at most i64::MAX bytes.
    /\ SourceSizes \subseteq Nat
    /\ \A n \in SourceSizes : n + DefaultChunkSize <= U64Max
    \* derive_nonce XORs the counter into the base nonce.
    /\ \A base \in BaseNonces : \A i, j \in U64 :
          DeriveNonce(base, i) = DeriveNonce(base, j) => i = j
    /\ \A r \in Requests : r.version \in {1, 2} /\ r.recipients \in Seq([id : Nat, wrapped : Nat])
    /\ MaxChanges \in Nat

VARIABLES
    request,    \* the arguments of the call
    source,     \* [size, version]: the input file, version counts its changes
    mishaps,    \* what went wrong around the program: see Mishaps
    pc,         \* the next step of the function
    measured,   \* the size fs::metadata gave
    header,     \* the header built from it, NoHeader before
    index,      \* the chunk being encrypted
    chunk,      \* the bytes of it read so far, <<version read from, position>>
    ahead,      \* the bytes the BufReader has read and not handed out
    sealed,     \* every box encrypt_buffer has made, in order
    tmp,        \* [exists, wire]: the temporary file
    dest,       \* [by, wire]: the output file
    result      \* what the function returns, "none" while it runs

vars == <<request, source, mishaps, pc, measured, header, index, chunk, ahead, sealed,
          tmp, dest, result>>

Mishaps == {"source",      \* the source changed after it was measured
            "storage",     \* a write was stored wrong
            "undeleted"}   \* the temporary file could not be removed

NoHeader == [magic |-> FALSE]
NoFile == [exists |-> FALSE, wire |-> <<>>]
BeforeUs == [by |-> "before", wire |-> <<>>]
ByUs(wire) == [by |-> "us", wire |-> wire]

\* The errors of decrypt_stream other than Io; its callback never cancels.
DecryptErrors == {"Truncated", "InvalidHeader", "Crypto", "WrongPassword", "Corrupted"}
Errors == DecryptErrors \cup {"Io", "Cancelled"}

Init ==
    /\ request \in Requests
    /\ source \in [size : SourceSizes, version : {0}]
    /\ mishaps = {}
    /\ pc = "check"
    /\ measured = 0
    /\ header = NoHeader
    /\ index = 0
    /\ chunk = <<>>
    /\ ahead = <<>>
    /\ sealed = <<>>
    /\ tmp = NoFile
    /\ dest = BeforeUs
    /\ result = "none"

\* The function returns r; what it owns is dropped first.
Return(r) ==
    /\ result' = r
    /\ pc' = "drop"
    /\ UNCHANGED <<request, source, mishaps, measured, header, index, chunk, ahead, sealed,
                   tmp, dest>>

-----------------------------------------------------------------------------
(* Pieces.                                                                 *)

HeaderPiece(h) == [part |-> "header", of |-> h]
Noise == [part |-> "noise"]

\* encrypt_buffer.
Seal(key, nonce, aad, text) ==
    [part |-> "box", key |-> key, nonce |-> nonce, aad |-> aad, text |-> text]

\* decrypt_buffer: piece p opens to a text of n bytes.
Opens(p, key, nonce, aad, n) ==
    /\ p.part = "box"
    /\ p.key = key
    /\ p.nonce = nonce
    /\ p.aad = aad
    /\ Len(p.text) = n

\* What storage may keep of a piece written to it.
Stored(p) == {<<p>>, <<Noise>>, <<>>}

\* verify_encrypted and verify_encrypted_v2 succeed: the whole container, as
\* it is read back, authenticates (OkMeansIntact and IntactOpens of
\* DecryptReader, piece by piece).
Verifies(req, wire) ==
    /\ Len(wire) >= 2
    /\ wire[1].part = "header"
    /\ LET h == wire[1].of
           key == KeyFor(req.version, req.secret, h)
       IN /\ Parses(h, req.version)
          /\ req.version = 1 => Derivable(h)
          /\ Len(wire) = 2 + h.total_chunks
          /\ Opens(wire[2], key, DeriveNonce(h.base_nonce, HeaderCounter), HeaderAad(h), 0)
          /\ \A i \in 0..(h.total_chunks - 1) :
                Opens(wire[i + 3], key, DeriveNonce(h.base_nonce, i), ChunkAad(h, i),
                      ExpectedLen(h, i))

-----------------------------------------------------------------------------
(* Before the temporary file exists.                                       *)

RecipientsOK(recipients) ==
    /\ recipients # <<>>
    /\ Len(recipients) <= MaxRecipients
    /\ \A r \in 1..Len(recipients) :
          /\ recipients[r].id <= MaxRecipientIdLen
          /\ recipients[r].wrapped <= MaxWrappedKeyLen

RecipientsRefused ==
    /\ pc = "check"
    /\ request.version = 2
    /\ ~RecipientsOK(request.recipients)
    /\ Return("InvalidHeader")

Measured ==
    /\ pc = "check"
    /\ request.version = 2 => RecipientsOK(request.recipients)
    /\ measured' = source.size
    /\ pc' = "key"
    /\ UNCHANGED <<request, source, mishaps, header, index, chunk, ahead, sealed, tmp, dest, result>>

ParamsRefused ==
    /\ pc = "key"
    /\ request.version = 1
    /\ request.argon2_params \notin PolicyParams
    /\ Return("Crypto")

NewHeader(salt, base_nonce) ==
    [magic |-> TRUE, version |-> request.version,
     key_source |-> IF request.version = 1 THEN "password" ELSE "external",
     salt |-> IF request.version = 1 THEN salt ELSE NoSalt,
     argon2_params |-> IF request.version = 1 THEN request.argon2_params ELSE NoParams,
     recipients |-> IF request.version = 1 THEN <<>> ELSE request.recipients,
     base_nonce |-> base_nonce,
     chunk_size |-> DefaultChunkSize,
     total_chunks |-> DeclaredChunks(measured, DefaultChunkSize),
     total_plaintext_size |-> measured]

HeaderMade ==
    /\ pc = "key"
    /\ request.version = 1 => request.argon2_params \in PolicyParams
    /\ \E salt \in Salts, base_nonce \in BaseNonces : header' = NewHeader(salt, base_nonce)
    /\ pc' = "create"
    /\ UNCHANGED <<request, source, mishaps, measured, index, chunk, ahead, sealed, tmp, dest, result>>

-----------------------------------------------------------------------------
(* write_encrypted (encrypt_stream) and write_encrypted_v2.                *)

TmpCreated ==
    /\ pc = "create"
    /\ tmp' = [exists |-> TRUE, wire |-> <<>>]
    /\ pc' = "header"
    /\ UNCHANGED <<request, source, mishaps, measured, header, index, chunk, ahead, sealed, dest, result>>

Key == KeyFor(request.version, request.secret, header)

HeaderSeal == Seal(Key, DeriveNonce(header.base_nonce, HeaderCounter), HeaderAad(header), <<>>)

\* Seeded fault: the last chunk is not marked as such.
SealNeverLast ==
    Seal(Key, DeriveNonce(header.base_nonce, index), <<header, index, FALSE>>, chunk)

ChunkSeal == Seal(Key, DeriveNonce(header.base_nonce, index), ChunkAad(header, index), chunk)

\* write_all of a piece; storage may keep something else of it.
Written(kept, pieces) ==
    /\ tmp' = [tmp EXCEPT !.wire = @ \o kept]
    /\ mishaps' = IF kept = pieces THEN mishaps ELSE mishaps \cup {"storage"}

HeaderWritten ==
    /\ pc = "header"
    /\ \E h \in Stored(HeaderPiece(header)), t \in Stored(HeaderSeal) :
          Written(h \o t, <<HeaderPiece(header), HeaderSeal>>)
    /\ sealed' = Append(sealed, HeaderSeal)
    /\ pc' = "read"
    /\ UNCHANGED <<request, source, measured, header, index, chunk, ahead, dest, result>>

Want == ExpectedLen(header, index)
ReadPosition == header.chunk_size * index + Len(chunk)

Missing == Want - Len(chunk)

\* What the BufReader hands out of the bytes it has, and what it keeps.
HandOut(bytes) ==
    LET n == Min({Missing, Len(bytes)})
    IN /\ chunk' = chunk \o SubSeq(bytes, 1, n)
       /\ ahead' = SubSeq(bytes, n + 1, Len(bytes))

\* A read of the file returns some of the bytes asked for (the buffer's
\* capacity is one chunk), as the file is now.
FileRead ==
    /\ pc = "read"
    /\ Missing > 0
    /\ ahead = <<>>
    /\ \E n \in 1..header.chunk_size :
          /\ ReadPosition + n <= source.size
          /\ HandOut([k \in 1..n |-> <<source.version, ReadPosition + k>>])
    /\ UNCHANGED <<request, source, mishaps, pc, measured, header, index, sealed,
                   tmp, dest, result>>

\* A read is served from the buffer.
BufferRead ==
    /\ pc = "read"
    /\ Missing > 0
    /\ ahead # <<>>
    /\ HandOut(ahead)
    /\ UNCHANGED <<request, source, mishaps, pc, measured, header, index, sealed,
                   tmp, dest, result>>

\* Seeded fault: the loop goes on reading a source that has shrunk.
ReadsOnAtEnd ==
    /\ pc = "read"
    /\ Missing > 0
    /\ ahead = <<>>
    /\ ReadPosition >= source.size
    /\ UNCHANGED vars

\* A read returns nothing: the source has shrunk.
SourceTooShort ==
    /\ pc = "read"
    /\ Missing > 0
    /\ ahead = <<>>
    /\ ReadPosition >= source.size
    /\ Return("Io")

ChunkWritten ==
    /\ pc = "read"
    /\ Missing = 0
    /\ \E kept \in Stored(ChunkSeal) : Written(kept, <<ChunkSeal>>)
    /\ sealed' = Append(sealed, ChunkSeal)
    /\ pc' = "progress"
    /\ UNCHANGED <<request, source, measured, header, index, chunk, ahead, dest, result>>

\* Seeded fault: a cancellation returns without dropping what it owns.
CancelledAtOnce ==
    /\ pc = "progress"
    /\ result' = "Cancelled"
    /\ pc' = "done"
    /\ UNCHANGED <<request, source, mishaps, measured, header, index, chunk, ahead, sealed,
                   tmp, dest>>

\* The callback is asked after the last chunk as after the others.
CallbackCancels == pc = "progress" /\ Return("Cancelled")

NextChunk ==
    /\ pc = "progress"
    /\ ~IsLast(header, index)
    /\ index' = index + 1
    /\ chunk' = <<>>
    /\ pc' = "read"
    /\ UNCHANGED <<request, source, mishaps, measured, header, ahead, sealed, tmp, dest, result>>

LastChunk ==
    /\ pc = "progress"
    /\ IsLast(header, index)
    /\ pc' = "flush"
    /\ UNCHANGED <<request, source, mishaps, measured, header, index, chunk, ahead, sealed,
                   tmp, dest, result>>

\* Seeded fault: the output is replaced before it is verified.
FlushedToOutput ==
    /\ pc = "flush"
    /\ dest' = ByUs(tmp.wire)
    /\ pc' = "verify"
    /\ UNCHANGED <<request, source, mishaps, measured, header, index, chunk, ahead, sealed,
                   tmp, result>>

Flushed ==
    /\ pc = "flush"
    /\ pc' = "verify"
    /\ UNCHANGED <<request, source, mishaps, measured, header, index, chunk, ahead, sealed,
                   tmp, dest, result>>

-----------------------------------------------------------------------------
(* Verification, publication, epilogue.                                    *)

\* Seeded fault: nothing is verified.
VerifiedBlindly ==
    /\ pc = "verify"
    /\ pc' = "persist"
    /\ UNCHANGED <<request, source, mishaps, measured, header, index, chunk, ahead, sealed,
                   tmp, dest, result>>

Verified ==
    /\ pc = "verify"
    /\ Verifies(request, tmp.wire)
    /\ pc' = "persist"
    /\ UNCHANGED <<request, source, mishaps, measured, header, index, chunk, ahead, sealed,
                   tmp, dest, result>>

VerificationFails ==
    /\ pc = "verify"
    /\ ~Verifies(request, tmp.wire)
    /\ \E r \in DecryptErrors : Return(r)

\* tmp_path.persist(output_path): the rename, after which nothing is left to
\* drop.
Persisted ==
    /\ pc = "persist"
    /\ dest' = ByUs(tmp.wire)
    /\ tmp' = NoFile
    /\ result' = "Ok"
    /\ pc' = "drop"
    /\ UNCHANGED <<request, source, mishaps, measured, header, index, chunk, ahead, sealed>>

\* The TempPath removes the file when it goes out of scope, and ignores that
\* this fails.
Dropped ==
    /\ pc = "drop"
    /\ \/ tmp' = NoFile /\ UNCHANGED mishaps
       \/ tmp.exists /\ UNCHANGED tmp /\ mishaps' = mishaps \cup {"undeleted"}
    /\ pc' = "done"
    /\ UNCHANGED <<request, source, measured, header, index, chunk, ahead, sealed, dest, result>>

\* A call to the system fails: metadata, create, open, read, write, flush, the
\* reads of the verification, rename.
IoFails ==
    /\ pc \in {"check", "create", "header", "read", "flush", "verify", "persist"}
    /\ pc = "check" => (request.version = 2 => RecipientsOK(request.recipients))
    /\ Return("Io")

-----------------------------------------------------------------------------
(* The surroundings.                                                       *)

Ended == pc \in {"done", "killed"}

\* Someone else rewrites the source.
SourceChanges ==
    /\ ~Ended
    /\ source.version < MaxChanges
    /\ \E size \in SourceSizes : source' = [size |-> size, version |-> source.version + 1]
    /\ mishaps' = IF pc = "check" THEN mishaps ELSE mishaps \cup {"source"}
    /\ UNCHANGED <<request, pc, measured, header, index, chunk, ahead, sealed, tmp, dest, result>>

\* The process is killed: no destructor runs.
Killed ==
    /\ ~Ended
    /\ pc' = "killed"
    /\ UNCHANGED <<request, source, mishaps, measured, header, index, chunk, ahead, sealed,
                   tmp, dest, result>>

Proceed ==
    \/ RecipientsRefused \/ Measured \/ ParamsRefused \/ HeaderMade
    \/ TmpCreated \/ HeaderWritten
    \/ FileRead \/ BufferRead \/ SourceTooShort \/ ChunkWritten \/ NextChunk \/ LastChunk \/ Flushed
    \/ Verified \/ VerificationFails \/ Persisted \/ Dropped

Next ==
    \/ Proceed
    \/ CallbackCancels \/ IoFails
    \/ SourceChanges \/ Killed

\* The function is synchronous and runs on; nothing else is counted upon.
Spec == Init /\ [][Next]_vars /\ WF_vars(Proceed)

-----------------------------------------------------------------------------
(* Properties.                                                             *)

Bytes == (0..MaxChanges) \X Nat

TypeOK ==
    /\ request \in Requests
    /\ source \in [size : SourceSizes, version : 0..MaxChanges]
    /\ mishaps \subseteq Mishaps
    /\ pc \in {"check", "key", "create", "header", "read", "progress", "flush", "verify",
               "persist", "drop", "done", "killed"}
    /\ measured \in SourceSizes \cup {0}
    /\ index \in Nat
    /\ chunk \in Seq(Bytes)
    /\ ahead \in Seq(Bytes)
    /\ dest.by \in {"before", "us"}
    /\ tmp.exists \in BOOLEAN
    /\ result \in {"none", "Ok"} \cup Errors

\* A container that is this run's: it authenticates, under the header of the
\* run, whose size is the one measured; and byte k of it is byte k of the
\* source, as some version of the source had it.
Goal == [request |-> request, header |-> header, size |-> measured]

Sound(goal, content) ==
    /\ content.by = "us"
    /\ Verifies(goal.request, content.wire)
    /\ content.wire[1] = HeaderPiece(goal.header)
    /\ goal.header.total_plaintext_size = goal.size
    /\ \A i \in 0..(goal.header.total_chunks - 1) :
          \A k \in 1..ExpectedLen(goal.header, i) :
             content.wire[i + 3].text[k][2] = goal.header.chunk_size * i + k

\* Whatever happens to the storage, the source and the process, the output
\* file is either as it was or this run's whole container.
DestinationIsWhole == dest.by = "us" => Sound(Goal, dest)

\* If nobody touched the source after it was measured, the container holds
\* the source as it is: every byte of that version, in its place.
UnchangedSourceIsKept ==
    dest.by = "us" /\ "source" \notin mishaps =>
        /\ measured = source.size
        /\ \A i \in 0..(header.total_chunks - 1) :
              \A k \in 1..ExpectedLen(header, i) :
                 dest.wire[i + 3].text[k] = <<source.version, header.chunk_size * i + k>>

\* What is published is this run's container, whole, and that of the source as
\* it was measured unless somebody changed it meanwhile.
PublishedIsWhole == DestinationIsWhole /\ UnchangedSourceIsKept

\* A function that returns an error has left the output as it found it, and
\* has left no temporary file behind unless removing it failed; one that
\* returns Ok has published.  A callback that cancels after the last chunk is
\* obeyed like any other.
FailureLeavesNoTrace ==
    pc = "done" =>
        /\ result = "Ok" <=> dest.by = "us"
        /\ tmp.exists => "undeleted" \in mishaps

\* No two boxes of a run, the header tag included, share a key and a nonce.
NoncesNeverRepeat ==
    \A i, j \in 1..Len(sealed) :
        i # j => <<sealed[i].key, sealed[i].nonce>> # <<sealed[j].key, sealed[j].nonce>>

\* The verification only ever fails because of storage: what encryption
\* writes, decryption accepts.
OnlyStorageFailsVerification ==
    result \in DecryptErrors /\ sealed # <<>> => "storage" \in mishaps

\* The function returns, unless it is killed.
Finishes == <>Ended

\* The output file is replaced atomically.
Answer == CASE pc = "done" /\ result = "Ok" -> "Ok"
            [] pc = "done" /\ result # "Ok" -> "failed"
            [] pc = "killed" -> "never"
            [] OTHER -> "pending"

Output == INSTANCE AtomicReplace WITH
    Before <- BeforeUs, Sound <- Sound, place <- dest, goal <- Goal, answer <- Answer

ReplacesAtomically == Output!Spec

-----------------------------------------------------------------------------
(* A machine that may lose power.                                          *)

\* Nothing has asked for the data of the output to be stable (no fsync), so
\* the rename may survive a power failure and the data may not.
PowerLost ==
    /\ dest.by = "us"
    /\ pc # "killed"
    /\ \E n \in 0..Len(dest.wire) : dest' = ByUs(SubSeq(dest.wire, 1, n))
    /\ pc' = "killed"
    /\ UNCHANGED <<request, source, mishaps, measured, header, index, chunk, ahead, sealed,
                   tmp, result>>

PowerSpec == Init /\ [][Next \/ PowerLost]_vars

\* FORMAT.md section 8: the final file goes through a temporary file and a
\* rename, "never a partial direct write visible at the final destination".
NeverPartialAtDestination == dest.by = "us" => Verifies(request, dest.wire)
=============================================================================
