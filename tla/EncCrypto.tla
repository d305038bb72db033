------------------------------ MODULE EncCrypto ------------------------------
(***************************************************************************)
(* Headers, keys, nonces and associated data of the two `.enc` formats,    *)
(* with the cryptography of the crate taken symbolically: Argon2id and     *)
(* SHA-256 are injective, and the key, nonce and AAD of a box are terms.   *)
(*                                                                         *)
(* A header is a record with the fields of both formats.                   *)
(***************************************************************************)
EXTENDS EncLayout, Sequences

CONSTANTS
    PolicyParams,        \* the Argon2 parameters Argon2Params::validate accepts
    MaxRecipients,       \* MAX_RECIPIENTS (64)
    MaxRecipientIdLen,   \* MAX_RECIPIENT_ID_LEN (256)
    MaxWrappedKeyLen,    \* MAX_WRAPPED_KEY_LEN (1024)
    DeriveNonce(_, _)    \* derive_nonce(base_nonce, counter)

\* Seeded fault: the header tag takes the counter of the first chunk.
CounterOfFirstChunk == 0

\* HEADER_NONCE_COUNTER, the counter no chunk ever has.
HeaderCounter == U64Max

-----------------------------------------------------------------------------
(* Headers.  v1: salt and Argon2 parameters always, no recipients.  v2:    *)
(* key_source is "password" (the v1 fields) or "external" (recipients,     *)
(* each with the lengths of its identifier and of its wrapped key).        *)

\* The fields the two versions share with their layout checks.
KeySourceOK(h) ==
    \/ h.key_source = "password"
    \/ /\ h.key_source = "external"
       /\ Len(h.recipients) \in 1..MaxRecipients
       /\ \A r \in 1..Len(h.recipients) :
             /\ h.recipients[r].id <= MaxRecipientIdLen
             /\ h.recipients[r].wrapped <= MaxWrappedKeyLen

\* Header::from_bytes (version 1) and HeaderV2::from_reader (version 2).
\* Every refusal is InvalidHeader, so their order is not observable.
Parses(h, version) ==
    /\ h.magic
    /\ h.version = version
    /\ version = 2 => KeySourceOK(h)
    /\ StructureOK(h)

-----------------------------------------------------------------------------
(* Keys, nonces, associated data.                                          *)

\* derive_key: the Argon2 parameters are validated before the derivation.
Derivable(h) == h.argon2_params \in PolicyParams

DerivedKey(password, h) == <<password, h.salt, h.argon2_params>>

\* RawKey::into_derived_key: the caller's key as it is.
RawKey(key) == <<key>>

KeyFor(version, secret, h) ==
    IF version = 1 THEN DerivedKey(secret, h) ELSE RawKey(secret)

\* Seeded fault: a chunk is bound to neither its header nor its position.
LooseAad(h, i) == <<IsLast(h, i)>>

\* The AAD of the header tag is the header; that of a chunk binds the header
\* (through its hash), the position and the last-chunk flag.
HeaderAad(h) == <<h>>
ChunkAad(h, i) == <<h, i, IsLast(h, i)>>
=============================================================================
