--------------------------- MODULE MCDecryptReader ---------------------------
(***************************************************************************)
(* A small world for DecryptReader: three v1 archives (empty, ending on a  *)
(* short chunk, ending on a full one) made with the same password, and two *)
(* v2 archives made with the same raw key whose base nonces are XOR-close, *)
(* so that chunk i of one and chunk j # i of the other have the same       *)
(* nonce.  Chunks are 2 bytes, tags 1 byte, "u64" is 4 bits wide.          *)
(***************************************************************************)
EXTENDS ContainerDamage, Bitwise

CONSTANTS pass, otherPass, rawKey, otherKey,      \* secrets
          salt1, salt2, salt3, noSalt,            \* salts
          good, alsoGood, bad, noParams,          \* Argon2 parameters
          empty, short, full, ext1, ext2          \* archives

MCArchives == {empty, short, full, ext1, ext2}

MCPolicyParams == {good, alsoGood}

\* The XOR of a 4-bit counter into a 4-bit base nonce.
MCDeriveNonce(base, counter) == base ^^ counter

V1(salt, params, nonce, N, S) ==
    [magic |-> TRUE, version |-> 1, key_source |-> "password", salt |-> salt,
     argon2_params |-> params, recipients |-> <<>>, base_nonce |-> nonce,
     chunk_size |-> 2, total_chunks |-> N, total_plaintext_size |-> S]

V2(recipients, nonce, N, S) ==
    [magic |-> TRUE, version |-> 2, key_source |-> "external", salt |-> noSalt,
     argon2_params |-> noParams, recipients |-> recipients, base_nonce |-> nonce,
     chunk_size |-> 2, total_chunks |-> N, total_plaintext_size |-> S]

OneRecipient == <<[id |-> 1, wrapped |-> 1]>>
TwoRecipients == <<[id |-> 0, wrapped |-> 1], [id |-> 1, wrapped |-> 0]>>

MCHeaderOf ==
    empty :> V1(salt1, good, 4, 1, 0)
    @@ short :> V1(salt2, good, 4, 2, 3)
    @@ full :> V1(salt3, alsoGood, 8, 2, 4)
    @@ ext1 :> V2(OneRecipient, 2, 3, 5)
    @@ ext2 :> V2(TwoRecipients, 3, 3, 5)

MCSecretOf ==
    empty :> pass @@ short :> pass @@ full :> pass @@ ext1 :> rawKey @@ ext2 :> rawKey

MCCallers == [version : {1}, secret : {pass, otherPass}]
                 \cup [version : {2}, secret : {rawKey, otherKey}]

\* Headers with one field of h altered: refused structure, refused Argon2
\* parameters, or accepted fields that were never authenticated.
Altered(h) ==
    {[h EXCEPT !.magic = FALSE], [h EXCEPT !.version = 3 - h.version],
     [h EXCEPT !.version = 3], [h EXCEPT !.base_nonce = 1]}
    \cup {[h EXCEPT !.argon2_params = p] : p \in {good, alsoGood, bad}}
    \cup {[h EXCEPT !.chunk_size = c] : c \in {0, 1, 3, 4}}
    \cup {[h EXCEPT !.total_chunks = n] : n \in {0, h.total_chunks + 1}}
    \cup {[h EXCEPT !.total_plaintext_size = s] :
             s \in {0, h.total_plaintext_size + 1, U64Max}}
    \cup {[h EXCEPT !.key_source = k] : k \in {"password", "external", "other"}}
    \cup {[h EXCEPT !.recipients = r] :
             r \in {<<>>, OneRecipient, <<[id |-> 2, wrapped |-> 1]>>,
                    <<[id |-> 1, wrapped |-> 2]>>,
                    OneRecipient \o TwoRecipients}}

\* A v1 header has no key_source and no recipients to alter.
Alterations(a) ==
    {h \in Altered(MCHeaderOf[a]) :
        MCHeaderOf[a].version = 1 =>
            h.key_source = "password" /\ h.recipients = <<>>}

MCHeaders ==
    UNION {{MCHeaderOf[a]} \cup Alterations(a) : a \in MCArchives}

MCInputs ==
    UNION {{Container[a]} \cup AllDamage(a, Alterations(a)) : a \in Archives}
    \cup {<<Noise>>, <<Noise, Noise>>}
=============================================================================
