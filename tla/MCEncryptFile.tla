---------------------------- MODULE MCEncryptFile ----------------------------
(***************************************************************************)
(* A small world for EncryptFile: sources of 0 to 4 bytes (none, one short *)
(* chunk, one full chunk, a short last chunk, two full ones), cut in       *)
(* chunks of 2; requests of both versions, sound and refused.              *)
(***************************************************************************)
EXTENDS EncryptFile, Bitwise

CONSTANTS pass, rawKey, good, bad, s1

MCSalts == {s1}
MCPolicyParams == {good}

\* The XOR of a 4-bit counter into a 4-bit base nonce.
MCDeriveNonce(base, counter) == base ^^ counter

V1(params) == [version |-> 1, secret |-> pass, argon2_params |-> params, recipients |-> <<>>]
V2(recipients) ==
    [version |-> 2, secret |-> rawKey, argon2_params |-> NoParams, recipients |-> recipients]

MCRequests ==
    {V1(good), V1(bad), V2(<<[id |-> 1, wrapped |-> 1]>>), V2(<<>>),
     V2(<<[id |-> 2, wrapped |-> 1]>>), V2(<<[id |-> 1, wrapped |-> 2]>>),
     V2([r \in 1..3 |-> [id |-> 0, wrapped |-> 0]])}
=============================================================================
