---------------------------- MODULE MCDecryptFile ----------------------------
(***************************************************************************)
(* Decryption to a file, and the buffer of decrypt_bytes, in the world of  *)
(* MCDecryptReader: every input of it is put before the reader, which runs *)
(* behind the temporary file.                                              *)
(***************************************************************************)
EXTENDS DecryptFile, DecryptBytes, MCDecryptReader
=============================================================================
