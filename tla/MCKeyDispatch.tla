---------------------------- MODULE MCKeyDispatch ----------------------------
(***************************************************************************)
(* The archives of MCDecryptReader: intact, with another header, or with a *)
(* header that stops after its preamble.                                   *)
(***************************************************************************)
EXTENDS KeyDispatch, MCDecryptReader

Complete(bytes) == [bytes |-> bytes, stub |-> <<>>]
Stub(h) == [bytes |-> <<>>, stub |-> <<h>>]

\* A container whose header has another field, the rest as it was.
WithHeader(a, h) == Complete(ReplaceAt(Container[a], 1, HeaderByte(h)))

OtherHeaders(h) ==
    {[h EXCEPT !.magic = FALSE], [h EXCEPT !.version = 3 - h.version],
     [h EXCEPT !.version = 3], [h EXCEPT !.chunk_size = 0]}
    \cup (IF h.version = 1 THEN {}
          ELSE {[h EXCEPT !.key_source = k] : k \in {"password", "other"}}
               \cup {[h EXCEPT !.recipients = <<>>]})

MCFiles ==
    {Complete(Container[a]) : a \in MCArchives}
    \cup UNION {{WithHeader(a, h) : h \in OtherHeaders(MCHeaderOf[a])} : a \in {short, ext1}}
    \cup UNION {{Stub(h) : h \in {MCHeaderOf[a]} \cup OtherHeaders(MCHeaderOf[a])} :
                  a \in {short, ext1}}
    \cup {Complete(<<>>), Complete(<<Noise>>)}
=============================================================================
