---------------------------- MODULE DecryptBytes -----------------------------
(***************************************************************************)
(* decrypt_bytes: the reader, over a slice, into a buffer that is reserved *)
(* once, from a size the header declares before it is authenticated, and   *)
(* that the caller gets if the reader answers Ok.                          *)
(***************************************************************************)
EXTENDS DecryptReader

\* The size in the header, or 0 if there is none that parses.
Declared ==
    IF input # <<>> /\ HeaderReadable THEN input[1].of[1].total_plaintext_size ELSE 0

Smaller(m, n) == IF m <= n THEN m ELSE n

\* Seeded fault: the last chunk is left for the buffer to grow by.
CapacityOfFullChunks ==
    IF Declared = 0 THEN 0
    ELSE input[1].of[1].chunk_size * (input[1].of[1].total_chunks - 1)

\* What the buffer can hold without being reallocated.
Capacity == Smaller(Declared, Len(input))

-----------------------------------------------------------------------------
(* Properties.                                                             *)

\* format.rs:903: the buffer is reserved once.  Whatever the input, the reader
\* never writes past the capacity, so no clear text is left behind in a buffer
\* that has grown; a declared size reserves no more than there is input; and a
\* container that opens fills its buffer.
NeverReallocated ==
    caller.version = 1 =>
        /\ Len(sink) <= Capacity
        /\ Capacity <= Len(input)
        /\ result = "Ok" => Len(sink) = Capacity
=============================================================================
