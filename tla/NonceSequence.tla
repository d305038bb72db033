---------------------------- MODULE NonceSequence ----------------------------
(***************************************************************************)
(* NonceSequence: the nonces one instance hands out for one key, a base    *)
(* XORed with a counter that is refused when it would overflow.  A nonce   *)
(* is its first four bytes, which the counter leaves alone, and the bits   *)
(* of the last eight.                                                      *)
(***************************************************************************)
EXTENDS Naturals, Sequences

CONSTANTS
    U64Max,      \* u64::MAX
    Heads,       \* the first four bytes
    Positions,   \* the bit positions of a u64
    BitsOf,      \* BitsOf[n]: the bits of n, to_be_bytes
    MaxRefusals  \* how often a caller insists on an exhausted sequence

ASSUME NonceAssumption ==
    /\ U64Max \in Nat
    /\ BitsOf \in [0..U64Max -> [Positions -> BOOLEAN]]
    /\ \A m, n \in 0..U64Max : BitsOf[m] = BitsOf[n] => m = n
    /\ MaxRefusals \in Nat

VARIABLES
    base,          \* the instance's base
    next_counter,
    handed,        \* the nonces handed out so far
    refusals       \* calls refused so far

nonceVars == <<base, next_counter, handed, refusals>>

Nonces == [head : Heads, low : [Positions -> BOOLEAN]]

\* Seeded fault: OR instead of XOR.
Ored(b, counter) ==
    [head |-> b.head, low |-> [k \in Positions |-> b.low[k] \/ BitsOf[counter][k]]]

\* derive_nonce_for_sequence
Derived(b, counter) ==
    [head |-> b.head, low |-> [k \in Positions |-> b.low[k] # BitsOf[counter][k]]]

NonceInit ==
    /\ base \in Nonces
    /\ next_counter = 0
    /\ handed = <<>> /\ refusals = 0

\* checked_add succeeds.
CanAdvance == next_counter < U64Max

HandOut ==
    /\ CanAdvance
    /\ next_counter' = next_counter + 1
    /\ handed' = Append(handed, Derived(base, next_counter))
    /\ UNCHANGED <<base, refusals>>

\* NonceSequenceExhausted: the ? leaves before the counter is assigned.
Refuse ==
    /\ ~CanAdvance /\ refusals < MaxRefusals
    /\ refusals' = refusals + 1
    /\ UNCHANGED <<base, next_counter, handed>>

NonceNext == HandOut \/ Refuse

NonceSpec == NonceInit /\ [][NonceNext]_nonceVars

-----------------------------------------------------------------------------
(* Properties.                                                             *)

NonceTypeOK ==
    /\ base \in Nonces
    /\ next_counter \in 0..U64Max
    /\ handed \in Seq(Nonces)
    /\ refusals \in 0..MaxRefusals

\* crypto.rs:293: a nonce differs from all those handed out before it.
NeverTwice ==
    \A i, j \in 1..Len(handed) : handed[i] = handed[j] => i = j

\* The nonce of the last counter, which a container under the same base keeps
\* for its header tag (format.rs:56), is not handed out.
HeaderNonceIsKept ==
    \A i \in 1..Len(handed) : handed[i] # Derived(base, U64Max)

\* NonceSequenceExhausted comes only when all nonces but the last have been handed
\* out, and then for good: none is handed out after it (crypto.rs:303).
RefusalIsFinal == refusals > 0 => Len(handed) = U64Max

\* What is handed out is fresh: no nonce of the sequence, none of a header tag;
\* and a sequence that has refused stays exhausted.
NoncesAreFresh == NeverTwice /\ HeaderNonceIsKept /\ RefusalIsFinal
=============================================================================
