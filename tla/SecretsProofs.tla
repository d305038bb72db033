---------------------------- MODULE SecretsProofs ----------------------------
(***************************************************************************)
(* How secrets are handled, for every value of the constants: the nonces   *)
(* an instance hands out are pairwise different and none is the one of the *)
(* last counter; a password is typed unseen, and what it is used for is    *)
(* what the policy allows.                                                 *)
(***************************************************************************)
EXTENDS NonceSequence, CommandLine, TLAPS

-----------------------------------------------------------------------------
(* The nonces of one instance.                                             *)

\* The XOR with a counter determines the counter.
LEMMA DerivedInjective ==
    ASSUME NEW b \in Nonces, NEW m \in 0..U64Max, NEW n \in 0..U64Max,
           Derived(b, m) = Derived(b, n)
    PROVE  m = n
<1>1. ASSUME NEW k \in Positions
      PROVE  BitsOf[m][k] = BitsOf[n][k]
  <2>1. (b.low[k] # BitsOf[m][k]) = (b.low[k] # BitsOf[n][k])
    <3>1. Derived(b, m).low[k] = (b.low[k] # BitsOf[m][k])
      BY <1>1 DEF Derived
    <3>2. Derived(b, n).low[k] = (b.low[k] # BitsOf[n][k])
      BY <1>1 DEF Derived
    <3> QED BY <3>1, <3>2
  <2>2. b.low[k] \in BOOLEAN
    BY <1>1 DEF Nonces
  <2>3. BitsOf[m][k] \in BOOLEAN /\ BitsOf[n][k] \in BOOLEAN
    BY <1>1, NonceAssumption
  <2> QED BY <2>1, <2>2, <2>3
<1>2. BitsOf[m] \in [Positions -> BOOLEAN] /\ BitsOf[n] \in [Positions -> BOOLEAN]
  BY NonceAssumption
<1>3. BitsOf[m] = BitsOf[n]
  BY <1>1, <1>2
<1> QED BY <1>3, NonceAssumption

LEMMA DerivedType ==
    ASSUME NEW b \in Nonces, NEW n \in 0..U64Max
    PROVE  Derived(b, n) \in Nonces
BY DEF Derived, Nonces

\* The inductive invariant: the i-th nonce is that of counter i - 1.
Counts ==
    /\ next_counter = Len(handed)
    /\ \A i \in 1..Len(handed) : handed[i] = Derived(base, i - 1)
    /\ refusals > 0 => next_counter = U64Max

NonceInv == NonceTypeOK /\ Counts

LEMMA InitInv == NonceInit => NonceInv
BY NonceAssumption DEF NonceInit, NonceInv, NonceTypeOK, Counts

LEMMA NextInv == NonceInv /\ [NonceNext]_nonceVars => NonceInv'
<1> SUFFICES ASSUME NonceInv, [NonceNext]_nonceVars PROVE NonceInv'
  OBVIOUS
<1> USE NonceAssumption DEF NonceInv
<1>1. CASE HandOut
  <2>1. Derived(base, next_counter) \in Nonces
    BY DerivedType DEF NonceTypeOK
  <2>2. NonceTypeOK'
    BY <1>1, <2>1 DEF HandOut, CanAdvance, NonceTypeOK
  <2>3. Len(handed') = Len(handed) + 1
    BY <1>1 DEF HandOut, NonceTypeOK
  <2>4. next_counter' = Len(handed')
    BY <1>1, <2>3 DEF HandOut, Counts
  <2>5. ASSUME NEW i \in 1..Len(handed') PROVE handed'[i] = Derived(base', i - 1)
    <3>1. base' = base
      BY <1>1 DEF HandOut
    <3>2. CASE i \in 1..Len(handed)
      <4>1. handed'[i] = handed[i]
        BY <1>1, <3>2 DEF HandOut, NonceTypeOK
      <4> QED BY <4>1, <3>1, <3>2 DEF Counts
    <3>3. CASE i = Len(handed) + 1
      <4>1. handed'[i] = Derived(base, next_counter)
        BY <1>1, <3>3 DEF HandOut, NonceTypeOK
      <4>2. next_counter = i - 1
        BY <3>3 DEF Counts, NonceTypeOK
      <4> QED BY <4>1, <4>2, <3>1
    <3> QED BY <2>3, <2>5, <3>2, <3>3 DEF NonceTypeOK
  <2>6. ~(refusals' > 0)
    BY <1>1 DEF HandOut, CanAdvance, Counts, NonceTypeOK
  <2> QED BY <2>2, <2>4, <2>5, <2>6 DEF Counts
<1>2. CASE Refuse
  BY <1>2 DEF Refuse, CanAdvance, NonceTypeOK, Counts
<1>3. CASE UNCHANGED nonceVars
  BY <1>3 DEF nonceVars, NonceTypeOK, Counts
<1> QED BY <1>1, <1>2, <1>3 DEF NonceNext

LEMMA InvHolds == NonceSpec => []NonceInv
BY InitInv, NextInv, PTL DEF NonceSpec

\* The counter never passes u64::MAX, and every nonce is one.
THEOREM NonceTypeCorrect == NonceSpec => []NonceTypeOK
BY InvHolds, PTL DEF NonceInv

\* No nonce is handed out twice by one instance, however often next() is called
\* (crypto.rs:292).
THEOREM NoncesDiffer == NonceSpec => []NeverTwice
<1>1. NonceInv => NeverTwice
  <2> SUFFICES ASSUME NonceInv, NEW i \in 1..Len(handed), NEW j \in 1..Len(handed),
                      handed[i] = handed[j]
               PROVE  i = j
    BY DEF NeverTwice
  <2>1. i - 1 \in 0..U64Max /\ j - 1 \in 0..U64Max
    BY NonceAssumption DEF NonceInv, NonceTypeOK, Counts
  <2>2. Derived(base, i - 1) = Derived(base, j - 1)
    BY DEF NonceInv, Counts
  <2>3. i - 1 = j - 1
    BY <2>1, <2>2, DerivedInjective DEF NonceInv, NonceTypeOK
  <2> QED BY <2>3 DEF NonceInv, NonceTypeOK
<1> QED BY <1>1, InvHolds, PTL

\* The nonce of u64::MAX, the one of the header tag (format.rs:56), is never
\* handed out.
THEOREM HeaderNonceNeverHandedOut == NonceSpec => []HeaderNonceIsKept
<1>1. NonceInv => HeaderNonceIsKept
  <2> SUFFICES ASSUME NonceInv, NEW i \in 1..Len(handed), handed[i] = Derived(base, U64Max)
               PROVE  FALSE
    BY DEF HeaderNonceIsKept
  <2>1. i - 1 \in 0..U64Max /\ i - 1 < U64Max
    BY NonceAssumption DEF NonceInv, NonceTypeOK, Counts
  <2>2. Derived(base, i - 1) = Derived(base, U64Max)
    BY DEF NonceInv, Counts
  <2>3. i - 1 = U64Max
    BY <2>1, <2>2, DerivedInjective, NonceAssumption DEF NonceInv, NonceTypeOK
  <2> QED BY <2>1, <2>3
<1> QED BY <1>1, InvHolds, PTL

\* Once next() has refused, all nonces but the last have been handed out, so
\* that it has nothing left to hand out (crypto.rs:303).
THEOREM RefusalForGood == NonceSpec => []RefusalIsFinal
<1>1. NonceInv => RefusalIsFinal
  BY DEF NonceInv, Counts, RefusalIsFinal
<1> QED BY <1>1, InvHolds, PTL

\* However often next() is called, what it hands out is fresh, and it ends for
\* good where it ends.
THEOREM NoncesAlwaysFresh == NonceSpec => []NoncesAreFresh
<1>1. NeverTwice /\ HeaderNonceIsKept /\ RefusalIsFinal => NoncesAreFresh
  BY DEF NoncesAreFresh
<1> QED BY <1>1, NoncesDiffer, HeaderNonceNeverHandedOut, RefusalForGood, PTL
-----------------------------------------------------------------------------
(* The command line.                                                       *)

Steps == {"start", "mask", "type", "unmask", "unmask failed", "typed", "call", "end"}

\* Where the program stands, and what it has typed and called so far.
Progress ==
    /\ command \in {"none", "encrypt", "decrypt", "check-password", "other"}
    /\ terminal \in BOOLEAN /\ unrestored \in BOOLEAN
    /\ pc \in Steps /\ asked \in {"password", "confirmation"}
    /\ exit = "none" <=> pc # "end"
    /\ asked = "confirmation" =>
          /\ Confirms
          /\ pc \in {"unmask", "typed", "call"} => confirmation.read
    /\ called = "none" => pc # "call"
    /\ pc \notin {"call", "end"} => called = "none"

\* While the echo is off, the guard knows the mode to restore.
EchoInv ==
    /\ ~terminal => tty = before \/ unrestored
    /\ pc \in {"start", "mask", "typed", "call"} => tty = before \/ unrestored
    /\ pc \in {"type", "unmask", "unmask failed"} =>
          /\ saved = before \/ unrestored
          /\ terminal => ~tty.echo
    /\ exit \in {"success", "failure"} => tty = before \/ unrestored

\* Whatever has been called or said follows the verdict on what was typed.
VerdictInv ==
    /\ called # "none" => command \in {"encrypt", "decrypt"}
    /\ called = "encrypt_paths" =>
          confirmation.read /\ Validate(password.text, confirmation.text) = "Ok"
    /\ exit = "success" => \/ called # "none" /\ said = "Ok"
                           \/ /\ command = "check-password" /\ said = "accepted"
                              /\ called = "none"
    /\ command = "check-password" /\ exit \in {"success", "failure"} /\ said # "Io" =>
          (exit = "success" <=> Validate(password.text, confirmation.text) = "Ok")

CommandInv == Progress /\ EchoInv /\ VerdictInv

\* validate_new_password accepts what is_acceptable accepts, typed twice.
LEMMA AcceptedTwice ==
    ASSUME NEW p, NEW q
    PROVE  Validate(p, q) = "Ok" <=> IsAcceptable(p) /\ p = q
BY DEF Validate, IsAcceptable

LEMMA InitCommandInv == Init => CommandInv
BY DEF Init, CommandInv, Progress, EchoInv, VerdictInv, Steps

LEMMA ProgressKept ==
    ASSUME CommandInv, [Next]_vars
    PROVE  Progress'
<1> USE DEF CommandInv, Progress, Steps, callVars, Confirms, Exits
<1>1. CASE Start
  BY <1>1 DEF Start
<1>2. CASE Mask
  BY <1>2 DEF Mask
<1>3. CASE Type
  <2>1. PICK p \in Passwords : Answered(p)
    BY <1>3 DEF Type
  <2>2. asked = "confirmation" => confirmation'.read
    <3>1. Typed(p).read
      BY DEF Typed
    <3> QED BY <2>1, <3>1 DEF Answered
  <2>3. /\ pc = "type" /\ pc' = "unmask" /\ UNCHANGED <<command, terminal, asked>>
        /\ UNCHANGED <<called, exit, unrestored>>
    BY <1>3 DEF Type
  <2> QED BY <2>2, <2>3
<1>4. CASE TypingFails
  BY <1>4 DEF TypingFails
<1>5. CASE Unmask
  BY <1>5 DEF Unmask
<1>6. CASE PasswordTyped
  BY <1>6 DEF PasswordTyped
<1>7. CASE EncryptConfirmed
  BY <1>7 DEF EncryptConfirmed
<1>8. CASE CheckConfirmed
  BY <1>8 DEF CheckConfirmed
<1>9. CASE PipelineReturns
  BY <1>9 DEF PipelineReturns
<1>10. CASE Interrupted
  BY <1>10 DEF Interrupted
<1>11. CASE UNCHANGED vars
  BY <1>11 DEF vars
<1> QED BY <1>1, <1>2, <1>3, <1>4, <1>5, <1>6, <1>7, <1>8, <1>9, <1>10, <1>11
        DEF Next, Proceed

LEMMA EchoKept ==
    ASSUME CommandInv, [Next]_vars
    PROVE  EchoInv'
<1> USE DEF CommandInv, Progress, EchoInv, callVars, Exits
<1>1. CASE Start
  BY <1>1 DEF Start
<1>2. CASE Mask
  <2>1. /\ pc = "mask" /\ saved' = tty
        /\ UNCHANGED <<terminal, before, unrestored>>
    BY <1>2 DEF Mask
  <2>2. tty = before \/ unrestored
    BY <2>1
  <2>3. CASE pc' = "type" /\ exit' = exit
    <3>1. tty' = IF terminal THEN [echo |-> FALSE, echonl |-> TRUE] ELSE tty
      BY <1>2, <2>3 DEF Mask
    <3>2. terminal => ~tty'.echo
      BY <3>1
    <3>3. ~terminal => tty' = tty
      BY <3>1
    <3>4. exit' = "none"
      BY <2>1, <2>3
    <3> QED BY <2>1, <2>2, <2>3, <3>2, <3>3, <3>4
  <2>4. CASE pc' = "end" /\ tty' = tty
    BY <2>1, <2>2, <2>4
  <2> QED BY <1>2, <2>3, <2>4 DEF Mask
<1>3. CASE Type
  BY <1>3 DEF Type
<1>4. CASE TypingFails
  BY <1>4 DEF TypingFails
<1>5. CASE Unmask
  <2>1. /\ pc \in {"unmask", "unmask failed"} /\ pc' \in {"typed", "end"}
        /\ saved = before \/ unrestored
        /\ UNCHANGED <<terminal, before, saved>>
    BY <1>5 DEF Unmask
  <2>2. tty' = before \/ unrestored'
    <3>1. CASE terminal /\ tty' = saved /\ unrestored' = unrestored
      BY <2>1, <3>1
    <3>2. CASE ~terminal /\ tty' = tty /\ unrestored' = unrestored
      BY <2>1, <3>2
    <3>3. CASE unrestored' = TRUE
      BY <3>3
    <3> QED BY <1>5, <3>1, <3>2, <3>3 DEF Unmask
  <2> QED BY <2>1, <2>2
<1>6. CASE PasswordTyped
  BY <1>6 DEF PasswordTyped
<1>7. CASE EncryptConfirmed
  BY <1>7 DEF EncryptConfirmed
<1>8. CASE CheckConfirmed
  BY <1>8 DEF CheckConfirmed
<1>9. CASE PipelineReturns
  BY <1>9 DEF PipelineReturns
<1>10. CASE Interrupted
  BY <1>10 DEF Interrupted
<1>11. CASE UNCHANGED vars
  BY <1>11 DEF vars
<1> QED BY <1>1, <1>2, <1>3, <1>4, <1>5, <1>6, <1>7, <1>8, <1>9, <1>10, <1>11
        DEF Next, Proceed

LEMMA VerdictKept ==
    ASSUME CommandInv, [Next]_vars
    PROVE  VerdictInv'
<1> USE DEF CommandInv, Progress, VerdictInv, callVars, Confirms, Exits
<1>1. CASE Start
  BY <1>1 DEF Start
<1>2. CASE Mask
  BY <1>2 DEF Mask
<1>3. CASE Type
  BY <1>3 DEF Type
<1>4. CASE TypingFails
  BY <1>4 DEF TypingFails
<1>5. CASE Unmask
  BY <1>5 DEF Unmask
<1>6. CASE PasswordTyped
  <2>1. /\ pc = "typed" /\ called = "none"
        /\ UNCHANGED <<command, password, confirmation>>
    BY <1>6 DEF PasswordTyped
  <2>2. CASE exit' = "failure" /\ called' = called
    <3>1. command # "check-password"
      BY <1>6, <2>2 DEF PasswordTyped, UsageError
    <3> QED BY <2>1, <2>2, <3>1
  <2>3. CASE UNCHANGED <<exit, said, called>>
    BY <2>1, <2>3
  <2>4. CASE command = "decrypt" /\ called' = "decrypt_to_dir" /\ exit' = exit
    BY <2>1, <2>4
  <2> QED BY <1>6, <2>2, <2>3, <2>4 DEF PasswordTyped
<1>7. CASE EncryptConfirmed
  BY <1>7 DEF EncryptConfirmed
<1>8. CASE CheckConfirmed
  BY <1>8, AcceptedTwice DEF CheckConfirmed
<1>9. CASE PipelineReturns
  <2>1. /\ called # "none" /\ UNCHANGED <<command, password, confirmation, called>>
        /\ exit' = "success" => said' = "Ok"
    BY <1>9 DEF PipelineReturns
  <2> QED BY <2>1
<1>10. CASE Interrupted
  BY <1>10 DEF Interrupted
<1>11. CASE UNCHANGED vars
  BY <1>11 DEF vars
<1> QED BY <1>1, <1>2, <1>3, <1>4, <1>5, <1>6, <1>7, <1>8, <1>9, <1>10, <1>11
        DEF Next, Proceed

LEMMA CommandInvHolds == Spec => []CommandInv
BY InitCommandInv, ProgressKept, EchoKept, VerdictKept, PTL DEF Spec, CommandInv

\* Masque: whatever is typed, wherever reading or switching fails, and whatever
\* command is given, nothing typed at a terminal is echoed, and a program that
\* leaves by itself leaves the terminal as it found it.
THEOREM EchoAlwaysHandled == Spec => []EchoIsHandled
<1>1. CommandInv => EchoIsHandled
  BY DEF CommandInv, EchoInv, EchoIsHandled, TypedUnseen, TerminalIsRestored
<1> QED BY <1>1, CommandInvHolds, PTL

\* Whatever the policy's thresholds and the passwords typed: only an acceptable
\* password, typed twice, encrypts; check-password says the same of it; and
\* success is never said of a call that was not made.
THEOREM PolicyAlwaysApplied == Spec => []PolicyIsApplied
<1>1. CommandInv => PolicyIsApplied
  <2> SUFFICES ASSUME CommandInv PROVE PolicyIsApplied
    OBVIOUS
  <2> USE DEF CommandInv, VerdictInv
  <2>1. OnlyGoodPasswordsEncrypt
    BY AcceptedTwice
       DEF OnlyGoodPasswordsEncrypt, IsAcceptable, MeetsMinLength, MeetsScoreThreshold
  <2>2. CheckAgreesWithEncrypt
    BY DEF CheckAgreesWithEncrypt
  <2>3. SuccessIsTrue
    BY DEF SuccessIsTrue
  <2> QED BY <2>1, <2>2, <2>3 DEF PolicyIsApplied
<1> QED BY <1>1, CommandInvHolds, PTL
=============================================================================
