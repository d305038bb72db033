-------------------------- MODULE DecryptFileProofs --------------------------
(***************************************************************************)
(* What decrypt_file guarantees of its output file, and what a caller who  *)
(* first asks inspect_key_requirement gets from it, for every input, every *)
(* set of archives and every width.  Both arguments rest on the reader's   *)
(* invariants (DecryptReaderProofs): every step is a step of the reader or *)
(* leaves the reader alone.                                                *)
(***************************************************************************)
EXTENDS DecryptFile, KeyDispatch, DecryptReaderProofs

\* The output is untouched until the reader has answered Ok and, once
\* replaced, holds what the reader's sink holds.
FileInv ==
    /\ FileTypeOK
    /\ stage \in {"create", "decrypt", "flush", "persist"} => dest = BeforeUs
    /\ stage \in {"flush", "persist"} => pc = "done" /\ result = "Ok"
    /\ dest # BeforeUs => dest = ByUs(sink) /\ pc = "done" /\ result = "Ok"
    /\ stage \in {"drop", "done"} => (answer = "Ok" <=> dest # BeforeUs)
    /\ stage = "done" /\ tmp => undeleted

LEMMA TheReaderSteps ==
    ASSUME [FileNext]_allVars
    PROVE  [Next]_vars
BY DEF FileNext, FileProceed, ReaderSteps, TmpCreated, ReaderFailed, ReaderSucceeded,
       Flushed, Persisted, Dropped, FileFails, Killed, Returning, Next, allVars

LEMMA ReaderInvHolds == FileSpec => []IInv
<1>1. FileInit => IInv
  BY InitInv DEF FileInit
<1>2. IInv /\ [FileNext]_allVars => IInv'
  BY TheReaderSteps, NextInv
<1> QED BY <1>1, <1>2, PTL DEF FileSpec

LEMMA TwoKinds == \A bytes : ByUs(bytes) # BeforeUs
BY DEF ByUs, BeforeUs

\* A step of the reader is only taken while it has not returned.
LEMMA ReaderRuns ==
    ASSUME IInv, Next
    PROVE  pc # "done"
BY DEF Next, Proceed, SinkFails, CallbackCancels, ReadFails, HeaderMissing, HeaderRefused,
       HeaderRead, TagMissing, TagRead, ParamsRefused, KeyResolved, HeaderNotAuthentic,
       HeaderAuthenticated, ChunkMissing, ChunkNotAuthentic, ChunkWritten, CallbackContinues,
       LoopEnds, TrailingByte, InputExhausted, SizeChecked, InLoop

LEMMA FileInvInit == FileInit => FileInv
<1> SUFFICES ASSUME FileInit PROVE FileInv
  OBVIOUS
<1>1. dest.by = "before"
  BY DEF FileInit, BeforeUs
<1> QED BY <1>1 DEF FileInit, FileInv, FileTypeOK

LEMMA FileInvNext == IInv /\ FileInv /\ [FileNext]_allVars => FileInv'
<1> SUFFICES ASSUME IInv, FileInv, [FileNext]_allVars PROVE FileInv'
  OBVIOUS
<1>1. CASE TmpCreated
  BY <1>1 DEF TmpCreated, FileInv, FileTypeOK, vars
<1>2. ASSUME NEW step, stage = "decrypt", UNCHANGED fileVars PROVE FileInv'
  BY <1>2 DEF FileInv, FileTypeOK, fileVars
<1>3. CASE \/ ReaderSteps(Proceed) \/ ReaderSteps(SinkFails)
           \/ ReaderSteps(CallbackCancels) \/ ReaderSteps(ReadFails)
  BY <1>2, <1>3 DEF ReaderSteps
<1>4. CASE ReaderFailed
  BY <1>4 DEF ReaderFailed, Returning, FileInv, FileTypeOK, vars, IInv, TypeOK
<1>5. CASE ReaderSucceeded
  BY <1>5 DEF ReaderSucceeded, FileInv, FileTypeOK, vars
<1>6. CASE Flushed
  BY <1>6 DEF Flushed, FileInv, FileTypeOK, vars
<1>7. CASE Persisted
  <2>1. dest' = ByUs(sink) /\ dest' # BeforeUs /\ dest'.by = "us"
    BY <1>7, TwoKinds DEF Persisted, ByUs
  <2> QED BY <1>7, <2>1 DEF Persisted, FileInv, FileTypeOK, vars
<1>8. CASE Dropped
  BY <1>8 DEF Dropped, FileInv, FileTypeOK, vars
<1>9. CASE FileFails
  BY <1>9 DEF FileFails, Returning, FileInv, FileTypeOK, vars, Errors
<1>10. CASE Killed
  BY <1>10 DEF Killed, FileInv, FileTypeOK, vars
<1>11. CASE UNCHANGED allVars
  BY <1>11 DEF allVars, fileVars, vars, FileInv, FileTypeOK
<1> QED BY <1>1, <1>3, <1>4, <1>5, <1>6, <1>7, <1>8, <1>9, <1>10, <1>11
        DEF FileNext, FileProceed

LEMMA FileInvHolds == FileSpec => []FileInv
<1> QED BY FileInvInit, FileInvNext, ReaderInvHolds, PTL DEF FileSpec

\* A sink whose reader answered Ok holds a whole plaintext.
LEMMA OkRestores ==
    ASSUME IInv, pc = "done", result = "Ok"
    PROVE  Restored(Goal, ByUs(sink))
BY DEF IInv, OkMeansIntact, Owns, Restored, Goal, ByUs

-----------------------------------------------------------------------------
(* What holds of every decryption to a file.                               *)

\* decrypt_file: types are kept.
THEOREM FileTypeCorrect == FileSpec => []FileTypeOK
<1>1. FileInv => FileTypeOK
  BY DEF FileInv
<1> QED BY <1>1, FileInvHolds, PTL

\* decrypt_file: the output file is as it was, or the whole plaintext of an
\* intact container of the caller's own.
THEOREM OutputAlwaysAuthentic == FileSpec => []OutputIsAuthentic
<1>1. IInv /\ FileInv => OutputIsAuthentic
  <2> SUFFICES ASSUME IInv, FileInv, dest.by = "us" PROVE Restored(Goal, dest)
    BY DEF OutputIsAuthentic
  <2>1. dest = ByUs(sink) /\ pc = "done" /\ result = "Ok"
    BY DEF FileInv, BeforeUs
  <2> QED BY <2>1, OkRestores
<1> QED BY <1>1, FileInvHolds, ReaderInvHolds, PTL

\* decrypt_file: an error leaves the output as it was and no temporary
\* plaintext, unless its removal failed.
THEOREM ErrorsAreClean == FileSpec => []ErrorLeavesNoPlaintext
<1>1. FileInv => ErrorLeavesNoPlaintext
  BY DEF FileInv, ErrorLeavesNoPlaintext, BeforeUs, ByUs
<1> QED BY <1>1, FileInvHolds, PTL

\* decrypt_file replaces its output as AtomicReplace promises.
THEOREM FileReplacesAtomically == FileSpec => ReplacesAtomically
<1>1. FileInit => Output!Init
  <2> SUFFICES ASSUME FileInit PROVE Output!Init
    OBVIOUS
  <2>1. FileAnswer = "pending"
    BY DEF FileInit, FileAnswer
  <2> QED BY <2>1 DEF FileInit, Output!Init
<1>2. IInv /\ FileInv /\ [FileNext]_allVars => [Output!Next]_(Output!replaceVars)
  <2> SUFFICES ASSUME IInv, FileInv, [FileNext]_allVars
               PROVE  [Output!Next]_(Output!replaceVars)
    OBVIOUS
  <2>1. CASE Persisted
    <3>1. FileAnswer = "pending" /\ FileAnswer' = "pending"
      BY <2>1 DEF Persisted, FileAnswer
    <3>2. dest = BeforeUs /\ dest' = ByUs(sink) /\ dest' # BeforeUs
      BY <2>1, TwoKinds DEF Persisted, FileInv
    <3>3. Restored(Goal, dest')
      BY <2>1, <3>2, OkRestores DEF Persisted, FileInv
    <3>4. Goal' = Goal
      BY <2>1 DEF Persisted, Goal, vars
    <3> QED BY <3>1, <3>2, <3>3, <3>4 DEF Output!Replace, Output!Next
  <2>2. CASE Dropped
    <3>1. Goal' = Goal /\ dest' = dest /\ FileAnswer = "pending"
      BY <2>2 DEF Dropped, Goal, vars, FileAnswer
    <3>2. CASE answer = "Ok"
      <4>1. FileAnswer' = "Ok" /\ dest # BeforeUs
        BY <2>2, <3>2 DEF Dropped, FileAnswer, FileInv
      <4> QED BY <3>1, <4>1 DEF Output!Succeed, Output!Next
    <3>3. CASE answer # "Ok"
      <4>1. FileAnswer' = "failed" /\ dest = BeforeUs
        BY <2>2, <3>3 DEF Dropped, FileAnswer, FileInv
      <4> QED BY <3>1, <4>1 DEF Output!Fail, Output!Next
    <3> QED BY <3>2, <3>3
  <2>3. CASE Killed
    <3>1. Goal' = Goal /\ dest' = dest
      BY <2>3 DEF Killed, Goal, vars
    <3>2. FileAnswer = "pending" /\ FileAnswer' = "never"
      BY <2>3 DEF Killed, FileAnswer
    <3> QED BY <3>1, <3>2 DEF Output!Stop, Output!Next
  <2>4. CASE ReaderFailed \/ ReaderSucceeded \/ Flushed \/ FileFails \/ TmpCreated
    <3>1. Goal' = Goal /\ dest' = dest
      BY <2>4 DEF ReaderFailed, ReaderSucceeded, Flushed, FileFails, TmpCreated, Returning,
                  Goal, vars
    <3>2. FileAnswer = "pending" /\ FileAnswer' = "pending"
      BY <2>4 DEF ReaderFailed, ReaderSucceeded, Flushed, FileFails, TmpCreated, Returning,
                  FileAnswer
    <3> QED BY <3>1, <3>2 DEF Output!replaceVars
  <2>5. CASE \/ ReaderSteps(Proceed) \/ ReaderSteps(SinkFails)
             \/ ReaderSteps(CallbackCancels) \/ ReaderSteps(ReadFails)
    <3>1. dest = BeforeUs /\ dest' = dest
      BY <2>5 DEF ReaderSteps, fileVars, FileInv
    <3>2. FileAnswer = "pending" /\ FileAnswer' = "pending"
      BY <2>5 DEF ReaderSteps, fileVars, FileAnswer
    <3> QED BY <3>1, <3>2 DEF Output!Progress, Output!Next
  <2>6. CASE UNCHANGED allVars
    BY <2>6 DEF allVars, fileVars, vars, Output!replaceVars, Goal, FileAnswer
  <2> QED BY <2>1, <2>2, <2>3, <2>4, <2>5, <2>6 DEF FileNext, FileProceed
<1> QED BY <1>1, <1>2, FileInvHolds, ReaderInvHolds, PTL
        DEF FileSpec, ReplacesAtomically, Output!Spec
-----------------------------------------------------------------------------
(* inspect_key_requirement and the decryption it leads to.                 *)

\* What the inspection has said of the file as it is, while nobody replaced it.
RightHint(a) == IF HeaderOf[a].version = 1 THEN "Password" ELSE "ExternalKey"

Untouched ==
    replacements = 0 =>
        /\ at = "header" => Versioned(file) /\ Preamble(file)[1].version = 2
        /\ \A a \in Archives :
              IsContainer(file.bytes, a) => requirement \in {"none", "Io", RightHint(a)}
        /\ requirement = "ExternalKey" =>
              HeaderThere(file) /\ Parses(file.bytes[1].of[1], 2)
        /\ at = "decrypt" => input = file.bytes \/ result = "Io"

Chosen ==
    /\ requirement \in {"Password", "ExternalKey"}
    /\ caller = IF requirement = "Password" THEN [version |-> 1, secret |-> Password]
                                            ELSE [version |-> 2, secret |-> Key]

DispatchInv ==
    /\ file \in Files /\ seen \in Seq(Files) /\ replacements \in Nat
    /\ at \in {"preamble", "header", "choose", "decrypt"}
    /\ at \in {"preamble", "header"} <=> requirement = "none"
    /\ at # "decrypt" => Init
    /\ at = "decrypt" => Chosen
    /\ Untouched
    /\ AnswerIsOfOneFile
    /\ \A a \in Archives :
          at = "decrypt" /\ IsContainer(input, a) /\ HeaderOf[a].version # caller.version =>
              /\ sink = <<>> /\ key = NoKey /\ pc \in {"header", "done"}
              /\ result \in {"none", "InvalidHeader", "Io"}

\* A file with a whole header has its preamble too.
LEMMA WholeHeader ==
    ASSUME NEW f \in Files, HeaderThere(f)
    PROVE  /\ f.bytes # <<>> /\ f.stub = <<>>
           /\ Head(f.bytes) = f.bytes[1]
           /\ Preamble(f) = f.bytes[1].of
<1>1. f.bytes # <<>> /\ Head(f.bytes).part = "header" /\ f.stub = <<>>
  BY DispatchAssumption DEF HeaderThere
<1>2. f.bytes \in Seq(WireBytes)
  BY DispatchAssumption, InputsAreWire
<1> QED BY <1>1, <1>2 DEF Preamble

\* So has a container.
LEMMA ContainerHasHeader ==
    ASSUME NEW f \in Files, NEW a \in Archives, IsContainer(f.bytes, a)
    PROVE  /\ HeaderThere(f)
           /\ f.bytes[1].of = <<HeaderOf[a]>>
           /\ Versioned(f) /\ Preamble(f)[1] = HeaderOf[a]
           /\ Len(f.bytes) >= 1
<1>1. f.bytes \in Seq(WireBytes)
  BY DispatchAssumption, InputsAreWire
<1>2. ContainerLen(HeaderOf[a]) \in Nat \ {0}
  <2>1. /\ HeaderOf[a].total_plaintext_size \in Nat /\ HeaderOf[a].total_chunks \in Nat
        /\ TagLen \in Nat
    BY ArchiveHeader, Widths DEF HasSizes
  <2>2. HeaderOf[a].total_chunks * TagLen \in Nat
    BY <2>1
  <2> QED BY <2>1, <2>2 DEF ContainerLen
<1>3. Len(f.bytes) >= 1 /\ f.bytes[1] = HeaderByte(HeaderOf[a])
  BY <1>2 DEF IsContainer
<1>4. f.bytes # <<>> /\ Head(f.bytes) = f.bytes[1]
  BY <1>1, <1>3
<1>5. HeaderThere(f) /\ f.bytes[1].of = <<HeaderOf[a]>>
  BY <1>3, <1>4 DEF HeaderThere, HeaderByte
<1>6. Preamble(f) = <<HeaderOf[a]>>
  BY <1>5, WholeHeader
<1>7. HeaderOf[a].magic
  BY ArchivesWellFormed DEF Parses
<1> QED BY <1>3, <1>5, <1>6, <1>7 DEF Versioned

\* Both readings of the file answer rightly of a container, and a raw key is
\* asked for only under a header HeaderV2 accepts.
LEMMA HintIsRight ==
    ASSUME NEW f \in Files, NEW a \in Archives, IsContainer(f.bytes, a)
    PROVE  /\ ~(f.bytes = <<>> /\ f.stub = <<>>)
           /\ Preamble(f)[1].version \in {1, 2}
           /\ Preamble(f)[1].version = 1 => RightHint(a) = "Password"
           /\ Preamble(f)[1].version = 2 => HeaderAsks(f) = {RightHint(a)}
<1>1. /\ HeaderThere(f) /\ f.bytes[1].of = <<HeaderOf[a]>>
      /\ Preamble(f)[1] = HeaderOf[a] /\ f.bytes # <<>>
  BY ContainerHasHeader, WholeHeader
<1>2. HeaderOf[a].version \in {1, 2} /\ Parses(HeaderOf[a], HeaderOf[a].version)
  BY ArchivesWellFormed
<1>3. ASSUME HeaderOf[a].version = 2 PROVE HeaderAsks(f) = {"ExternalKey"}
  <2>1. HeaderAsks(f) = {Asks(HeaderOf[a])}
    BY <1>1, WholeHeader DEF HeaderAsks
  <2>2. Asks(HeaderOf[a]) = "ExternalKey"
    BY <1>2, <1>3, DispatchAssumption DEF Asks
  <2> QED BY <2>1, <2>2
<1> QED BY <1>1, <1>2, <1>3 DEF RightHint

\* What has been opened stays opened.
LEMMA OneFileKept ==
    ASSUME DispatchInv, NEW f \in Files,
           \/ seen' = seen
           \/ seen' = Append(seen, f),
           \/ requirement' = requirement
           \/ requirement' \notin {"Password", "ExternalKey"}
           \/ /\ seen' = Append(seen, f)
              /\ Preamble(f) # <<>> /\ Preamble(f)[1].magic
              /\ requirement' = IF Preamble(f)[1].version = 1 THEN "Password"
                                                              ELSE Asks(Preamble(f)[1])
    PROVE  AnswerIsOfOneFile' /\ seen' \in Seq(Files)
<1>1. seen \in Seq(Files)
  BY DEF DispatchInv
<1>2. seen' \in Seq(Files)
  BY <1>1
<1>3. \A k \in DOMAIN seen : k \in DOMAIN seen' /\ seen'[k] = seen[k]
  BY <1>1
<1>4. CASE requirement' = requirement
  BY <1>3, <1>4 DEF DispatchInv, AnswerIsOfOneFile
<1>5. CASE requirement' \notin {"Password", "ExternalKey"}
  BY <1>2, <1>5 DEF AnswerIsOfOneFile
<1>6. CASE /\ seen' = Append(seen, f)
           /\ Preamble(f) # <<>> /\ Preamble(f)[1].magic
           /\ requirement' = IF Preamble(f)[1].version = 1 THEN "Password"
                                                           ELSE Asks(Preamble(f)[1])
  <2>1. Len(seen) + 1 \in DOMAIN seen' /\ seen'[Len(seen) + 1] = f
    BY <1>1, <1>6
  <2>2. AnswerIsOfOneFile'
    BY <1>6, <2>1, Zenon DEF AnswerIsOfOneFile
  <2> QED BY <1>2, <2>2
<1> QED BY <1>2, <1>4, <1>5, <1>6

LEMMA DispatchInitInv == DispatchInit => IInv /\ AnswerInv /\ DispatchInv
<1> SUFFICES ASSUME DispatchInit PROVE IInv /\ AnswerInv /\ DispatchInv
  OBVIOUS
<1>1. Init /\ IInv /\ AnswerInv
  BY InitInv, InitAnswer DEF DispatchInit
<1>2. result = "none" /\ requirement = "none" /\ at = "preamble" /\ replacements = 0
      /\ file \in Files /\ seen = <<>>
  BY <1>1 DEF DispatchInit, Init
<1>3. Untouched
  BY <1>2 DEF Untouched
<1> QED BY <1>1, <1>2, <1>3 DEF DispatchInv, AnswerIsOfOneFile

\* A step of the inspection leaves the reader where it starts.
LEMMA ReadPreambleStep ==
    ASSUME DispatchInv, ReadPreamble
    PROVE  DispatchInv'
<1>1. /\ at = "preamble" /\ seen' = Append(seen, file) /\ file \in Files
      /\ Init /\ UNCHANGED <<vars, file, replacements>> /\ result = "none"
      /\ requirement = "none"
  BY DEF DispatchInv, ReadPreamble, Init
<1>2. Init' /\ result' = "none" /\ replacements' \in Nat /\ file' = file
      /\ replacements' = replacements
  BY <1>1 DEF DispatchInv, Init, vars
<1>3. \/ requirement' \in {"Truncated", "InvalidHeader"} /\ at' = "choose"
      \/ /\ Versioned(file) /\ Preamble(file)[1].version = 1
         /\ requirement' = "Password" /\ at' = "choose"
      \/ /\ Versioned(file) /\ Preamble(file)[1].version = 2
         /\ requirement' = "none" /\ at' = "header"
  BY <1>1 DEF ReadPreamble, PreambleMissing, PreambleRefused, PreambleOf1, PreambleOf2, Requires
<1>4. AnswerIsOfOneFile' /\ seen' \in Seq(Files)
  BY <1>1, <1>3, OneFileKept DEF Versioned
<1>5. ASSUME NEW a \in Archives, IsContainer(file.bytes, a)
      PROVE  requirement' \in {"none", "Io", RightHint(a)}
  <2>1. /\ Versioned(file) /\ ~(file.bytes = <<>> /\ file.stub = <<>>)
        /\ Preamble(file)[1].version \in {1, 2}
        /\ Preamble(file)[1].version = 1 => RightHint(a) = "Password"
    BY <1>1, <1>5, HintIsRight, ContainerHasHeader
  <2>2. ~PreambleMissing /\ ~PreambleRefused
    BY <2>1 DEF PreambleMissing, PreambleRefused
  <2>3. PreambleOf1 \/ PreambleOf2
    BY <2>2 DEF ReadPreamble
  <2> QED BY <1>1, <2>1, <2>3 DEF PreambleOf1, PreambleOf2, Requires
<1>6. Untouched'
  <2>1. at' = "header" => Versioned(file) /\ Preamble(file)[1].version = 2
    BY <1>3
  <2> QED BY <1>2, <1>3, <1>5, <2>1 DEF Untouched, RightHint, Versioned, Preamble
<1> QED BY <1>1, <1>2, <1>3, <1>4, <1>6 DEF DispatchInv

LEMMA ReadHeaderStep ==
    ASSUME DispatchInv, ReadHeader
    PROVE  DispatchInv'
<1>1. /\ at = "header" /\ seen' = Append(seen, file) /\ file \in Files
      /\ Init /\ UNCHANGED <<vars, file, replacements>> /\ result = "none"
      /\ requirement = "none" /\ at' = "choose" /\ requirement' \in HeaderAsks(file)
  BY DEF DispatchInv, ReadHeader, Init, Requires
<1>2. Init' /\ result' = "none" /\ replacements' \in Nat /\ file' = file
      /\ replacements' = replacements
  BY <1>1 DEF DispatchInv, Init, vars
<1>3. ASSUME requirement' \in {"Password", "ExternalKey"}
      PROVE  LET h == file.bytes[1].of[1] IN
             /\ HeaderThere(file) /\ Preamble(file) = file.bytes[1].of
             /\ Preamble(file) # <<>>
             /\ Parses(h, 2) /\ h.magic /\ h.version = 2
             /\ requirement' = Asks(h)
  <2>1. HeaderThere(file) /\ requirement' = Asks(Head(file.bytes).of[1])
    BY <1>1, <1>3 DEF HeaderAsks
  <2>2. Head(file.bytes) = file.bytes[1] /\ Preamble(file) = file.bytes[1].of
    BY <1>1, <2>1, WholeHeader
  <2>3. Parses(file.bytes[1].of[1], 2)
    BY <1>3, <2>1, <2>2 DEF Asks
  <2>4. Preamble(file) # <<>>
    <3>1. file.bytes \in Seq(WireBytes) /\ file.bytes # <<>>
      BY <1>1, <2>1, DispatchAssumption, InputsAreWire DEF HeaderThere
    <3>2. file.bytes[1] \in WireBytes /\ file.bytes[1].part = "header"
      BY <2>1, <2>2, <3>1 DEF HeaderThere
    <3>3. PICK h \in Headers : file.bytes[1] = HeaderByte(h)
      BY <3>2 DEF WireBytes, Noise, BoxByte
    <3>4. file.bytes[1].of = <<h>>
      BY <3>3 DEF HeaderByte
    <3> QED BY <2>2, <3>4
  <2> QED BY <2>1, <2>2, <2>3, <2>4 DEF Parses
<1>4. requirement' \in {"Truncated", "InvalidHeader", "Password", "ExternalKey"}
  BY <1>1 DEF HeaderAsks, Asks
<1>5. AnswerIsOfOneFile' /\ seen' \in Seq(Files)
  <2>1. CASE requirement' \in {"Password", "ExternalKey"}
    <3>1. Preamble(file)[1].version = 2 /\ Preamble(file)[1].magic
          /\ Preamble(file) # <<>> /\ requirement' = Asks(Preamble(file)[1])
      BY <1>3, <2>1
    <3> QED BY <1>1, <3>1, OneFileKept
  <2>2. CASE requirement' \notin {"Password", "ExternalKey"}
    BY <1>1, <2>2, OneFileKept
  <2> QED BY <2>1, <2>2
<1>6. ASSUME replacements = 0, NEW a \in Archives, IsContainer(file.bytes, a)
      PROVE  requirement' \in {"none", "Io", RightHint(a)}
  <2>1. Preamble(file)[1].version = 2
    BY <1>1, <1>6 DEF DispatchInv, Untouched
  <2>2. HeaderAsks(file) = {RightHint(a)}
    BY <1>1, <1>6, <2>1, HintIsRight
  <2> QED BY <1>1, <2>2
<1>7. Untouched'
  <2>1. requirement' = "ExternalKey" => HeaderThere(file) /\ Parses(file.bytes[1].of[1], 2)
    BY <1>3
  <2> QED BY <1>1, <1>2, <1>6, <2>1 DEF Untouched, RightHint, HeaderThere
<1> QED BY <1>1, <1>2, <1>4, <1>5, <1>7 DEF DispatchInv

LEMMA OtherDispatchSteps ==
    ASSUME DispatchInv, InspectionFails \/ Replaced
    PROVE  DispatchInv'
<1>1. CASE InspectionFails
  <2>1. /\ at \in {"preamble", "header"} /\ requirement' = "Io" /\ at' = "choose" /\ Init
        /\ UNCHANGED <<vars, file, seen, replacements>> /\ file \in Files
    BY <1>1 DEF InspectionFails, Requires, DispatchInv
  <2>2. Init' /\ result' = "none"
    BY <2>1 DEF Init, vars
  <2>3. AnswerIsOfOneFile' /\ seen' \in Seq(Files)
    BY <2>1, OneFileKept
  <2>4. Untouched'
    BY <2>1 DEF Untouched
  <2> QED BY <2>1, <2>2, <2>3, <2>4 DEF DispatchInv
<1>2. CASE Replaced
  <2>1. /\ at # "decrypt" /\ Init /\ file' \in Files /\ replacements' = replacements + 1
        /\ UNCHANGED <<vars, seen, at, requirement>> /\ file \in Files /\ replacements \in Nat
    BY <1>2 DEF Replaced, DispatchInv
  <2>2. Init' /\ result' = "none"
    BY <2>1 DEF Init, vars
  <2>3. AnswerIsOfOneFile' /\ seen' \in Seq(Files)
    BY <2>1, OneFileKept
  <2>4. replacements' # 0 /\ replacements' \in Nat
    BY <2>1
  <2>5. Untouched'
    BY <2>4 DEF Untouched
  <2> QED BY <2>1, <2>2, <2>3, <2>4, <2>5 DEF DispatchInv
<1> QED BY <1>1, <1>2

\* The decryption starts afresh on the file as it is now.
LEMMA ChooseStep ==
    ASSUME DispatchInv, Choose
    PROVE  IInv' /\ AnswerInv' /\ DispatchInv'
<1>1. /\ at = "choose" /\ requirement \in {"Password", "ExternalKey"} /\ Init
      /\ input' = file.bytes /\ seen' = Append(seen, file) /\ at' = "decrypt"
      /\ UNCHANGED <<file, requirement, replacements, pc, pos, header, key, index,
                     total_written, sink, result>>
      /\ file \in Files
  BY DEF Choose, Calls, DispatchInv
<1>2. caller' = IF requirement = "Password" THEN [version |-> 1, secret |-> Password]
                                            ELSE [version |-> 2, secret |-> Key]
  BY DEF Choose, Calls
<1>3. caller' \in Callers /\ input' \in Inputs
  BY <1>1, <1>2, DispatchAssumption
<1>4. Init'
  BY <1>1, <1>3 DEF Init
<1>5. (Init => IInv)' /\ (Init => AnswerInv)'
  BY InitInv, InitAnswer, PTL
<1>6. Chosen'
  BY <1>1, <1>2 DEF Chosen
<1>7. AnswerIsOfOneFile' /\ seen' \in Seq(Files)
  BY <1>1, OneFileKept
<1>8. Untouched'
  BY <1>1 DEF Untouched, DispatchInv, RightHint, HeaderThere, Versioned, Preamble
<1>9. result' = "none" /\ sink' = <<>> /\ key' = NoKey /\ pc' = "header"
  BY <1>1 DEF Init
<1> QED BY <1>1, <1>4, <1>5, <1>6, <1>7, <1>8, <1>9 DEF DispatchInv

\* A call that does not get the file open has failed, and that is all.
LEMMA OpenFailsStep ==
    ASSUME DispatchInv, OpenFails
    PROVE  IInv' /\ AnswerInv' /\ DispatchInv'
<1>1. /\ at = "choose" /\ requirement \in {"Password", "ExternalKey"} /\ Init
      /\ pc' = "done" /\ result' = "Io" /\ at' = "decrypt"
      /\ UNCHANGED <<file, seen, requirement, replacements, input, pos, header, key, index,
                     total_written, sink>>
      /\ file \in Files /\ seen \in Seq(Files)
  BY DEF OpenFails, Calls, DispatchInv
<1>2. caller' = IF requirement = "Password" THEN [version |-> 1, secret |-> Password]
                                            ELSE [version |-> 2, secret |-> Key]
  BY DEF OpenFails, Calls
<1>3. caller' \in Callers /\ input' \in Inputs /\ pos' = 0 /\ index' = 0
      /\ total_written' = 0 /\ sink' = <<>> /\ key' = NoKey
  BY <1>1, <1>2, DispatchAssumption DEF Init
<1>4. TypeOK'
  <2>1. input' \in Seq(WireBytes)
    BY <1>3, InputsAreWire
  <2>2. 0 \in 0..Len(input')
    BY <2>1
  <2> QED BY <1>1, <1>3, <2>2 DEF TypeOK, Errors
<1>5. IInv'
  BY <1>1, <1>3, <1>4 DEF IInv, ReleasedIsAuthentic, OkMeansIntact, InLoopOrAfter
<1>6. AnswerInv'
  BY <1>1 DEF AnswerInv
<1>7. Chosen' /\ AnswerIsOfOneFile'
  BY <1>1, <1>2 DEF Chosen, AnswerIsOfOneFile, DispatchInv
<1>8. Untouched'
  BY <1>1 DEF Untouched, DispatchInv, RightHint, HeaderThere, Versioned, Preamble
<1> QED BY <1>1, <1>3, <1>5, <1>6, <1>7, <1>8 DEF DispatchInv

\* A container of the other version is refused for its header, unless this
\* cannot be read.
LEMMA OtherVersionRefused ==
    ASSUME IInv, Next, NEW a \in Archives, IsContainer(input, a),
           HeaderOf[a].version # caller.version,
           sink = <<>>, key = NoKey, pc \in {"header", "done"}
    PROVE  sink' = <<>> /\ key' = NoKey /\ pc' = "done" /\ result' \in {"InvalidHeader", "Io"}
<1> USE DEF HeaderMissing, HeaderRefused, HeaderRead, TagMissing, TagRead, ParamsRefused,
        KeyResolved, HeaderNotAuthentic, HeaderAuthenticated, ChunkMissing, ChunkNotAuthentic,
        ChunkWritten, CallbackContinues, LoopEnds, TrailingByte, InputExhausted, SizeChecked,
        SinkFails, CallbackCancels, InLoop
<1>1. pc = "header" /\ pos = 0
  BY DEF IInv, Next, Proceed, ReadFails
<1>2. Len(input) \in Nat /\ TagLen \in Nat
  BY InputsAreWire, Widths DEF IInv, TypeOK
<1>3. Len(input) > TagLen /\ input[1] = HeaderByte(HeaderOf[a])
  BY IntactHasHeader DEF HeaderIntact
<1>4. ~Short(1)
  BY <1>1, <1>2, <1>3 DEF Short
<1>5. ~HeaderReadable
  <2>1. ~Parses(HeaderOf[a], caller.version)
    BY DEF Parses
  <2> QED BY <1>3, <2>1 DEF HeaderReadable, HeaderByte
<1>6. ASSUME ~ReadFails PROVE HeaderRefused
  <2>1. ~InLoop
    BY <1>1
  <2> QED BY <1>1, <1>4, <1>5, <1>6, <2>1 DEF Next, Proceed
<1> QED BY <1>6 DEF ReadFails, Return

\* What it reads and for whom stays, and it has not failed before.
LEMMA SameInput ==
    ASSUME IInv, Next
    PROVE  UNCHANGED <<input, caller>> /\ result # "Io"
<1>1. UNCHANGED <<input, caller>>
  BY DEF Next, Proceed, HeaderMissing, HeaderRefused, HeaderRead, TagMissing, TagRead,
         ParamsRefused, KeyResolved, HeaderNotAuthentic, HeaderAuthenticated, ChunkMissing,
         ChunkNotAuthentic, ChunkWritten, CallbackContinues, LoopEnds, TrailingByte,
         InputExhausted, SizeChecked, SinkFails, CallbackCancels, ReadFails, Return
<1>2. pc # "done"
  BY ReaderRuns
<1> QED BY <1>1, <1>2 DEF IInv, TypeOK

LEMMA DecryptsStep ==
    ASSUME IInv, DispatchInv, Decrypts(Next)
    PROVE  DispatchInv'
<1>1. /\ at = "decrypt" /\ Next /\ Chosen
      /\ UNCHANGED <<file, seen, at, requirement, replacements>>
  BY DEF Decrypts, dispatchVars, DispatchInv
<1>2. UNCHANGED <<input, caller>> /\ result # "Io"
  BY <1>1, SameInput
<1>3. Chosen' /\ AnswerIsOfOneFile'
  BY <1>1, <1>2 DEF Chosen, AnswerIsOfOneFile, DispatchInv
<1>4. Untouched'
  BY <1>1, <1>2 DEF Untouched, DispatchInv, RightHint, HeaderThere, Versioned, Preamble
<1>5. ASSUME NEW a \in Archives, IsContainer(input', a), HeaderOf[a].version # caller'.version
      PROVE  /\ sink' = <<>> /\ key' = NoKey /\ pc' \in {"header", "done"}
             /\ result' \in {"none", "InvalidHeader", "Io"}
  <2>1. IsContainer(input, a) /\ HeaderOf[a].version # caller.version
    BY <1>2, <1>5
  <2>2. sink = <<>> /\ key = NoKey /\ pc \in {"header", "done"}
    BY <1>1, <2>1 DEF DispatchInv
  <2> QED BY <1>1, <2>1, <2>2, OtherVersionRefused
<1> QED BY <1>1, <1>3, <1>4, <1>5 DEF DispatchInv

LEMMA DispatchStep ==
    ASSUME IInv, AnswerInv, DispatchInv, [DispatchNext]_choiceVars
    PROVE  IInv' /\ AnswerInv' /\ DispatchInv'
<1>1. CASE UNCHANGED vars /\ DispatchInv'
  <2>1. [Next]_vars
    BY <1>1
  <2> QED BY <1>1, <2>1, NextInv, AnswerKept
<1>2. CASE ReadPreamble \/ ReadHeader \/ InspectionFails \/ Replaced
  <2>1. UNCHANGED vars
    BY <1>2 DEF ReadPreamble, ReadHeader, InspectionFails, Replaced
  <2> QED BY <1>1, <1>2, <2>1, ReadPreambleStep, ReadHeaderStep, OtherDispatchSteps
<1>3. CASE Choose \/ OpenFails
  BY <1>3, ChooseStep, OpenFailsStep
<1>4. CASE Decrypts(Next)
  <2>1. [Next]_vars
    BY <1>4 DEF Decrypts
  <2> QED BY <1>4, <2>1, NextInv, AnswerKept, DecryptsStep
<1>5. CASE UNCHANGED choiceVars
  <2>1. UNCHANGED <<file, seen, at, requirement, replacements>> /\ UNCHANGED vars
    BY <1>5 DEF choiceVars, dispatchVars
  <2>2. Init' = Init /\ Untouched' = Untouched /\ Chosen' = Chosen
        /\ AnswerIsOfOneFile' = AnswerIsOfOneFile
    BY <2>1 DEF vars, Init, Untouched, Chosen, AnswerIsOfOneFile, RightHint, HeaderThere,
                Versioned, Preamble
  <2>3. DispatchInv'
    BY <2>1, <2>2 DEF DispatchInv, vars
  <2> QED BY <1>1, <2>1, <2>3
<1>6. Decrypts(Proceed) \/ Decrypts(SinkFails) \/ Decrypts(CallbackCancels)
        \/ Decrypts(ReadFails) => Decrypts(Next)
  BY DEF Decrypts, Next
<1> QED BY <1>2, <1>3, <1>4, <1>5, <1>6 DEF DispatchNext, DispatchProceed

LEMMA DispatchInvHolds == DispatchSpec => [](IInv /\ AnswerInv /\ DispatchInv)
BY DispatchInitInv, DispatchStep, PTL DEF DispatchSpec

LEMMA HintFollows ==
    ASSUME IInv, AnswerInv, DispatchInv
    PROVE  HintCanBeFollowed
<1>1. ASSUME NEW a \in Archives, replacements = 0, IsContainer(file.bytes, a),
             SecretOf[a] = SecretFor(HeaderOf[a].version)
      PROVE  /\ requirement \in {"none", "Io", RightHint(a)}
             /\ result \in {"none", "Ok", "Io", "Cancelled"}
  <2>1. requirement \in {"none", "Io", RightHint(a)}
    BY <1>1 DEF DispatchInv, Untouched
  <2>2. CASE at # "decrypt"
    BY <2>1, <2>2 DEF DispatchInv, Init
  <2>3. CASE at = "decrypt" /\ result = "Io"
    BY <2>1, <2>3
  <2>4. CASE at = "decrypt" /\ result # "Io"
    <3>1. requirement = RightHint(a) /\ IsContainer(input, a)
      BY <1>1, <2>1, <2>4 DEF DispatchInv, Untouched, Chosen
    <3>2. HeaderOf[a].version \in {1, 2}
      BY ArchivesWellFormed
    <3>3. Owns(a)
      <4>1. CASE HeaderOf[a].version = 1
        BY <1>1, <2>4, <3>1, <4>1 DEF DispatchInv, Chosen, RightHint, SecretFor, Owns
      <4>2. CASE HeaderOf[a].version = 2
        BY <1>1, <2>4, <3>1, <4>2 DEF DispatchInv, Chosen, RightHint, SecretFor, Owns
      <4> QED BY <3>2, <4>1, <4>2
    <3>4. result \notin Errors \ {"Io", "Cancelled"}
      BY <3>1, <3>3 DEF IInv, NotIntact
    <3>5. result \in {"none", "Ok"} \cup Errors
      BY DEF IInv, TypeOK
    <3> QED BY <2>1, <3>4, <3>5
  <2> QED BY <2>2, <2>3, <2>4
<1>2. FollowedHintOpens
  BY <1>1 DEF FollowedHintOpens, RightHint
<1>3. ASSUME replacements = 0, requirement = "ExternalKey", result = "InvalidHeader"
      PROVE  FALSE
  <2>1. at = "decrypt"
    BY <1>3 DEF DispatchInv, Init
  <2>2. input = file.bytes /\ HeaderThere(file) /\ Parses(file.bytes[1].of[1], 2)
        /\ caller.version = 2 /\ file \in Files
    BY <1>3, <2>1 DEF DispatchInv, Untouched, Chosen
  <2>3. file.bytes[1].part = "header"
    BY <2>2, WholeHeader DEF HeaderThere
  <2>4. HeaderReadable
    BY <2>2, <2>3 DEF HeaderReadable
  <2> QED BY <1>3, <2>4 DEF AnswerInv
<1>4. ExternalKeyIsAccepted
  BY <1>3 DEF ExternalKeyIsAccepted
<1> QED BY <1>2, <1>4 DEF HintCanBeFollowed

\* inspect_key_requirement: what it says of a file that stays as it is can be
\* followed; the caller who has the secret gets every intact container open, but
\* for I/O errors and its own cancelling.
THEOREM HintCanAlwaysBeFollowed == DispatchSpec => []HintCanBeFollowed
BY HintFollows, DispatchInvHolds, PTL

\* inspect_key_requirement: however often the file is replaced between the three
\* times it is opened, the answer is true of one file, and harmless to another.
THEOREM HintIsAlwaysOfOneFile == DispatchSpec => []HintIsOfOneFile
<1>1. DispatchInv => HintIsOfOneFile
  BY DEF DispatchInv, HintIsOfOneFile, StaleHintIsHarmless
<1> QED BY <1>1, DispatchInvHolds, PTL
=============================================================================
