----------------------------- MODULE KeyDispatch -----------------------------
(***************************************************************************)
(* inspect_key_requirement, and the choice it is for: the caller asks what *)
(* key a file needs and then decrypts it with a password or with a raw     *)
(* key.  The file is opened anew for the preamble, for the whole header of *)
(* version 2, and for the decryption, and others may replace it meanwhile. *)
(*                                                                         *)
(* A file is [bytes, stub]: when its header is not complete, bytes is      *)
(* empty, and stub is <<h>> if the preamble (magic and version) of a       *)
(* header h is there.                                                      *)
(***************************************************************************)
EXTENDS DecryptReader

CONSTANTS
    Files,             \* what may be at the path
    Password,          \* the secrets of the caller
    Key,
    MaxReplacements    \* how often others replace the file

\* What encryption writes as version 2 names external recipients (format.rs:995).
ASSUME DispatchAssumption ==
    /\ \A a \in Archives :
          HeaderOf[a].version = 2 => HeaderOf[a].key_source = "external"
    /\ \A f \in Files : f.bytes \in Inputs /\ (f.stub # <<>> => f.bytes = <<>>)
    /\ <<>> \in Inputs
    /\ [version |-> 1, secret |-> Password] \in Callers
    /\ [version |-> 2, secret |-> Key] \in Callers
    /\ MaxReplacements \in Nat

VARIABLES
    file,         \* the file at the path, as it is now
    seen,         \* the files that were opened, in that order
    at,           \* "preamble", "header", "choose", "decrypt"
    requirement,  \* what inspect_key_requirement returned, "none" before
    replacements

dispatchVars == <<file, seen, at, requirement, replacements>>
choiceVars == <<vars, dispatchVars>>

DispatchInit ==
    /\ file \in Files
    /\ seen = <<>> /\ at = "preamble" /\ requirement = "none"
    /\ replacements = 0
    /\ Init /\ input = <<>> /\ caller = [version |-> 1, secret |-> Password]

\* The header whose first five bytes f has.
Preamble(f) ==
    IF f.stub # <<>> THEN f.stub
    ELSE IF f.bytes # <<>> /\ Head(f.bytes).part = "header" THEN Head(f.bytes).of
    ELSE <<>>

HeaderThere(f) == f.bytes # <<>> /\ Head(f.bytes).part = "header"

Requires(r) == requirement' = r /\ at' = "choose"

\* Seeded fault: the magic is not looked at.
VersionedAnyhow(f) == Preamble(f) # <<>>

Versioned(f) == Preamble(f) # <<>> /\ Preamble(f)[1].magic

\* Five bytes that are no preamble have no magic.
PreambleMissing == file.bytes = <<>> /\ file.stub = <<>> /\ Requires("Truncated")

PreambleRefused ==
    /\ file.bytes # <<>> \/ file.stub # <<>>
    /\ Versioned(file) => Preamble(file)[1].version \notin {1, 2}
    /\ Requires("InvalidHeader")

PreambleOf1 == Versioned(file) /\ Preamble(file)[1].version = 1 /\ Requires("Password")

PreambleOf2 ==
    /\ Versioned(file) /\ Preamble(file)[1].version = 2
    /\ at' = "header"
    /\ UNCHANGED requirement

ReadPreamble ==
    /\ at = "preamble"
    /\ seen' = Append(seen, file)
    /\ PreambleMissing \/ PreambleRefused \/ PreambleOf1 \/ PreambleOf2
    /\ UNCHANGED <<vars, file, replacements>>

\* Seeded fault: the key source is not looked at.
AsksForPassword(h) == IF ~Parses(h, 2) THEN "InvalidHeader" ELSE "Password"

\* What HeaderV2::from_reader may answer for f, and what its key source asks
\* for; a header that stops early may be refused before its end is missed.
Asks(h) ==
    IF ~Parses(h, 2) THEN "InvalidHeader"
    ELSE IF h.key_source = "password" THEN "Password" ELSE "ExternalKey"

HeaderAsks(f) ==
    IF HeaderThere(f) THEN {Asks(Head(f.bytes).of[1])}
    ELSE IF f.bytes # <<>> THEN {"InvalidHeader"}
    ELSE {"Truncated"} \cup (IF f.stub # <<>> THEN {"InvalidHeader"} ELSE {})

ReadHeader ==
    /\ at = "header"
    /\ seen' = Append(seen, file)
    /\ \E r \in HeaderAsks(file) : Requires(r)
    /\ UNCHANGED <<vars, file, replacements>>

\* The call, or the open in it, fails.
InspectionFails ==
    /\ at \in {"preamble", "header"}
    /\ Requires("Io")
    /\ UNCHANGED <<vars, file, seen, replacements>>

\* decrypt_file for a password, decrypt_file_with_raw_key for an external key,
\* or the function of that name that reports progress.
Calls ==
    /\ at = "choose" /\ requirement \in {"Password", "ExternalKey"}
    /\ caller' = IF requirement = "Password" THEN [version |-> 1, secret |-> Password]
                                             ELSE [version |-> 2, secret |-> Key]
    /\ at' = "decrypt"
    /\ UNCHANGED <<file, requirement, replacements, pos, header, key, index, total_written, sink>>

\* The call opens the file once more.
Choose ==
    /\ Calls
    /\ input' = file.bytes
    /\ seen' = Append(seen, file)
    /\ UNCHANGED <<pc, result>>

\* That open fails, or making the temporary file before it.
OpenFails ==
    /\ Calls
    /\ pc' = "done" /\ result' = "Io"
    /\ UNCHANGED <<input, seen>>

\* The file has been opened: it is read to its end, unless a read or a write
\* fails or the callback cancels.
Decrypts(step) == at = "decrypt" /\ step /\ UNCHANGED dispatchVars

\* Another process puts another file there.
Replaced ==
    /\ at # "decrypt" /\ replacements < MaxReplacements
    /\ file' \in Files \ {file}
    /\ replacements' = replacements + 1
    /\ UNCHANGED <<vars, seen, at, requirement>>

DispatchProceed == ReadPreamble \/ ReadHeader \/ Choose \/ Decrypts(Proceed)

DispatchNext ==
    \/ DispatchProceed
    \/ Decrypts(SinkFails) \/ Decrypts(CallbackCancels) \/ Decrypts(ReadFails)
    \/ InspectionFails \/ OpenFails \/ Replaced

DispatchSpec == DispatchInit /\ [][DispatchNext]_choiceVars /\ WF_choiceVars(DispatchProceed)

-----------------------------------------------------------------------------
(* Properties.                                                             *)

\* The caller's secret for the archives of version v.
SecretFor(v) == IF v = 1 THEN Password ELSE Key

\* A caller who does as the inspection says opens every intact container whose
\* secret it has, if the file stays the same: nothing in the file, and nothing of
\* the choice, is in the way; only an I/O error or its own cancellation prevents it.
FollowedHintOpens ==
    \A a \in Archives :
        LET v == HeaderOf[a].version IN
        replacements = 0 /\ IsContainer(file.bytes, a) /\ SecretOf[a] = SecretFor(v) =>
            /\ requirement \in {"none", "Io", IF v = 1 THEN "Password" ELSE "ExternalKey"}
            /\ result \in {"none", "Ok", "Io", "Cancelled"}

\* The raw key is asked for only where a raw key can be used: a file that was not
\* replaced is not refused to it for its header.
ExternalKeyIsAccepted ==
    replacements = 0 /\ requirement = "ExternalKey" => result # "InvalidHeader"

\* What the inspection says can be done.
HintCanBeFollowed == FollowedHintOpens /\ ExternalKeyIsAccepted

\* A file replaced after the inspection by a container for the other API is
\* refused as a whole, unless its header cannot be read: nothing is blamed on the
\* secret, nothing is released.
StaleHintIsHarmless ==
    \A a \in Archives :
        at = "decrypt" /\ IsContainer(input, a) /\ HeaderOf[a].version # caller.version =>
            /\ sink = <<>> /\ key = NoKey
            /\ result \in {"none", "InvalidHeader", "Io"}

\* An answer that names a key is true of a file that was opened: never a mixture
\* of the preamble of one file and the header of another.
AnswerIsOfOneFile ==
    requirement \in {"Password", "ExternalKey"} =>
        \E k \in DOMAIN seen :
            LET p == Preamble(seen[k]) IN
            /\ p # <<>> /\ p[1].magic
            /\ requirement = IF p[1].version = 1 THEN "Password" ELSE Asks(p[1])

\* What it says of files that are replaced meanwhile is true of one of them, and
\* does no harm to another.
HintIsOfOneFile == StaleHintIsHarmless /\ AnswerIsOfOneFile

\* FORMAT.md:641: a file of version 2 with key_source = 0 behaves as one of
\* version 1; the password it asks for is then not refused for its header.
PasswordIsAccepted ==
    replacements = 0 /\ requirement = "Password" /\ Parses(Preamble(file)[1], 2) =>
        result # "InvalidHeader"
=============================================================================
