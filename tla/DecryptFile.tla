----------------------------- MODULE DecryptFile -----------------------------
(***************************************************************************)
(* decrypt_file_with_progress and decrypt_file_with_raw_key_and_progress:  *)
(* the reader of DecryptReader writes to a temporary file next to the      *)
(* output, which is renamed over the output once all of the container has  *)
(* been authenticated.  Every step of the reader is a step here.           *)
(***************************************************************************)
EXTENDS DecryptReader

VARIABLES
    stage,     \* the next step around the reader
    tmp,       \* whether the temporary file exists
    dest,      \* [by, bytes]: the output file
    answer,    \* what the function returns, "none" while it runs
    undeleted  \* removing the temporary file has failed

fileVars == <<stage, tmp, dest, answer, undeleted>>
allVars == <<vars, fileVars>>

BeforeUs == [by |-> "before", bytes |-> <<>>]
ByUs(bytes) == [by |-> "us", bytes |-> bytes]

FileInit ==
    /\ Init
    /\ stage = "create"
    /\ tmp = FALSE
    /\ dest = BeforeUs
    /\ answer = "none"
    /\ undeleted = FALSE

TmpCreated ==
    /\ stage = "create"
    /\ tmp' = TRUE
    /\ stage' = "decrypt"
    /\ UNCHANGED <<vars, dest, answer, undeleted>>

\* The reader takes a step; its sink is a buffered writer on the temporary
\* file.
ReaderSteps(step) ==
    /\ stage = "decrypt"
    /\ step
    /\ UNCHANGED fileVars

\* The function returns r; the temporary file is dropped first.
Returning(r) ==
    /\ answer' = r
    /\ stage' = "drop"
    /\ UNCHANGED <<vars, tmp, dest, undeleted>>

\* Seeded fault: the temporary file is left behind.
ReaderFailedUncleaned ==
    /\ stage = "decrypt"
    /\ pc = "done"
    /\ result # "Ok"
    /\ answer' = result
    /\ stage' = "done"
    /\ UNCHANGED <<vars, tmp, dest, undeleted>>

ReaderFailed ==
    stage = "decrypt" /\ pc = "done" /\ result # "Ok" /\ Returning(result)

\* Seeded fault: the reader's answer is not looked at.
ReaderBelieved ==
    /\ stage = "decrypt"
    /\ pc = "done"
    /\ stage' = "flush"
    /\ UNCHANGED <<vars, tmp, dest, answer, undeleted>>

ReaderSucceeded ==
    /\ stage = "decrypt"
    /\ pc = "done"
    /\ result = "Ok"
    /\ stage' = "flush"
    /\ UNCHANGED <<vars, tmp, dest, answer, undeleted>>

\* Seeded fault: the output is written before the rename.
FlushedToOutput ==
    /\ stage = "flush"
    /\ dest' = ByUs(sink)
    /\ stage' = "persist"
    /\ UNCHANGED <<vars, tmp, answer, undeleted>>

Flushed ==
    /\ stage = "flush"
    /\ stage' = "persist"
    /\ UNCHANGED <<vars, tmp, dest, answer, undeleted>>

\* Everything the sink has taken is in the file that is renamed.
Persisted ==
    /\ stage = "persist"
    /\ dest' = ByUs(sink)
    /\ tmp' = FALSE
    /\ answer' = "Ok"
    /\ stage' = "drop"
    /\ UNCHANGED <<vars, undeleted>>

\* The TempPath removes the file, and ignores that this fails.
Dropped ==
    /\ stage = "drop"
    /\ \/ tmp' = FALSE /\ UNCHANGED undeleted
       \/ tmp /\ UNCHANGED tmp /\ undeleted' = TRUE
    /\ stage' = "done"
    /\ UNCHANGED <<vars, dest, answer>>

\* Creating the temporary file, opening it or the input, flushing or renaming
\* fails.
FileFails ==
    /\ stage \in {"create", "flush", "persist"} \/ (stage = "decrypt" /\ pc = "header")
    /\ Returning("Io")

\* The process is killed: no destructor runs.
Killed ==
    /\ stage \notin {"done", "killed"}
    /\ stage' = "killed"
    /\ UNCHANGED <<vars, tmp, dest, answer, undeleted>>

FileProceed ==
    \/ TmpCreated
    \/ ReaderSteps(Proceed)
    \/ ReaderFailed \/ ReaderSucceeded
    \/ Flushed \/ Persisted \/ Dropped

FileNext ==
    \/ FileProceed
    \/ ReaderSteps(SinkFails) \/ ReaderSteps(CallbackCancels) \/ ReaderSteps(ReadFails)
    \/ FileFails \/ Killed

FileSpec == FileInit /\ [][FileNext]_allVars /\ WF_allVars(FileProceed)

-----------------------------------------------------------------------------
(* Properties.                                                             *)

FileTypeOK ==
    /\ stage \in {"create", "decrypt", "flush", "persist", "drop", "done", "killed"}
    /\ tmp \in BOOLEAN
    /\ dest.by \in {"before", "us"}
    /\ answer \in {"none", "Ok"} \cup Errors
    /\ undeleted \in BOOLEAN

\* The input is a container of the caller's own, and content its plaintext.
Goal == [bytes |-> input, caller |-> caller]

Restored(goal, content) ==
    /\ content.by = "us"
    /\ \E a \in Archives :
          /\ goal.caller.version = HeaderOf[a].version
          /\ goal.caller.secret = SecretOf[a]
          /\ IsContainer(goal.bytes, a)
          /\ content.bytes = Plaintext(a)

\* The output is as it was, or the whole plaintext of an intact container of
\* the caller's own, even if the process is killed: bytes the reader has
\* released before it found the damage never get there.
OutputIsAuthentic == dest.by = "us" => Restored(Goal, dest)

\* An error leaves the output as it was and no plaintext in a temporary file
\* (unless removing it failed); Ok means the output has been replaced.
ErrorLeavesNoPlaintext ==
    stage = "done" =>
        /\ answer = "Ok" <=> dest.by = "us"
        /\ tmp => undeleted

\* The function returns, unless it is killed.
FileFinishes == <>(stage \in {"done", "killed"})

\* The output file is replaced atomically.
FileAnswer == CASE stage = "done" /\ answer = "Ok" -> "Ok"
                [] stage = "done" /\ answer # "Ok" -> "failed"
                [] stage = "killed" -> "never"
                [] OTHER -> "pending"

Output == INSTANCE AtomicReplace WITH
    Before <- BeforeUs, Sound <- Restored, place <- dest, goal <- Goal, answer <- FileAnswer

ReplacesAtomically == Output!Spec
=============================================================================
