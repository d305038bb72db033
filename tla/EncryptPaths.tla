---------------------------- MODULE EncryptPaths ----------------------------
(***************************************************************************)
(* encrypt_paths: a temporary archive is created next to the output, the   *)
(* selection is archived into it, and it is encrypted to the output, of    *)
(* which EncryptFile shows that it is replaced at once or left alone.  The *)
(* temporary archive is a file of the very tree that is walked.            *)
(***************************************************************************)
EXTENDS ArchiveBuild

CONSTANTS
    OutDir,     \* the directory of the output, as a path of the tree
    TmpName,    \* the random name the temporary archive gets
    Unfinished  \* what a read of the archive finds while it is written

Tmp == Append(OutDir, TmpName)

\* A temporary file is a new one, and its name was nobody's to select.
ASSUME PathsAssumption ==
    /\ OutDir \in Seq(Names) /\ TmpName \in Names /\ Unfinished \in Contents
    /\ \A s \in Sources :
          /\ Tmp \notin DOMAIN s.tree
          /\ \A k \in DOMAIN s.selection : Tmp \notin UpTo(s.selection[k])

VARIABLES
    stage,     \* "create", "build", "encrypt", "drop", "done", "killed"
    output,    \* [by, entries]: the output file, and what is sealed in it
    reply,     \* what encrypt_paths returns
    undeleted  \* removing the temporary archive has failed

pathsVars == <<buildVars, stage, output, reply, undeleted>>

Before == [by |-> "before", entries |-> <<>>]
Sealed(list) == [by |-> "us", entries |-> list]

PathsInit ==
    /\ \E s \in Sources : BuildStart(s)
    /\ stage = "create" /\ output = Before /\ reply = "none" /\ undeleted = FALSE

Returning(r) == stage' = "drop" /\ reply' = r

CreateTmp ==
    /\ stage = "create"
    /\ \/ /\ fs' = Changed(fs, [path |-> Tmp, node |-> File(Unfinished, {"r", "w"})])
          /\ stage' = "build"
          /\ UNCHANGED reply
       \/ Returning("Archive") /\ UNCHANGED fs
    /\ UNCHANGED <<source, todo, stack, entries, warnings, permissions, written, step,
                   built, changes, output, undeleted>>

Build(action) ==
    /\ stage = "build"
    /\ action
    /\ UNCHANGED <<stage, output, reply, undeleted>>

\* Flushing the writer may fail too.
BuildReturned ==
    /\ stage = "build" /\ step = "done"
    /\ \/ built = "Ok" /\ stage' = "encrypt" /\ UNCHANGED reply
       \/ Returning("Archive")
    /\ UNCHANGED <<buildVars, output, undeleted>>

\* Seeded fault: the output is truncated before it is known that encryption succeeds.
EncryptTruncates ==
    /\ stage = "encrypt"
    /\ \/ output' = Sealed(written) /\ Returning("Ok")
       \/ output' = Sealed(<<>>) /\ Returning("Format")
    /\ UNCHANGED <<buildVars, undeleted>>

Encrypt ==
    /\ stage = "encrypt"
    /\ \/ output' = Sealed(written) /\ Returning("Ok")
       \/ UNCHANGED output /\ Returning("Format")
    /\ UNCHANGED <<buildVars, undeleted>>

\* Seeded fault: the temporary archive is removed when all went well.
DropAfterOk ==
    /\ stage = "drop"
    /\ IF reply = "Ok" THEN fs' = Changed(fs, [path |-> Tmp, node |-> Absent]) ELSE UNCHANGED fs
    /\ stage' = "done"
    /\ UNCHANGED <<source, todo, stack, entries, warnings, permissions, written, step,
                   built, changes, output, reply, undeleted>>

Drop ==
    /\ stage = "drop"
    /\ \/ fs' = Changed(fs, [path |-> Tmp, node |-> Absent]) /\ UNCHANGED undeleted
       \/ Tmp \in DOMAIN fs /\ undeleted' = TRUE /\ UNCHANGED fs
    /\ stage' = "done"
    /\ UNCHANGED <<source, todo, stack, entries, warnings, permissions, written, step,
                   built, changes, output, reply>>

Kill ==
    /\ stage \in {"create", "build", "encrypt", "drop"}
    /\ stage' = "killed"
    /\ UNCHANGED <<buildVars, output, reply, undeleted>>

PathsProceed ==
    CreateTmp \/ Build(BuildProceeds) \/ BuildReturned \/ Encrypt \/ Drop

PathsNext ==
    PathsProceed \/ Build(WriterFails) \/ Build(OthersChange) \/ Kill

-----------------------------------------------------------------------------
(* Properties.                                                             *)

Warned == {warnings[k] : k \in DOMAIN warnings}

\* The output lies in no directory that is archived.
OutputIsElsewhere ==
    \A k \in DOMAIN source.selection :
        OutDir \notin Walked(source.tree, source.selection[k])

\* The output is as it was, or it holds the whole of a walk that came to its
\* end, and Ok says so.
OutputIsWhole ==
    /\ reply = "Ok" <=> output # Before
    /\ output # Before =>
          /\ Len(output.entries) = Len(entries)
          /\ \A k \in DOMAIN entries : output.entries[k].path = entries[k].rel

\* pipeline.rs:55: the selection is encrypted, and Ok stands for all of it.  If
\* meanwhile nobody has changed the tree, that is each file and directory below
\* the selected ones, once, in the announced order (archive.rs:175), under its
\* path from the selected name on, with its content and mode; and a warning names
\* each thing that was left out.
OutputIsTheSelection ==
    /\ OutputIsWhole
    /\ output # Before /\ changes = 0 /\ OutputIsElsewhere =>
          /\ IsArchiveOf(output.entries, source.tree, source.selection)
          /\ Warned = UNION {IgnoredBelow(source.tree, source.selection[k]) :
                               k \in DOMAIN source.selection}

\* The archive in clear is gone when the function returns, unless the system
\* refuses to remove it (pipeline.rs:77).
ClearArchiveIsGone == stage = "done" => Tmp \notin DOMAIN fs \/ undeleted

IsSealed(list, content) == content = Sealed(list)

PathsAnswer ==
    CASE stage = "killed" -> "never"
      [] stage = "done" /\ reply = "Ok" -> "Ok"
      [] stage = "done" /\ reply # "Ok" -> "failed"
      [] OTHER -> "pending"

Output == INSTANCE AtomicReplace WITH
    place <- output, goal <- written, Sound <- IsSealed, answer <- PathsAnswer

\* Up to one step the output is left alone, and that step makes it final.
ReplacesAtomically == Output!Spec
=============================================================================
