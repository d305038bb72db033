-------------------------- MODULE ArchiveRoundTrip --------------------------
(***************************************************************************)
(* The two ends of an archive.  encrypt_paths seals what build_archive has *)
(* made of a selection, and extract_archive is given what was sealed, in a *)
(* new directory; or it is given an archive from elsewhere, and any        *)
(* destination.  What lies between, the container, is the matter of        *)
(* EncryptFile and DecryptFile, and the new directory that of DecryptToDir.*)
(***************************************************************************)
EXTENDS EncryptPaths, ArchiveExtract

\* What this program has compressed it can decompress.
ASSUME RoundTripAssumption ==
    \A s \in Sources : \A p \in DOMAIN s.tree : s.tree[p].content \notin Garbage

allVars == <<pathsVars, extractVars>>

Empty == [p \in {<<>>} |-> Dir(NewDirMode)]

HomeMade ==
    /\ PathsInit
    /\ archive = [count |-> NoCount, entries |-> <<>>]
    /\ before = Empty /\ tree = Empty
    /\ index = 0 /\ total = 0 /\ held = 0 /\ reserved = 0
    /\ pc = "waiting" /\ result = "none"

\* Nobody here has made the archive.
FromElsewhere ==
    /\ ExtractInit
    /\ BuildStart(CHOOSE s \in Sources : TRUE)
    /\ stage = "elsewhere" /\ output = Before /\ reply = "none" /\ undeleted = FALSE

RoundTripInit == HomeMade \/ FromElsewhere

Encrypting(action) == action /\ UNCHANGED extractVars

HandOver ==
    /\ pc = "waiting" /\ stage = "done" /\ reply = "Ok"
    /\ archive' = [count |-> Len(output.entries), entries |-> output.entries]
    /\ pc' = "count"
    /\ UNCHANGED <<pathsVars, before, tree, index, total, held, reserved, result>>

Extracting(action) == pc # "waiting" /\ action /\ UNCHANGED pathsVars

RoundTripNext == Encrypting(PathsNext) \/ HandOver \/ Extracting(ExtractNext)

RoundTripSpec ==
    /\ RoundTripInit /\ [][RoundTripNext]_allVars
    /\ WF_allVars(Encrypting(PathsProceed))
    /\ WF_allVars(Extracting(ExtractProceeds))

-----------------------------------------------------------------------------
(* Properties.                                                             *)

Originals ==
    UNION {{[path |-> Relative(source.selection[k], p), node |-> source.tree[p]] :
              p \in Walked(source.tree, source.selection[k])} : k \in DOMAIN source.selection}

\* A selection that can be had back: nobody changes it meanwhile, the output is
\* not in it, what is selected from different directories has different names,
\* and the owner may make files in each of its directories.
Restorable ==
    /\ stage # "elsewhere"
    /\ changes = 0
    /\ OutputIsElsewhere
    /\ \A k, l \in DOMAIN source.selection :
          Last(source.selection[k]) = Last(source.selection[l]) => k = l
    /\ \A o \in Originals : o.node.kind = "dir" => {"w", "x"} \subseteq o.node.mode

\* pipeline.rs:98, archive.rs:264: of such a selection, extraction restores the
\* original files and directories, all of them and nothing else, with their
\* sanitized modes (or the mode of a new file, where setting it fails).  It is
\* never refused a file or directory because of what it has made before.
OriginalsRestored ==
    Restorable =>
        /\ ~CannotMake
        /\ result \in {"none", "Ok", "Io", "LimitExceeded"}
        /\ result = "Ok" =>
              /\ DOMAIN tree = {<<>>} \cup {o.path : o \in Originals}
              /\ \A o \in Originals :
                    LET made == tree[o.path]
                        dir == o.node.kind = "dir"
                    IN  /\ made.kind = o.node.kind /\ made.content = o.node.content
                        /\ made.mode \in {SanitizeMode(o.node.mode, dir),
                                          IF dir THEN NewDirMode ELSE NewFileMode}

\* encrypt_paths returns, unless it is killed or waits for the writer of a fifo
\* (README.md says only of ordinary files and directories what happens to
\* them); and extraction returns whatever it is given.
Returns ==
    /\ <>(stage \in {"done", "killed", "elsewhere"}) \/ <>[](step = "body" /\ Waits(Entry.abs))
    /\ pc = "count" ~> pc = "done"
=============================================================================
