---------------------------- MODULE DecryptToDir ----------------------------
(***************************************************************************)
(* decrypt_to_dir: the container is decrypted to a temporary archive next  *)
(* to it, the archive is extracted to a temporary directory next to the    *)
(* destination, and what was extracted is moved to the destination: all at *)
(* once if there is none, item by item if there is one.  Others may use    *)
(* the destination meanwhile, and the process may be killed.               *)
(*                                                                         *)
(* Of the tree, the model keeps the entries of the top level ("items").    *)
(* Decryption and extraction are what DecryptFile and ArchiveExtract make  *)
(* of them: the archive appears at once and whole, the items part by part. *)
(***************************************************************************)
EXTENDS Naturals, FiniteSets

CONSTANTS
    Items,         \* what an archive may have at its top level
    IsDir,         \* the items that are directories
    MaxMeddling    \* how often others use the destination

ASSUME ItemAssumption == IsDir \subseteq Items /\ MaxMeddling \in Nat

VARIABLES
    items,        \* the items of this archive
    pc,
    temps,        \* the temporaries there are: "archive", "dir", and decrypt_file's
                  \* own, "inner"
    tmpDir,       \* tmpDir[i]: what is at name i in the temporary directory
    destKind,     \* "absent", "dir", "file", "dangling" (a link to nothing)
    at,           \* at[i]: what is at name i in the destination
    todo,         \* the merge: items not moved yet
    moved,        \* items that have been moved to the destination
    answer,       \* "none", "Ok", "Format", "Archive"
    undeleted,    \* what could not be removed
    meddling

destVars == <<destKind, at>>
vars == <<items, pc, temps, tmpDir, destVars, todo, moved, answer,
          undeleted, meddling>>

\* What may be at a name of the destination: an item of ours, perhaps only a
\* part of it, or what others put there.
Theirs == {"file", "empty dir", "full dir"}
Holdings == {"nothing", "part", "whole"} \cup Theirs

Nowhere == [i \in Items |-> "nothing"]

Init ==
    /\ items \in SUBSET Items
    /\ pc = "create"
    /\ temps = {} /\ tmpDir = Nowhere
    /\ destKind \in {"absent", "dir", "file", "dangling"}
    /\ at \in [Items -> {"nothing"} \cup Theirs]
    /\ destKind # "dir" => at = Nowhere
    /\ todo = {} /\ moved = {}
    /\ answer = "none" /\ undeleted = {} /\ meddling = 0

-----------------------------------------------------------------------------
(* Up to the end of the extraction.                                        *)

\* An error: the temporaries are dropped, the directory first.
Failing(r) == pc' = "drop dir" /\ answer' = r

CreateArchive ==
    /\ pc = "create"
    /\ \/ temps' = {"archive"} /\ pc' = "decrypt" /\ UNCHANGED answer
       \/ Failing("Archive") /\ UNCHANGED temps
    /\ UNCHANGED <<items, tmpDir, destVars, todo, moved, undeleted, meddling>>

\* decrypt_file writes to a temporary file of its own ...
DecryptBegins ==
    /\ pc = "decrypt" /\ "inner" \notin temps
    /\ temps' = temps \cup {"inner"}
    /\ UNCHANGED <<items, pc, tmpDir, destVars, todo, moved, answer, undeleted, meddling>>

\* ... and renames it over our archive, or removes it.
DecryptEnds ==
    /\ pc = "decrypt" /\ "inner" \in temps
    /\ \/ temps' = temps \ {"inner"} /\ pc' = "make dir" /\ UNCHANGED <<answer, undeleted>>
       \/ temps' = temps \ {"inner"} /\ Failing("Format") /\ UNCHANGED undeleted
       \/ undeleted' = undeleted \cup {"inner"} /\ Failing("Format") /\ UNCHANGED temps
    /\ UNCHANGED <<items, tmpDir, destVars, todo, moved, meddling>>

DecryptFails ==
    /\ pc = "decrypt" /\ "inner" \notin temps
    /\ Failing("Format")
    /\ UNCHANGED <<items, temps, tmpDir, destVars, todo, moved, undeleted, meddling>>

\* The parent of the destination is made too, if it is missing.
MakeDir ==
    /\ pc = "make dir"
    /\ \/ temps' = temps \cup {"dir"} /\ pc' = "extract" /\ UNCHANGED answer
       \/ Failing("Archive") /\ UNCHANGED temps
    /\ UNCHANGED <<items, tmpDir, destVars, todo, moved, undeleted, meddling>>

\* An item is begun, and completed later.
ExtractPart(i) ==
    /\ pc = "extract"
    /\ \/ tmpDir[i] = "nothing" /\ tmpDir' = [tmpDir EXCEPT ![i] = "part"]
       \/ tmpDir[i] = "part" /\ tmpDir' = [tmpDir EXCEPT ![i] = "whole"]
    /\ UNCHANGED <<items, pc, temps, destVars, todo, moved, answer,
                   undeleted, meddling>>

\* Seeded fault: an item that has been begun counts.
ExtractEndsEarly ==
    /\ pc = "extract"
    /\ \A i \in items : tmpDir[i] # "nothing"
    /\ pc' = "exists"
    /\ UNCHANGED <<items, temps, tmpDir, destVars, todo, moved, answer,
                   undeleted, meddling>>

ExtractEnds ==
    /\ pc = "extract"
    /\ \A i \in items : tmpDir[i] = "whole"
    /\ pc' = "exists"
    /\ UNCHANGED <<items, temps, tmpDir, destVars, todo, moved, answer,
                   undeleted, meddling>>

\* A limit, a malformed entry, the disk.
ExtractFails ==
    /\ pc = "extract"
    /\ Failing("Archive")
    /\ UNCHANGED <<items, temps, tmpDir, destVars, todo, moved, undeleted,
                   meddling>>

-----------------------------------------------------------------------------
(* finalize_extraction.                                                    *)

\* exists() follows a link: to nothing, it is not there.
LookForDestination ==
    /\ pc = "exists"
    /\ pc' = IF destKind \in {"absent", "dangling"} THEN "rename" ELSE "list"
    /\ UNCHANGED <<items, temps, tmpDir, destVars, todo, moved, answer,
                   undeleted, meddling>>

\* A directory is renamed to nothing, or over an empty directory.
CanRenameAll == destKind = "absent" \/ (destKind = "dir" /\ at = Nowhere)

Renamed ==
    /\ destKind' = "dir"
    /\ at' = tmpDir
    /\ moved' = items
    /\ temps' = temps \ {"dir"}
    /\ tmpDir' = Nowhere

\* Seeded fault: a rename that fails is taken for one that was done.
RenameUnchecked ==
    /\ pc = "rename"
    /\ \/ CanRenameAll /\ Renamed
       \/ UNCHANGED <<temps, tmpDir, destVars, moved>>
    /\ answer' = "Ok" /\ pc' = "drop dir"
    /\ UNCHANGED <<items, todo, undeleted, meddling>>

RenameAll ==
    /\ pc = "rename"
    /\ \/ CanRenameAll /\ Renamed /\ answer' = "Ok" /\ pc' = "drop dir"
       \/ Failing("Archive") /\ UNCHANGED <<temps, tmpDir, destVars, moved>>
    /\ UNCHANGED <<items, todo, undeleted, meddling>>

List ==
    /\ pc = "list"
    /\ \/ todo' = items /\ pc' = "merge" /\ UNCHANGED answer
       \/ Failing("Archive") /\ UNCHANGED todo
    /\ UNCHANGED <<items, temps, tmpDir, destVars, moved, undeleted, meddling>>

\* A file is renamed to nothing or over a file, a directory to nothing or over
\* an empty directory.
CanMove(i) ==
    /\ destKind = "dir"
    /\ at[i] \in {"nothing"} \cup (IF i \in IsDir THEN {"empty dir"} ELSE {"file"})

\* Seeded fault: an item that cannot be moved is passed over.
MergeLeniently(i) ==
    /\ pc = "merge" /\ i \in todo
    /\ todo' = todo \ {i}
    /\ IF CanMove(i)
       THEN /\ at' = [at EXCEPT ![i] = tmpDir[i]]
            /\ tmpDir' = [tmpDir EXCEPT ![i] = "nothing"]
            /\ moved' = moved \cup {i}
       ELSE UNCHANGED <<tmpDir, at, moved>>
    /\ UNCHANGED <<items, pc, temps, destKind, answer, undeleted, meddling>>

\* Seeded fault: what is in the way is removed first.
MergeByForce(i) ==
    /\ pc = "merge" /\ i \in todo
    /\ \/ /\ destKind = "dir"
          /\ at' = [at EXCEPT ![i] = tmpDir[i]]
          /\ tmpDir' = [tmpDir EXCEPT ![i] = "nothing"]
          /\ moved' = moved \cup {i}
          /\ todo' = todo \ {i}
          /\ UNCHANGED <<pc, answer>>
       \/ Failing("Archive") /\ UNCHANGED <<todo, tmpDir, at, moved>>
    /\ UNCHANGED <<items, temps, destKind, undeleted, meddling>>

Merge(i) ==
    /\ pc = "merge" /\ i \in todo
    /\ \/ /\ CanMove(i)
          /\ at' = [at EXCEPT ![i] = tmpDir[i]]
          /\ tmpDir' = [tmpDir EXCEPT ![i] = "nothing"]
          /\ moved' = moved \cup {i}
          /\ todo' = todo \ {i}
          /\ UNCHANGED <<pc, answer>>
       \/ Failing("Archive") /\ UNCHANGED <<todo, tmpDir, at, moved>>
    /\ UNCHANGED <<items, temps, destKind, undeleted, meddling>>

MergeEnds ==
    /\ pc = "merge" /\ todo = {}
    /\ answer' = "Ok" /\ pc' = "drop dir"
    /\ UNCHANGED <<items, temps, tmpDir, destVars, todo, moved, undeleted,
                   meddling>>

-----------------------------------------------------------------------------
(* Clean-up, which may fail, and what the rest of the world does.          *)

\* Dropping the temporary t, and what is in it.
Dropped(t) ==
    \/ temps' = temps \ {t} /\ UNCHANGED undeleted
    \/ t \in temps /\ undeleted' = undeleted \cup {t} /\ UNCHANGED temps

DropDir ==
    /\ pc = "drop dir"
    /\ Dropped("dir")
    /\ tmpDir' = Nowhere
    /\ pc' = "drop archive"
    /\ UNCHANGED <<items, destVars, todo, moved, answer, meddling>>

DropArchive ==
    /\ pc = "drop archive"
    /\ Dropped("archive")
    /\ pc' = "done"
    /\ UNCHANGED <<items, tmpDir, destVars, todo, moved, answer, meddling>>

\* No destructor runs.
Killed ==
    /\ pc \notin {"done", "killed"}
    /\ pc' = "killed"
    /\ UNCHANGED <<items, temps, tmpDir, destVars, todo, moved, answer,
                   undeleted, meddling>>

\* Others make, remove or replace the destination or an entry of it; they do not
\* make our items.
Meddle ==
    /\ pc # "done" /\ meddling < MaxMeddling
    /\ meddling' = meddling + 1
    /\ \/ /\ destKind' \in {"absent", "dir", "file", "dangling"} \ {destKind}
          /\ at' = Nowhere
       \/ /\ destKind = "dir"
          /\ \E i \in Items, what \in {"nothing"} \cup Theirs : at' = [at EXCEPT ![i] = what]
          /\ UNCHANGED destKind
    /\ UNCHANGED <<items, pc, temps, tmpDir, todo, moved, answer, undeleted>>

Proceed ==
    \/ CreateArchive \/ DecryptBegins \/ DecryptEnds
    \/ MakeDir \/ (\E i \in items : ExtractPart(i)) \/ ExtractEnds
    \/ LookForDestination \/ RenameAll \/ List \/ (\E i \in items : Merge(i)) \/ MergeEnds
    \/ DropDir \/ DropArchive

Next == Proceed \/ DecryptFails \/ ExtractFails \/ Meddle \/ Killed

Spec == Init /\ [][Next]_vars /\ WF_vars(Proceed)

-----------------------------------------------------------------------------
(* Properties.                                                             *)

TypeOK ==
    /\ items \subseteq Items /\ todo \subseteq items /\ moved \subseteq items
    /\ pc \in {"create", "decrypt", "make dir", "extract", "exists", "rename", "list",
               "merge", "drop dir", "drop archive", "done", "killed"}
    /\ temps \subseteq {"inner", "dir", "archive"}
    /\ tmpDir \in [Items -> {"nothing", "part", "whole"}]
    /\ destKind \in {"absent", "dir", "file", "dangling"}
    /\ at \in [Items -> Holdings]
    /\ answer \in {"none", "Ok", "Format", "Archive"}
    /\ undeleted \subseteq {"inner", "dir", "archive"}
    /\ meddling \in 0..MaxMeddling

\* The destination holds nothing of ours before the extraction has ended, and
\* never a part of an item (pipeline.rs:26), not even after a kill.
UntouchedUntilExtracted ==
    /\ \A i \in Items : at[i] # "part" /\ (at[i] = "whole" => i \in moved)
    /\ pc \in {"create", "decrypt", "make dir", "extract", "exists"} => moved = {}

\* What others have at the destination is only ever lost to an item of the same
\* name and sort, never to an item of another sort or with what is in it.
TheirsIsKept ==
    [][\A i \in Items :
          at[i] \in Theirs /\ at'[i] # at[i] /\ meddling' = meddling =>
              /\ at'[i] = "whole" /\ i \in moved' \ moved
              /\ at[i] = IF i \in IsDir THEN "empty dir" ELSE "file"]_vars

\* Ok: each item was moved; an error before the merge: none.  Only the merge may
\* fail with some of them moved (pipeline.rs:181).
AnswerTellsWhatMoved ==
    pc = "done" =>
        /\ answer = "Ok" => moved = items
        /\ answer = "Format" => moved = {}
        /\ answer = "Archive" /\ moved # {} => todo = items \ moved

\* When the function returns, the temporaries are gone (pipeline.rs:13), but for
\* those the system refuses to remove.
TemporariesAreGone == pc = "done" => temps \subseteq undeleted

\* The function returns with a true answer and without leftovers.
ReturnIsClean == AnswerTellsWhatMoved /\ TemporariesAreGone

\* The destination is published as PublishDirectory says.
Told == CASE pc = "killed" -> "never"
          [] pc = "done" /\ answer = "Ok" -> "Ok"
          [] pc = "done" /\ answer # "Ok" -> "failed"
          [] OTHER -> "pending"

Publication == INSTANCE PublishDirectory WITH
    Ours <- "whole", Nothing <- "nothing", kind <- destKind, goal <- items,
    answer <- Told

PublishesAsPromised == Publication!Spec

\* pipeline.rs:181: the merge fails where an entry of the same name exists at the
\* destination; nothing that others have there is replaced.
SameNameIsRefused ==
    [][\A i \in Items : at[i] = "file" /\ meddling' = meddling => at'[i] = at[i]]_vars
=============================================================================
