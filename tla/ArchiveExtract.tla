--------------------------- MODULE ArchiveExtract ---------------------------
(***************************************************************************)
(* extract_archive_with_limits: the entries of an archive are made below a *)
(* destination, one by one, within limits.  An archive is what the reader  *)
(* finds in its input, field by field, up to the end of the input:         *)
(*   count    the announced number of entries, NoCount if not even that    *)
(*   entries  [path, utf8, type, perms, size, fields, blocks, content]     *)
(* where the first `fields` of path, type, perms and size are there, and   *)
(* `blocks` blocks of the content; only the last entry may be incomplete.  *)
(***************************************************************************)
EXTENDS FileTree, FiniteSetsExt

CONSTANTS
    Archives,        \* the archives there are
    Trees,           \* what the destination may hold before
    OtherComponents, \* path components that are no names: "..", "/", "."
    Garbage,         \* contents that are not a sound compressed stream
    MaxEntries,      \* limits.max_entries
    MaxEntrySize,    \* limits.max_entry_compressed_size, in blocks
    MaxTotal,        \* limits.max_total_extracted_size
    PreserveExec,    \* limits.preserve_executable_bit
    NoCount

ASSUME LimitAssumption ==
    /\ MaxEntries \in Nat /\ MaxEntrySize \in Nat /\ MaxTotal \in Nat
    /\ PreserveExec \in BOOLEAN
    /\ NoCount \notin Nat
    /\ Garbage \subseteq Contents
    /\ OtherComponents \cap Names = {}

Components == Names \cup OtherComponents

EntryRecords ==
    [path : Seq(Components), utf8 : BOOLEAN, type : Nat, perms : SUBSET ModeBits,
     size : Nat, fields : 0..4, blocks : Nat, content : Contents \cup {NoContent}]

\* What type 0 announces is a file with a content.
ASSUME ArchiveAssumption ==
    \A a \in Archives :
        /\ a.count \in Nat \cup {NoCount}
        /\ a.entries \in Seq(EntryRecords)
        /\ \A k \in DOMAIN a.entries : a.entries[k].type = 0 => a.entries[k].content \in Contents

\* The destination is a directory of plain files and directories.
ASSUME TreeAssumption ==
    \A t \in Trees :
        /\ DOMAIN t \subseteq Seq(Names) /\ <<>> \in DOMAIN t
        /\ \A p \in DOMAIN t : t[p] \in Nodes /\ t[p].kind \in {"file", "dir"}
        /\ \A p \in DOMAIN t \ {<<>>} : Front(p) \in DOMAIN t /\ t[Front(p)].kind = "dir"

VARIABLES
    archive,    \* the input
    before,     \* the tree below the destination as the call found it
    tree,       \* the tree below the destination now
    index,      \* entries done
    total,      \* total_extracted
    held,       \* blocks of the current content in memory
    reserved,   \* blocks allocated for it
    pc,         \* "count", "head", "dir", "parent", "content", "unpack", "file", "done"
    result

extractVars == <<archive, before, tree, index, total, held, reserved, pc, result>>

ExtractInit ==
    /\ archive \in Archives
    /\ before \in Trees
    /\ tree = before
    /\ index = 0 /\ total = 0 /\ held = 0 /\ reserved = 0
    /\ pc = "count" /\ result = "none"

Ending(r) ==
    /\ pc' = "done" /\ result' = r
    /\ UNCHANGED <<archive, before, tree, index, total, held, reserved>>

Going(next) ==
    /\ pc' = next
    /\ UNCHANGED <<archive, before, index, total, result>>

Current == archive.entries[index + 1]
Here == index < Len(archive.entries)

-----------------------------------------------------------------------------
(* The head of the archive and of each entry.                              *)

\* The destination itself is made here, when it is not there.
CountRead ==
    /\ pc = "count"
    /\ archive.count # NoCount
    /\ archive.count <= MaxEntries
    /\ Going("head")
    /\ UNCHANGED <<tree, held, reserved>>

CountRefused ==
    /\ pc = "count"
    /\ \/ archive.count = NoCount /\ Ending("Malformed")
       \/ archive.count # NoCount /\ archive.count > MaxEntries /\ Ending("LimitExceeded")

\* Seeded fault: only an empty path is refused.
SafeIfAny(path) == path # <<>>

\* validate_relative_path: not empty, and names only.
SafePath(path) == path # <<>> /\ \A k \in DOMAIN path : path[k] \in Names

\* The checks of an entry's head, in the order of its fields.
HeadError(e) ==
    IF e.fields < 1 \/ ~e.utf8 THEN "Malformed"
    ELSE IF ~SafePath(e.path) THEN "UnsafePath"
    ELSE IF e.fields < 4 \/ e.type \notin {0, 1} THEN "Malformed"
    ELSE IF e.size > MaxEntrySize THEN "LimitExceeded"
    ELSE "none"

InLoop == pc = "head" /\ index < archive.count

HeadRefused ==
    /\ InLoop
    /\ \/ ~Here /\ Ending("Malformed")
       \/ Here /\ HeadError(Current) # "none" /\ Ending(HeadError(Current))

HeadAccepted ==
    /\ InLoop /\ Here
    /\ HeadError(Current) = "none"
    /\ Going(IF Current.type = 1 THEN "dir" ELSE "parent")
    /\ UNCHANGED <<tree, held, reserved>>

\* Seeded fault: the last entry is left out.
LoopEndsEarly ==
    /\ pc = "head" /\ index + 1 >= archive.count
    /\ Ending("Ok")

\* What follows the announced entries is not read.
LoopEnds ==
    /\ pc = "head" /\ index = archive.count
    /\ Ending("Ok")

-----------------------------------------------------------------------------
(* Making what the entry stands for.                                       *)

\* sanitize_mode
SanitizeMode(mode, isDir) ==
    (mode \ {"special", "other_write"})
        \ (IF isDir \/ PreserveExec THEN {} ELSE {"x"})

NextEntry ==
    /\ index' = index + 1
    /\ held' = 0 /\ reserved' = 0
    /\ pc' = "head"
    /\ UNCHANGED <<archive, before, result>>

\* set_permissions may fail; nobody looks.
MakeDir ==
    /\ pc = "dir"
    /\ CanMakeDirs(tree, Current.path)
    /\ LET made == MakeDirs(tree, Current.path) IN
       \/ tree' = SetMode(made, Current.path, SanitizeMode(Current.perms, TRUE))
       \/ tree' = made
    /\ NextEntry
    /\ UNCHANGED total

MakeParent ==
    /\ pc = "parent"
    /\ CanMakeDirs(tree, Front(Current.path))
    /\ tree' = MakeDirs(tree, Front(Current.path))
    /\ held' = 0 /\ reserved' = IF Current.size = 0 THEN 0 ELSE 1
    /\ Going("content")

\* read_len_incrementally: the buffer starts with room for one block; a block
\* for which there is no room doubles it.
ReadBlock ==
    /\ pc = "content" /\ held < Current.size
    /\ held < Current.blocks
    /\ held' = held + 1
    /\ reserved' = IF held = reserved THEN 2 * reserved ELSE reserved
    /\ Going(pc)
    /\ UNCHANGED tree

BlockMissing ==
    /\ pc = "content" /\ held < Current.size
    /\ held = Current.blocks
    /\ Ending("Malformed")

ContentRead ==
    /\ pc = "content" /\ held = Current.size
    /\ Going("unpack")
    /\ UNCHANGED <<tree, held, reserved>>

Remaining == IF MaxTotal > total THEN MaxTotal - total ELSE 0

\* Seeded faults: the cap is one short, or the same for every entry.
FitsStrictly(c) == RawLen[c] < Remaining
FitsAlone(c) == RawLen[c] <= MaxTotal

\* decompress_bytes_capped: output that fills the cap exactly is accepted.
Fits(c) == RawLen[c] <= Remaining

\* Of a broken stream, RawLen is what comes out before the decoder notices.
Unpack ==
    /\ pc = "unpack"
    /\ Fits(Current.content)
    /\ Current.content \notin Garbage
    /\ total' = total + RawLen[Current.content]
    /\ pc' = "file"
    /\ UNCHANGED <<archive, before, tree, index, held, reserved, result>>

UnpackFails ==
    /\ pc = "unpack"
    /\ \/ ~Fits(Current.content) /\ Ending("LimitExceeded")
       \/ Fits(Current.content) /\ Current.content \in Garbage /\ Ending("Malformed")

MakeFile ==
    /\ pc = "file"
    /\ CanWriteFile(tree, Current.path)
    /\ LET made == WriteFile(tree, Current.path, Current.content) IN
       \/ tree' = SetMode(made, Current.path, SanitizeMode(Current.perms, FALSE))
       \/ tree' = made
    /\ NextEntry
    /\ UNCHANGED total

\* The file system refuses: always when what must be made cannot be.
CannotMake ==
    \/ pc = "dir" /\ ~CanMakeDirs(tree, Current.path)
    \/ pc = "parent" /\ ~CanMakeDirs(tree, Front(Current.path))
    \/ pc = "file" /\ ~CanWriteFile(tree, Current.path)

MakeRefused == CannotMake /\ Ending("Io")

\* The input cannot be read, or the disk is full: directories on the way may
\* have been made, or a part of the file.
IoFails ==
    /\ pc # "done"
    /\ pc' = "done" /\ result' = "Io"
    /\ \/ UNCHANGED tree
       \/ /\ pc \in {"dir", "parent"}
          /\ \E q \in Above(Current.path) :
                CanMakeDirs(tree, q) /\ tree' = MakeDirs(tree, q)
       \/ /\ pc = "file"
          /\ CanWriteFile(tree, Current.path)
          /\ tree' = WriteFile(tree, Current.path, NoContent)
    /\ UNCHANGED <<archive, before, index, total, held, reserved>>

ExtractProceeds ==
    \/ CountRead \/ CountRefused \/ HeadRefused \/ HeadAccepted \/ LoopEnds
    \/ MakeDir \/ MakeParent \/ ReadBlock \/ BlockMissing \/ ContentRead
    \/ Unpack \/ UnpackFails \/ MakeFile \/ MakeRefused

ExtractNext == ExtractProceeds \/ IoFails

ExtractSpec == ExtractInit /\ [][ExtractNext]_extractVars /\ WF_extractVars(ExtractProceeds)

-----------------------------------------------------------------------------
(* Properties.                                                             *)

ExtractTypeOK ==
    /\ \A p \in DOMAIN tree : tree[p] \in Nodes
    /\ total \in Nat /\ held \in Nat /\ reserved \in Nat
    /\ archive.count # NoCount => index \in 0..archive.count
    /\ index \in 0..Len(archive.entries)
    /\ pc \in {"count", "head", "dir", "parent", "content", "unpack", "file", "done"}
    /\ result \in {"none", "Ok", "Malformed", "UnsafePath", "LimitExceeded", "Io"}
    /\ result = "none" <=> pc # "done"

\* The files this call has written whole.
Extracted ==
    {p \in DOMAIN tree : /\ tree[p].kind = "file" /\ tree[p].content # NoContent
                         /\ p \in DOMAIN before => tree[p].content # before[p].content}

\* What entry e takes from the budget, and the first k entries together.
Cost(e) == IF e.type = 0 THEN RawLen[e.content] ELSE 0

SumTo[k \in 0..Len(archive.entries)] ==
    IF k = 0 THEN 0 ELSE SumTo[k - 1] + Cost(archive.entries[k])

\* The bytes taken from the budget never exceed it, and they account for
\* every file that has been written: each is one of the entries done, and what
\* all of these hold has been taken, however many of them share the budget
\* (archive.rs:351: no series of small entries exceeds the limit together).
BudgetKept ==
    /\ SumTo[index] <= total /\ total <= MaxTotal
    /\ \A p \in Extracted : \E k \in 1..index :
          LET e == archive.entries[k] IN
          e.type = 0 /\ e.path = p /\ e.content = tree[p].content

\* Nothing is made outside the destination, and what is there stays: each
\* path is made of names only and lies in a directory of the tree.
StaysInside ==
    /\ DOMAIN before \subseteq DOMAIN tree
    /\ \A p \in DOMAIN tree :
          /\ p \in Seq(Names)
          /\ p # <<>> => Front(p) \in DOMAIN tree /\ tree[Front(p)].kind = "dir"

\* Whatever modes an archive asks for (archive.rs:470), no file or directory
\* gets setuid, setgid, sticky or write for others from it, nor a file the right to
\* be executed when that is switched off.
ModesAreSafe ==
    \A p \in DOMAIN tree :
        \/ p \in DOMAIN before /\ tree[p].mode = before[p].mode
        \/ /\ tree[p].mode \cap {"special", "other_write"} = {}
           /\ tree[p].kind = "file" /\ ~PreserveExec => "x" \notin tree[p].mode

\* The memory held for a content is of the size of what has been read of it,
\* not of what the archive announces (archive.rs:411).
MemoryFollowsInput == reserved > 1 => reserved <= 2 * (held - 1) /\ held <= Current.blocks

\* What an archive that nobody vouches for can do is done inside the
\* destination, with safe modes and with memory in proportion to its size.
HostileIsContained == StaysInside /\ ModesAreSafe /\ MemoryFollowsInput

EntriesUsed == 1..archive.count

\* What entry k calls for when those before it are right.
EntryError(k) ==
    IF k > Len(archive.entries) THEN "Malformed"
    ELSE LET e == archive.entries[k] IN
         IF HeadError(e) # "none" THEN HeadError(e)
         ELSE IF e.type = 1 THEN "none"
         ELSE IF e.blocks < e.size THEN "Malformed"
         ELSE IF SumTo[k] > MaxTotal THEN "LimitExceeded"
         ELSE IF e.content \in Garbage THEN "Malformed"
         ELSE "none"

Verdict ==
    CASE archive.count = NoCount -> "Malformed"
      [] archive.count # NoCount /\ archive.count > MaxEntries -> "LimitExceeded"
      [] OTHER ->
           LET bad == {k \in EntriesUsed : EntryError(k) # "none"} IN
           IF bad = {} THEN "Ok" ELSE EntryError(Min(bad))

\* Unless the system fails, the answer is that of the first defect of the
\* archive in the order of its bytes, and Ok if it has none: a sum that meets the
\* limit exactly is accepted, and one byte more is not (archive.rs:356).
AnswerIsDeserved == result \notin {"none", "Io"} => result = Verdict

Claims(p) == {k \in EntriesUsed : archive.entries[k].path = p}

\* After Ok the destination holds what it held and what the entries stand
\* for, the last one where several have the same path, and nothing else but the
\* directories on the way.
OkMeansAll ==
    result = "Ok" =>
        /\ \A p \in DOMAIN tree :
              IF Claims(p) = {}
              THEN \/ p \in DOMAIN before /\ tree[p] = before[p]
                   \/ tree[p].kind = "dir" /\ \E k \in EntriesUsed : p \in Above(archive.entries[k].path)
              ELSE LET e == archive.entries[Max(Claims(p))] IN
                   IF e.type = 1 THEN tree[p].kind = "dir"
                   ELSE tree[p].kind = "file" /\ tree[p].content = e.content
        /\ \A k \in EntriesUsed : archive.entries[k].path \in DOMAIN tree

\* The answer is the right one, and Ok stands for all that it says.
AnswerIsExact == AnswerIsDeserved /\ OkMeansAll
=============================================================================
