---------------------------- MODULE ArchiveBuild ----------------------------
(***************************************************************************)
(* build_archive: the selected paths are walked, which makes a list of     *)
(* entries, and the entries are then written one by one.  Listing a        *)
(* directory, looking at a child, reading its mode and reading its content *)
(* are separate steps, and others may change the tree between any two.     *)
(***************************************************************************)
EXTENDS FileTree

CONSTANTS
    Sources,     \* set of [tree, selection] the function may be called with
    BadNames,    \* names that are not UTF-8 (also: a path that ends in "..")
    MaxPathLen,  \* u16::MAX, counted in names
    Changes,     \* what others may do to the tree: set of [path, node]
    MaxChanges,
    Absent       \* in place of a node: the path and all below it is removed

ASSUME BuildAssumption ==
    /\ BadNames \subseteq Names
    /\ MaxPathLen \in Nat
    /\ MaxChanges \in Nat

\* What is selected lies below the root, trees hold nodes by their paths, each in a
\* directory, and a directory has no content of its own.
ASSUME SourceAssumption ==
    /\ \A s \in Sources :
          /\ s.selection \in Seq(Seq(Names) \ {<<>>})
          /\ DOMAIN s.tree \subseteq Seq(Names)
          /\ \A p \in DOMAIN s.tree :
                /\ s.tree[p] \in Nodes
                /\ p # <<>> => Front(p) \in DOMAIN s.tree /\ s.tree[Front(p)].kind = "dir"
                /\ s.tree[p].kind = "dir" => s.tree[p].content = NoContent
    /\ \A c \in Changes : c.path \in Seq(Names) /\ c.node \in Nodes \cup {Absent}

VARIABLES
    fs,           \* the tree, changed by others only
    source,       \* the member of Sources: as the call found it
    todo,         \* selected paths not looked at yet
    stack,        \* open directories: [abs, rel, names], names still to visit
    entries,      \* the list the walk makes: [rel, abs, dir]
    warnings,     \* the paths ignored with a warning
    permissions,  \* the mode write_entry has read for the entry at hand
    written,      \* the entries in the archive so far
    step,         \* "walk", "list", "head", "body", "done"
    built,        \* what build_archive returns
    changes       \* how often others have changed the tree

buildVars == <<fs, source, todo, stack, entries, warnings, permissions, written,
               step, built, changes>>

BuildStart(s) ==
    /\ source = s
    /\ fs = s.tree
    /\ todo = s.selection
    /\ stack = <<>> /\ entries = <<>> /\ warnings = <<>>
    /\ permissions = NewFileMode
    /\ written = <<>>
    /\ step = "walk" /\ built = "none"
    /\ changes = 0

Failing(r) == step' = "done" /\ built' = r

-----------------------------------------------------------------------------
(* The walk.                                                               *)

\* Skipped with a warning: out of reach, a link, or a name that is not UTF-8.
Ignored(t, p) ==
    ~Reachable(t, p) \/ t[p].kind = "link" \/ Last(p) \in BadNames

Entered(abs, rel, dir, below) ==
    /\ entries' = Append(entries, [rel |-> rel, abs |-> abs, dir |-> dir])
    /\ stack' = IF dir THEN Append(below, [abs |-> abs, rel |-> rel, names |-> {}])
                       ELSE below
    /\ step' = IF dir THEN "list" ELSE "walk"

\* Seeded fault: an ignored child ends the walk of its directory.
VisitOrReturn(abs, rel, below) ==
    /\ IF Ignored(fs, abs)
       THEN /\ warnings' = Append(warnings, abs)
            /\ stack' = IF below = <<>> THEN below ELSE Front(below)
            /\ step' = "walk"
            /\ UNCHANGED entries
       ELSE Entered(abs, rel, fs[abs].kind = "dir", below) /\ UNCHANGED warnings
    /\ UNCHANGED <<fs, source, permissions, written, built, changes>>

\* Look at one path: ignore it, list it as a file, or list it and enter it.
Visit(abs, rel, below) ==
    /\ IF Ignored(fs, abs)
       THEN /\ warnings' = Append(warnings, abs)
            /\ stack' = below
            /\ step' = "walk"
            /\ UNCHANGED entries
       ELSE Entered(abs, rel, fs[abs].kind = "dir", below) /\ UNCHANGED warnings
    /\ UNCHANGED <<fs, source, permissions, written, built, changes>>

VisitSelected ==
    /\ step = "walk" /\ stack = <<>> /\ todo # <<>>
    /\ Visit(Head(todo), <<Last(Head(todo))>>, <<>>)
    /\ todo' = Tail(todo)

\* The children are visited in the order of their names.
IsFirst(name, names) == \A other \in names \ {name} : name < other

\* Seeded fault: the prefix is the selected name only.
VisitChildFlat ==
    /\ step = "walk" /\ stack # <<>>
    /\ LET top == Last(stack) IN
       \E name \in top.names :
           /\ IsFirst(name, top.names)
           /\ Visit(Append(top.abs, name), <<Head(top.rel), name>>,
                    Append(Front(stack), [top EXCEPT !.names = @ \ {name}]))
    /\ UNCHANGED todo

VisitChild ==
    /\ step = "walk" /\ stack # <<>>
    /\ LET top == Last(stack) IN
       \E name \in top.names :
           /\ IsFirst(name, top.names)
           /\ Visit(Append(top.abs, name), Append(top.rel, name),
                    Append(Front(stack), [top EXCEPT !.names = @ \ {name}]))
    /\ UNCHANGED todo

CanList(d) == Reachable(fs, d) /\ fs[d].kind = "dir" /\ "r" \in fs[d].mode

\* fs::read_dir, collected; an error ends everything.
List ==
    /\ step = "list"
    /\ LET top == Last(stack) IN
       IF CanList(top.abs)
       THEN /\ stack' = Append(Front(stack),
                            [top EXCEPT !.names = ChildNames(fs, top.abs)])
            /\ step' = "walk"
            /\ UNCHANGED built
       ELSE Failing("Io") /\ UNCHANGED stack
    /\ UNCHANGED <<fs, source, todo, entries, warnings, permissions, written, changes>>

\* Seeded fault: the walk of a selected directory is never over.
LeaveNested ==
    /\ step = "walk" /\ Len(stack) > 1 /\ Last(stack).names = {}
    /\ stack' = Front(stack)
    /\ UNCHANGED <<fs, source, todo, entries, warnings, permissions, written, step,
                   built, changes>>

Leave ==
    /\ step = "walk" /\ stack # <<>> /\ Last(stack).names = {}
    /\ stack' = Front(stack)
    /\ UNCHANGED <<fs, source, todo, entries, warnings, permissions, written, step,
                   built, changes>>

\* The number of entries is written in front of them.
WriteCount ==
    /\ step = "walk" /\ stack = <<>> /\ todo = <<>>
    /\ step' = "head"
    /\ UNCHANGED <<fs, source, todo, stack, entries, warnings, permissions, written,
                   built, changes>>

-----------------------------------------------------------------------------
(* The entries, one after the other.                                       *)

Entry == entries[Len(written) + 1]

\* What read_permissions finds at p, through a link too.
ModeAt(p) == IF Reachable(fs, p) THEN fs[p].mode ELSE NewFileMode

AsWritten(e, mode, content, size) ==
    [path |-> e.rel, type |-> IF e.dir THEN 1 ELSE 0, perms |-> mode,
     size |-> size, content |-> content, utf8 |-> TRUE, fields |-> 4, blocks |-> size]

\* Path, type and mode are written; a directory is complete with that.
WriteHead ==
    /\ step = "head" /\ Len(written) < Len(entries)
    /\ IF Len(Entry.rel) > MaxPathLen
       THEN Failing("PathTooLong") /\ UNCHANGED <<permissions, written>>
       ELSE /\ permissions' = ModeAt(Entry.abs)
            /\ IF Entry.dir
               THEN /\ written' = Append(written,
                                     AsWritten(Entry, ModeAt(Entry.abs), NoContent, 0))
                    /\ UNCHANGED step
               ELSE step' = "body" /\ UNCHANGED written
            /\ UNCHANGED built
    /\ UNCHANGED <<fs, source, todo, stack, entries, warnings, changes>>

\* fs::read follows a link, fails on what is no file or leads to none, and waits
\* on a fifo.
Holds(p) ==
    /\ Reachable(fs, p)
    /\ fs[p].kind \in {"file", "link"} /\ fs[p].content # NoContent
    /\ "r" \in fs[p].mode
Waits(p) == Reachable(fs, p) /\ fs[p].kind = "fifo" /\ "r" \in fs[p].mode

WriteBody ==
    /\ step = "body" /\ ~Waits(Entry.abs)
    /\ IF Holds(Entry.abs)
       THEN LET data == fs[Entry.abs].content IN
            /\ written' = Append(written, AsWritten(Entry, permissions, data, StoredLen[data]))
            /\ step' = "head"
            /\ UNCHANGED built
       ELSE Failing("Io") /\ UNCHANGED written
    /\ UNCHANGED <<fs, source, todo, stack, entries, warnings, permissions, changes>>

WriteEnds ==
    /\ step = "head" /\ Len(written) = Len(entries)
    /\ Failing("Ok")
    /\ UNCHANGED <<fs, source, todo, stack, entries, warnings, permissions, written, changes>>

\* The archive cannot be written.
WriterFails ==
    /\ step \in {"head", "body"}
    /\ Failing("Io")
    /\ UNCHANGED <<fs, source, todo, stack, entries, warnings, permissions, written, changes>>

-----------------------------------------------------------------------------
(* Others.                                                                 *)

Changed(t, c) ==
    LET kept == {p \in DOMAIN t : c.path \notin UpTo(p)} IN
    [p \in kept \cup (IF c.node = Absent THEN {} ELSE {c.path}) |->
        IF p \in kept THEN t[p] ELSE c.node]

OthersChange ==
    /\ step # "done"
    /\ changes < MaxChanges
    /\ \E c \in Changes :
          /\ Reachable(fs, c.path) \/ (c.path # <<>> /\ Writable(fs, Front(c.path)))
          /\ fs' = Changed(fs, c)
    /\ changes' = changes + 1
    /\ UNCHANGED <<source, todo, stack, entries, warnings, permissions, written, step, built>>

BuildProceeds ==
    \/ VisitSelected \/ VisitChild \/ List \/ Leave
    \/ WriteCount \/ WriteHead \/ WriteBody \/ WriteEnds

-----------------------------------------------------------------------------
(* Properties.                                                             *)

\* What a walk of t from the selected path s comes across, and what of it is
\* ignored; declared here without any recursion.
Walked(t, s) ==
    {p \in DOMAIN t : s \in UpTo(p) /\ \A m \in Len(s)..Len(p) : ~Ignored(t, SubSeq(p, 1, m))}

IgnoredBelow(t, s) ==
    IF Ignored(t, s) THEN {s}
    ELSE {p \in DOMAIN t : p \notin UpTo(s) /\ Front(p) \in Walked(t, s) /\ Ignored(t, p)}

Relative(s, p) == SubSeq(p, Len(s), Len(p))

\* The order of the names, a directory before what is in it.
Precedes(p, q) ==
    \/ p # q /\ p \in UpTo(q)
    \/ \E k \in DOMAIN p \cap DOMAIN q :
          p[k] < q[k] /\ SubSeq(p, 1, k - 1) = SubSeq(q, 1, k - 1)

\* What is to be archived: a path of the walk of the k-th selected path.
Items(t, selection) ==
    UNION {{<<k, p>> : p \in Walked(t, selection[k])} : k \in DOMAIN selection}

ComesBefore(a, b) ==
    \/ a[1] < b[1]
    \/ a[1] = b[1] /\ Precedes(a[2], b[2])

EntryFor(t, selection, item) ==
    LET node == t[item[2]]
        dir == node.kind = "dir"
    IN  AsWritten([rel |-> Relative(selection[item[1]], item[2]), dir |-> dir],
                  node.mode, node.content, IF dir THEN 0 ELSE StoredLen[node.content])

\* One entry for each item, in its place.
IsArchiveOf(list, t, selection) ==
    LET items == Items(t, selection)
        Place(item) == Cardinality({other \in items : ComesBefore(other, item)}) + 1
    IN  /\ Len(list) = Cardinality(items)
        /\ \A item \in items : list[Place(item)] = EntryFor(t, selection, item)

\* Nothing on the way to p, and p itself, has been touched by others.
Untouched(p) ==
    \A q \in UpTo(p) : q \in DOMAIN source.tree /\ q \in DOMAIN fs /\ source.tree[q] = fs[q]

\* Whatever others do meanwhile, a file that they leave alone is in an archive
\* that was declared complete, with its content.
UntouchedIsArchived ==
    built = "Ok" =>
        \A k \in DOMAIN source.selection :
            LET s == source.selection[k] IN
            \A p \in Walked(source.tree, s) :
                Untouched(p) /\ changes <= 1 /\ fs[p].kind = "file" =>
                    \E j \in DOMAIN written :
                        /\ written[j].path = Relative(s, p)
                        /\ written[j].content = fs[p].content

\* Extraction meets a directory, and so its mode, before anything in it.
ParentsComeFirst ==
    \A k \in DOMAIN written :
        Len(written[k].path) > 1 =>
            \E j \in 1..(k - 1) :
                written[j].type = 1 /\ written[j].path = Front(written[k].path)

\* Others may disturb the walk only where they touch the tree.
WalkIsKept == UntouchedIsArchived /\ ParentsComeFirst
=============================================================================
