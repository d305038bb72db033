------------------------------ MODULE FileTree ------------------------------
(***************************************************************************)
(* Directory trees, as far as archiving and extracting a tree can tell     *)
(* them apart.  A tree maps paths to nodes; a path is the sequence of the  *)
(* names on the way, <<>> is the root.  A node of kind "link" carries what *)
(* reading through it gives, one of kind "fifo" nothing at all.            *)
(***************************************************************************)
EXTENDS Naturals, Sequences, SequencesExt, FiniteSets

CONSTANTS
    Names,      \* what one directory entry may be called, ordered by <
    Contents,   \* what a regular file may hold
    RawLen,     \* RawLen[c]: its length
    StoredLen,  \* StoredLen[c]: its length once compressed, in read blocks
    NoContent   \* of a directory

ASSUME ContentAssumption ==
    /\ RawLen \in [Contents -> Nat]
    /\ StoredLen \in [Contents -> Nat]
    /\ NoContent \notin Contents

\* Names are compared as file names are: no two come before each other.
ASSUME NameAssumption == \A m, n \in Names : ~(m < n /\ n < m)

\* Permission bits: read, write and execute of the owner, setuid, setgid or
\* sticky, and write for others.
ModeBits == {"r", "w", "x", "special", "other_write"}

NewDirMode == {"r", "w", "x"}
NewFileMode == {"r", "w"}

Dir(mode) == [kind |-> "dir", content |-> NoContent, mode |-> mode]
File(content, mode) == [kind |-> "file", content |-> content, mode |-> mode]

Nodes ==
    [kind : {"dir", "file", "link", "fifo"},
     content : Contents \cup {NoContent},
     mode : SUBSET ModeBits]

\* The paths on the way to p, without p and with it.
Above(p) == {SubSeq(p, 1, n) : n \in 0..(Len(p) - 1)}
UpTo(p) == Above(p) \cup {p}

ChildNames(t, p) == {n \in Names : Append(p, n) \in DOMAIN t}

Searchable(t, p) ==
    \A q \in Above(p) : q \in DOMAIN t /\ t[q].kind = "dir" /\ "x" \in t[q].mode

Reachable(t, p) == p \in DOMAIN t /\ Searchable(t, p)

\* An entry of the directory d can be made.
Writable(t, d) ==
    Reachable(t, d) /\ t[d].kind = "dir" /\ {"w", "x"} \subseteq t[d].mode

\* fs::create_dir_all
CanMakeDirs(t, p) ==
    \/ Reachable(t, p) /\ t[p].kind = "dir"
    \/ \E q \in Above(p) :
          /\ Writable(t, q)
          /\ \A m \in (Len(q) + 1)..Len(p) : SubSeq(p, 1, m) \notin DOMAIN t

MakeDirs(t, p) ==
    [q \in DOMAIN t \cup UpTo(p) |-> IF q \in DOMAIN t THEN t[q] ELSE Dir(NewDirMode)]

\* fs::write: a file that exists keeps its mode.
CanWriteFile(t, p) ==
    IF p \in DOMAIN t
    THEN Reachable(t, p) /\ t[p].kind = "file" /\ "w" \in t[p].mode
    ELSE p # <<>> /\ Writable(t, Front(p))

WriteFile(t, p, c) ==
    [q \in DOMAIN t \cup {p} |->
        IF q # p THEN t[q]
        ELSE File(c, IF p \in DOMAIN t THEN t[p].mode ELSE NewFileMode)]

SetMode(t, p, mode) == [t EXCEPT ![p].mode = mode]
=============================================================================
