---------------------------- MODULE ArchiveProofs ----------------------------
(***************************************************************************)
(* The two ends of an archive, for every tree, selection and archive.      *)
(* Extraction: where it makes files and directories, with which modes, how *)
(* much memory it claims, what its answer says and what it has made.       *)
(* Building: what is in an archive whatever others do meanwhile, and what  *)
(* is left of the output and of the archive in clear.                      *)
(***************************************************************************)
EXTENDS ArchiveRoundTrip, SequenceTheorems, FiniteSetTheorems, WellFoundedInduction, TLAPS

-----------------------------------------------------------------------------
(* Paths.                                                                  *)

LEMMA Prefix ==
    ASSUME NEW p \in Seq(Names), NEW n \in 0..Len(p)
    PROVE  /\ SubSeq(p, 1, n) \in Seq(Names)
           /\ Len(SubSeq(p, 1, n)) = n
           /\ \A j \in 1..n : SubSeq(p, 1, n)[j] = p[j]
<1>1. Len(p) \in Nat /\ n \in Nat /\ n <= Len(p)
  OBVIOUS
<1>2. \A j \in 1..n : p[j] \in Names
  BY <1>1
<1>3. \A j \in 1..(n - 1 + 1) : SubSeq(p, 1, n)[j] = p[1 + j - 1]
  BY <1>1, <1>2, SubSeqProperties
<1>4. SubSeq(p, 1, n) \in Seq(Names) /\ Len(SubSeq(p, 1, n)) = IF 1 <= n THEN n - 1 + 1 ELSE 0
  BY <1>1, <1>2, SubSeqProperties
<1> QED BY <1>1, <1>3, <1>4

LEMMA PrefixOfPrefix ==
    ASSUME NEW p \in Seq(Names), NEW n \in 0..Len(p), NEW m \in 0..n
    PROVE  SubSeq(SubSeq(p, 1, n), 1, m) = SubSeq(p, 1, m)
<1> DEFINE s == SubSeq(p, 1, n)
           u == SubSeq(s, 1, m)
           v == SubSeq(p, 1, m)
<1>1. /\ s \in Seq(Names) /\ Len(s) = n /\ \A j \in 1..n : s[j] = p[j]
  BY Prefix
<1>2. m \in 0..Len(s) /\ m \in 0..Len(p) /\ m \in Nat
  BY <1>1
<1>3. /\ v \in Seq(Names) /\ Len(v) = m /\ \A j \in 1..m : v[j] = p[j]
  BY <1>2, Prefix
<1> HIDE DEF s, v
<1>4. /\ u \in Seq(Names) /\ Len(u) = m /\ \A j \in 1..m : u[j] = s[j]
  BY <1>1, <1>2, Prefix
<1> HIDE DEF u
<1>5. \A j \in 1..m : u[j] = v[j]
  BY <1>1, <1>2, <1>3, <1>4
<1>6. u = v
  BY <1>3, <1>4, <1>5, SeqEqual
<1> QED BY <1>6 DEF u, v, s

LEMMA FrontOfPrefix ==
    ASSUME NEW p \in Seq(Names), NEW n \in 1..Len(p)
    PROVE  Front(SubSeq(p, 1, n)) = SubSeq(p, 1, n - 1)
<1>1. Len(p) \in Nat /\ n \in 0..Len(p) /\ n - 1 \in 0..n
  OBVIOUS
<1>2. Len(SubSeq(p, 1, n)) = n
  BY <1>1, Prefix
<1> QED BY <1>1, <1>2, PrefixOfPrefix DEF Front

\* The prefixes of a path, and those of its prefixes.
LEMMA OnTheWay ==
    ASSUME NEW p \in Seq(Names), NEW q \in UpTo(p)
    PROVE  /\ q \in Seq(Names)
           /\ Len(q) \in 0..Len(p)
           /\ q = SubSeq(p, 1, Len(q))
           /\ q # <<>> => Len(q) > 0 /\ Front(q) = SubSeq(p, 1, Len(q) - 1)
<1>1. PICK n \in 0..Len(p) : q = SubSeq(p, 1, n)
  <2>1. CASE q = p
    <3>1. Len(p) \in Nat /\ q = SubSeq(p, 1, Len(p))
      BY <2>1, SubSeqFull
    <3> QED BY <3>1
  <2>2. CASE q \in Above(p)
    BY <2>2 DEF Above
  <2> QED BY <2>1, <2>2 DEF UpTo
<1>2. q \in Seq(Names) /\ Len(q) = n
  BY <1>1, Prefix
<1>3. ASSUME q # <<>> PROVE Len(q) > 0 /\ Front(q) = SubSeq(p, 1, Len(q) - 1)
  <2>1. Len(q) > 0
    BY <1>2, <1>3, EmptySeq
  <2>2. n \in 1..Len(p)
    BY <1>2, <2>1
  <2> QED BY <1>1, <1>2, <2>1, <2>2, FrontOfPrefix
<1> QED BY <1>1, <1>2, <1>3

LEMMA AboveIsPrefix ==
    ASSUME NEW p \in Seq(Names), NEW m \in 0..Len(p)
    PROVE  /\ SubSeq(p, 1, m) \in UpTo(p)
           /\ m < Len(p) => SubSeq(p, 1, m) \in Above(p)
<1>1. CASE m = Len(p)
  BY <1>1, SubSeqFull DEF UpTo
<1>2. CASE m < Len(p)
  <2>1. m \in 0..(Len(p) - 1)
    BY <1>2
  <2> QED BY <2>1 DEF UpTo, Above
<1> QED BY <1>1, <1>2

-----------------------------------------------------------------------------
(* Trees.                                                                  *)

\* Every path is made of names and lies in a directory.
GoodTree(t) ==
    /\ DOMAIN t \subseteq Seq(Names)
    /\ \A p \in DOMAIN t : t[p] \in Nodes
    /\ \A p \in DOMAIN t : p # <<>> => Front(p) \in DOMAIN t /\ t[Front(p)].kind = "dir"

\* No mode but those of b that is not safe.
SafeModes(t, b) ==
    \A p \in DOMAIN t :
        \/ p \in DOMAIN b /\ t[p].mode = b[p].mode
        \/ /\ t[p].mode \cap {"special", "other_write"} = {}
           /\ t[p].kind = "file" /\ ~PreserveExec => "x" \notin t[p].mode

LEMMA NewNodes ==
    /\ \A mode \in SUBSET ModeBits : Dir(mode) \in Nodes
    /\ \A mode \in SUBSET ModeBits, c \in Contents \cup {NoContent} : File(c, mode) \in Nodes
    /\ NewDirMode \in SUBSET ModeBits /\ NewFileMode \in SUBSET ModeBits
  BY DEF Dir, File, Nodes, NewDirMode, NewFileMode, ModeBits

\* The directory that a new directory is made in.
LEMMA ParentIsDir ==
    ASSUME NEW t, NEW p \in Seq(Names), CanMakeDirs(t, p),
           NEW q \in UpTo(p), q \notin DOMAIN t, q # <<>>
    PROVE  /\ Front(q) \in UpTo(p)
           /\ Front(q) \in DOMAIN t => t[Front(q)].kind = "dir"
<1>1. /\ Len(q) \in 0..Len(p) /\ Len(q) > 0
      /\ q = SubSeq(p, 1, Len(q)) /\ Front(q) = SubSeq(p, 1, Len(q) - 1)
  BY OnTheWay
<1>2. Len(p) \in Nat /\ Len(q) - 1 \in 0..Len(p) /\ Len(q) - 1 < Len(p)
  BY <1>1
<1>3. Front(q) \in UpTo(p) /\ Front(q) \in Above(p)
  BY <1>1, <1>2, AboveIsPrefix
<1>4. CASE Reachable(t, p)
  BY <1>3, <1>4 DEF Reachable, Searchable
<1>5. ASSUME NEW d \in Above(p), Writable(t, d), Front(q) \in DOMAIN t,
             \A m \in (Len(d) + 1)..Len(p) : SubSeq(p, 1, m) \notin DOMAIN t
      PROVE  t[Front(q)].kind = "dir"
  <2>1. d \in UpTo(p)
    BY DEF UpTo
  <2>2. Len(d) \in 0..Len(p) /\ d = SubSeq(p, 1, Len(d))
    BY <2>1, OnTheWay
  <2>3. ~(Len(q) - 1 \in (Len(d) + 1)..Len(p))
    BY <1>1, <1>5
  <2>4. Len(q) - 1 <= Len(d)
    BY <1>1, <1>2, <2>2, <2>3
  <2>5. CASE Len(q) - 1 = Len(d)
    BY <1>1, <1>5, <2>2, <2>5 DEF Writable
  <2>6. CASE Len(q) - 1 < Len(d)
    <3>1. Len(q) - 1 \in 0..(Len(d) - 1) /\ Len(q) - 1 \in 0..Len(d)
      BY <1>1, <2>2, <2>6
    <3>2. SubSeq(d, 1, Len(q) - 1) = Front(q)
      BY <1>1, <2>2, <3>1, PrefixOfPrefix
    <3>3. Front(q) \in Above(d)
      BY <3>1, <3>2 DEF Above
    <3> QED BY <1>5, <3>3 DEF Writable, Reachable, Searchable
  <2>7. Len(q) - 1 = Len(d) \/ Len(q) - 1 < Len(d)
    <3>1. Len(q) \in Int /\ Len(d) \in Int
      BY <1>1, <1>2, <2>2
    <3> QED BY <2>4, <3>1
  <2> QED BY <2>5, <2>6, <2>7
<1> QED BY <1>3, <1>4, <1>5 DEF CanMakeDirs

\* create_dir_all keeps what there is, and makes directories on the way to p.
LEMMA MakeDirsKeeps ==
    ASSUME NEW t, NEW p
    PROVE  LET made == MakeDirs(t, p) IN
           /\ DOMAIN made = DOMAIN t \cup UpTo(p)
           /\ \A q \in DOMAIN t : made[q] = t[q]
           /\ \A q \in UpTo(p) : q \notin DOMAIN t => made[q] = Dir(NewDirMode)
  BY DEF MakeDirs

LEMMA MakeDirsGood ==
    ASSUME NEW t, GoodTree(t), NEW p \in Seq(Names), CanMakeDirs(t, p)
    PROVE  /\ GoodTree(MakeDirs(t, p))
           /\ p \in DOMAIN MakeDirs(t, p)
           /\ MakeDirs(t, p)[p].kind = "dir"
<1> DEFINE made == MakeDirs(t, p)
<1>1. /\ DOMAIN made = DOMAIN t \cup UpTo(p)
      /\ \A q \in DOMAIN t : made[q] = t[q]
      /\ \A q \in UpTo(p) : q \notin DOMAIN t => made[q] = Dir(NewDirMode)
  BY MakeDirsKeeps
<1> HIDE DEF made
<1>2. Dir(NewDirMode) \in Nodes /\ Dir(NewDirMode).kind = "dir"
  BY NewNodes DEF Dir
<1>3. DOMAIN made \subseteq Seq(Names)
  BY <1>1, OnTheWay DEF GoodTree
<1>4. \A q \in DOMAIN made : made[q] \in Nodes
  BY <1>1, <1>2 DEF GoodTree
<1>5. ASSUME NEW q \in DOMAIN made, q # <<>>
      PROVE  Front(q) \in DOMAIN made /\ made[Front(q)].kind = "dir"
  <2>1. CASE q \in DOMAIN t
    BY <1>1, <1>5, <2>1 DEF GoodTree
  <2>2. CASE q \notin DOMAIN t
    <3>1. q \in UpTo(p)
      BY <1>1, <2>2
    <3>2. Front(q) \in UpTo(p) /\ (Front(q) \in DOMAIN t => t[Front(q)].kind = "dir")
      BY <1>5, <2>2, <3>1, ParentIsDir
    <3> QED BY <1>1, <1>2, <3>2
  <2> QED BY <2>1, <2>2
<1>6. p \in UpTo(p)
  BY DEF UpTo
<1>7. made[p].kind = "dir"
  <2>1. CASE p \notin DOMAIN t
    BY <1>1, <1>2, <1>6, <2>1
  <2>2. CASE p \in DOMAIN t
    <3>1. \E m \in Nat : m = Len(p) /\ SubSeq(p, 1, m) = p
      BY SubSeqFull
    <3>2. Reachable(t, p) /\ t[p].kind = "dir"
      <4>1. ASSUME NEW d \in Above(p),
                   \A m \in (Len(d) + 1)..Len(p) : SubSeq(p, 1, m) \notin DOMAIN t
            PROVE  FALSE
        <5>1. PICK n \in 0..(Len(p) - 1) : d = SubSeq(p, 1, n)
          BY DEF Above
        <5>2. n \in 0..Len(p) /\ Len(d) = n
          BY <3>1, <5>1, Prefix
        <5>3. Len(p) \in (Len(d) + 1)..Len(p)
          BY <3>1, <5>1, <5>2
        <5> QED BY <2>2, <3>1, <4>1, <5>3
      <4> QED BY <4>1 DEF CanMakeDirs
    <3> QED BY <1>1, <2>2, <3>2
  <2> QED BY <2>1, <2>2
<1> QED BY <1>1, <1>3, <1>4, <1>5, <1>6, <1>7 DEF GoodTree, made

LEMMA MakeDirsSafe ==
    ASSUME NEW t, NEW b, SafeModes(t, b), NEW p
    PROVE  SafeModes(MakeDirs(t, p), b)
<1>1. /\ NewDirMode \cap {"special", "other_write"} = {}
      /\ Dir(NewDirMode).mode = NewDirMode /\ Dir(NewDirMode).kind # "file"
  BY DEF NewDirMode, Dir
<1> DEFINE made == MakeDirs(t, p)
<1>2. /\ DOMAIN made = DOMAIN t \cup UpTo(p)
      /\ \A q \in DOMAIN t : made[q] = t[q]
      /\ \A q \in UpTo(p) : q \notin DOMAIN t => made[q] = Dir(NewDirMode)
  BY MakeDirsKeeps
<1> HIDE DEF made
<1>3. SafeModes(made, b)
  BY <1>1, <1>2 DEF SafeModes
<1> QED BY <1>3 DEF made

\* fs::write keeps what there is, but for the content of p.
LEMMA WriteFileGood ==
    ASSUME NEW t, GoodTree(t), NEW p \in Seq(Names), CanWriteFile(t, p),
           NEW c \in Contents \cup {NoContent}
    PROVE  GoodTree(WriteFile(t, p, c))
<1> DEFINE made == WriteFile(t, p, c)
<1>1. /\ DOMAIN made = DOMAIN t \cup {p}
      /\ \A q \in DOMAIN t \ {p} : made[q] = t[q]
      /\ p \in DOMAIN t => made[p] = File(c, t[p].mode)
      /\ p \notin DOMAIN t => made[p] = File(c, NewFileMode)
  BY DEF WriteFile
<1>2. p \in DOMAIN t => t[p].mode \in SUBSET ModeBits
  BY DEF GoodTree, Nodes
<1> HIDE DEF made
<1>3. made[p] \in Nodes
  BY <1>1, <1>2, NewNodes
<1>4. ASSUME NEW q \in DOMAIN made, q # <<>>
      PROVE  Front(q) \in DOMAIN t /\ t[Front(q)].kind = "dir"
  <2>1. CASE q \in DOMAIN t
    BY <1>4, <2>1 DEF GoodTree
  <2>2. CASE q = p /\ p \notin DOMAIN t
    BY <2>2 DEF CanWriteFile, Writable, Reachable
  <2> QED BY <1>1, <2>1, <2>2
<1>5. \A q \in DOMAIN t : t[q].kind = "dir" => q # p
  BY DEF CanWriteFile
<1> QED BY <1>1, <1>3, <1>4, <1>5 DEF GoodTree, made

LEMMA WriteFileSafe ==
    ASSUME NEW t, NEW b, SafeModes(t, b), NEW p, NEW c, CanWriteFile(t, p)
    PROVE  SafeModes(WriteFile(t, p, c), b)
<1> DEFINE made == WriteFile(t, p, c)
<1>1. /\ DOMAIN made = DOMAIN t \cup {p}
      /\ \A q \in DOMAIN t \ {p} : made[q] = t[q]
      /\ p \in DOMAIN t => made[p] = File(c, t[p].mode)
      /\ p \notin DOMAIN t => made[p] = File(c, NewFileMode)
  BY DEF WriteFile
<1> HIDE DEF made
<1>2. \A mode : File(c, mode).mode = mode /\ File(c, mode).kind = "file"
  BY DEF File
<1>3. CASE p \in DOMAIN t
  <2>1. t[p].kind = "file"
    BY <1>3 DEF CanWriteFile
  <2> QED BY <1>1, <1>2, <1>3, <2>1 DEF SafeModes, made
<1>4. CASE p \notin DOMAIN t
  <2>1. NewFileMode \cap {"special", "other_write"} = {} /\ "x" \notin NewFileMode
    BY DEF NewFileMode
  <2> QED BY <1>1, <1>2, <1>4, <2>1 DEF SafeModes, made
<1> QED BY <1>3, <1>4

\* set_permissions.
LEMMA SetModeKeeps ==
    ASSUME NEW t, GoodTree(t), NEW p \in DOMAIN t, NEW mode \in SUBSET ModeBits
    PROVE  LET made == SetMode(t, p, mode) IN
           /\ DOMAIN made = DOMAIN t
           /\ \A q \in DOMAIN t \ {p} : made[q] = t[q]
           /\ made[p].kind = t[p].kind /\ made[p].mode = mode /\ made[p] \in Nodes
<1>1. t[p] \in Nodes
  BY DEF GoodTree
<1>2. [t[p] EXCEPT !.mode = mode] \in Nodes
  BY <1>1 DEF Nodes
<1>3. /\ [t[p] EXCEPT !.mode = mode].kind = t[p].kind
      /\ [t[p] EXCEPT !.mode = mode].mode = mode
  BY <1>1 DEF Nodes
<1> QED BY <1>2, <1>3 DEF SetMode

LEMMA SetModeGood ==
    ASSUME NEW t, GoodTree(t), NEW b, SafeModes(t, b), NEW p \in DOMAIN t,
           NEW perms \in SUBSET ModeBits, NEW isDir \in BOOLEAN,
           isDir => t[p].kind = "dir"
    PROVE  LET made == SetMode(t, p, SanitizeMode(perms, isDir)) IN
           GoodTree(made) /\ SafeModes(made, b) /\ DOMAIN made = DOMAIN t
<1> DEFINE mode == SanitizeMode(perms, isDir)
           made == SetMode(t, p, mode)
<1>1. /\ mode \in SUBSET ModeBits /\ mode \cap {"special", "other_write"} = {}
      /\ ~isDir /\ ~PreserveExec => "x" \notin mode
  BY DEF SanitizeMode
<1> HIDE DEF mode
<1>2. /\ DOMAIN made = DOMAIN t
      /\ \A q \in DOMAIN t \ {p} : made[q] = t[q]
      /\ made[p].kind = t[p].kind /\ made[p].mode = mode /\ made[p] \in Nodes
  BY <1>1, SetModeKeeps
<1> HIDE DEF made
<1>3. GoodTree(made)
  <2>1. \A q \in DOMAIN t : made[q].kind = t[q].kind /\ made[q] \in Nodes
    BY <1>2 DEF GoodTree
  <2> QED BY <1>2, <2>1 DEF GoodTree
<1>4. SafeModes(made, b)
  <2>1. t[p].kind = "dir" => t[p].kind # "file"
    OBVIOUS
  <2> QED BY <1>1, <1>2, <2>1 DEF SafeModes
<1> QED BY <1>2, <1>3, <1>4 DEF made, mode

-----------------------------------------------------------------------------
(* The inductive invariant.                                                *)

Working == {"dir", "parent", "content", "unpack", "file"}

\* Nothing outside, no mode that is not safe.
TreeInv ==
    /\ GoodTree(tree)
    /\ DOMAIN before \subseteq DOMAIN tree
    /\ SafeModes(tree, before)

\* What the reader finds in any input: what type 0 announces has a content.
SoundArchive(a) ==
    /\ a.count \in Nat \cup {NoCount}
    /\ a.entries \in Seq(EntryRecords)
    /\ \A k \in DOMAIN a.entries :
          a.entries[k].type = 0 => a.entries[k].content \in Contents

\* Whenever something is made of an entry, its head has been accepted.
PlaceInv ==
    /\ SoundArchive(archive)
    /\ pc \in {"head"} \cup Working => archive.count # NoCount
    /\ pc \in Working =>
          /\ Here /\ index < archive.count
          /\ HeadError(Current) = "none"
          /\ pc = "dir" <=> Current.type = 1

EInv ==
    /\ ExtractTypeOK /\ PlaceInv /\ TreeInv
    /\ total <= MaxTotal
    /\ MemoryFollowsInput

LEMMA ArchiveShape ==
    ASSUME PlaceInv
    PROVE  archive.count \in Nat \cup {NoCount} /\ archive.entries \in Seq(EntryRecords)
  BY DEF PlaceInv, SoundArchive

\* The entry that something is made of.
LEMMA CurrentIsSafe ==
    ASSUME EInv, pc \in Working
    PROVE  /\ Current \in EntryRecords
           /\ Current.path \in Seq(Names) /\ Current.path # <<>>
           /\ Front(Current.path) \in Seq(Names)
           /\ Current.type = 0 => Current.content \in Contents
<1>1. /\ index \in Nat /\ index < Len(archive.entries)
      /\ HeadError(Current) = "none"
  BY DEF EInv, PlaceInv, ExtractTypeOK, Here
<1>2. archive.entries \in Seq(EntryRecords)
  BY ArchiveShape DEF EInv
<1>3. index + 1 \in 1..Len(archive.entries)
  BY <1>1, <1>2
<1>4. Current \in EntryRecords
  BY <1>2, <1>3 DEF Current
<1>5. Current.type = 0 => Current.content \in Contents
  BY <1>2, <1>3 DEF EInv, PlaceInv, SoundArchive, Current
<1>6. SafePath(Current.path)
  BY <1>1 DEF HeadError
<1>7. Current.path \in Seq(Components) /\ Current.path # <<>>
  BY <1>4, <1>6 DEF EntryRecords, SafePath
<1> DEFINE path == Current.path
<1>8. Len(path) \in Nat /\ \A k \in 1..Len(path) : path[k] \in Names
  BY <1>6, <1>7 DEF SafePath
<1> HIDE DEF path
<1>9. path \in Seq(Names)
  BY <1>7, <1>8 DEF path
<1>10. Len(path) \in Nat \ {0}
  BY <1>7, <1>9, EmptySeq DEF path
<1>11. Front(path) \in Seq(Names)
  <2>1. Len(path) - 1 \in 0..Len(path)
    BY <1>10
  <2> QED BY <1>9, <2>1, Prefix DEF Front
<1> QED BY <1>4, <1>5, <1>7, <1>9, <1>11 DEF path

\* A call with an archive and a destination.
ExtractBegins ==
    /\ SoundArchive(archive) /\ GoodTree(before)
    /\ tree = before
    /\ index = 0 /\ total = 0 /\ held = 0 /\ reserved = 0
    /\ pc = "count" /\ result = "none"

LEMMA InitBegins == ExtractInit => ExtractBegins
<1> SUFFICES ASSUME ExtractInit PROVE ExtractBegins
  OBVIOUS
<1>1. archive \in Archives /\ before \in Trees
  BY DEF ExtractInit
<1>2. SoundArchive(archive)
  BY <1>1, ArchiveAssumption DEF SoundArchive
<1>3. GoodTree(before)
  BY <1>1, TreeAssumption DEF GoodTree
<1> QED BY <1>2, <1>3 DEF ExtractInit, ExtractBegins

LEMMA BeginsEInv == ExtractBegins => EInv
<1> SUFFICES ASSUME ExtractBegins PROVE EInv
  OBVIOUS
<1>1. PlaceInv
  BY DEF ExtractBegins, PlaceInv, Working
<1>2. TreeInv
  BY DEF ExtractBegins, TreeInv, SafeModes
<1>3. Len(archive.entries) \in Nat /\ archive.count \in Nat \cup {NoCount}
  BY <1>1, ArchiveShape
<1>4. ExtractTypeOK
  BY <1>3 DEF ExtractBegins, ExtractTypeOK, GoodTree
<1>5. total <= MaxTotal /\ MemoryFollowsInput
  BY LimitAssumption DEF ExtractBegins, MemoryFollowsInput
<1> QED BY <1>1, <1>2, <1>4, <1>5 DEF EInv

-----------------------------------------------------------------------------
(* Every step keeps it.                                                    *)

\* What create_dir_all makes of the tree.
LEMMA DirsMade ==
    ASSUME TreeInv, NEW p \in Seq(Names), CanMakeDirs(tree, p)
    PROVE  LET made == MakeDirs(tree, p) IN
           /\ GoodTree(made) /\ SafeModes(made, before)
           /\ DOMAIN before \subseteq DOMAIN made
           /\ p \in DOMAIN made /\ made[p].kind = "dir"
<1>1. GoodTree(tree) /\ SafeModes(tree, before) /\ DOMAIN before \subseteq DOMAIN tree
  BY DEF TreeInv
<1>2. DOMAIN tree \subseteq DOMAIN MakeDirs(tree, p)
  BY MakeDirsKeeps
<1> QED BY <1>1, <1>2, MakeDirsGood, MakeDirsSafe

\* What fs::write makes of it.
LEMMA FileMade ==
    ASSUME TreeInv, NEW p \in Seq(Names), CanWriteFile(tree, p),
           NEW c \in Contents \cup {NoContent}
    PROVE  LET made == WriteFile(tree, p, c) IN
           /\ GoodTree(made) /\ SafeModes(made, before)
           /\ DOMAIN before \subseteq DOMAIN made
           /\ p \in DOMAIN made
<1>1. GoodTree(tree) /\ SafeModes(tree, before) /\ DOMAIN before \subseteq DOMAIN tree
  BY DEF TreeInv
<1>2. DOMAIN WriteFile(tree, p, c) = DOMAIN tree \cup {p}
  BY DEF WriteFile
<1> QED BY <1>1, <1>2, WriteFileGood, WriteFileSafe

LEMMA TreeKept ==
    ASSUME EInv, [ExtractNext]_extractVars
    PROVE  TreeInv'
<1>0. TreeInv /\ before' = before
  BY DEF EInv, ExtractNext, ExtractProceeds, CountRead, CountRefused, HeadRefused, HeadAccepted,
         LoopEnds, MakeDir, MakeParent, ReadBlock, BlockMissing, ContentRead, Unpack,
         UnpackFails, MakeFile, MakeRefused, IoFails, Going, Ending, NextEntry, extractVars
<1>1. CASE UNCHANGED tree
  BY <1>0, <1>1 DEF TreeInv
<1>2. CASE MakeDir
  <2> DEFINE path == Current.path
             made == MakeDirs(tree, path)
  <2>1. path \in Seq(Names) /\ Current.perms \in SUBSET ModeBits
    BY <1>2, CurrentIsSafe DEF MakeDir, Working, EntryRecords
  <2>2. CanMakeDirs(tree, path)
    BY <1>2 DEF MakeDir
  <2> HIDE DEF path
  <2>3. /\ GoodTree(made) /\ SafeModes(made, before)
        /\ DOMAIN before \subseteq DOMAIN made
        /\ path \in DOMAIN made /\ made[path].kind = "dir"
    BY <1>0, <2>1, <2>2, DirsMade
  <2> HIDE DEF made
  <2>4. CASE tree' = made
    BY <1>0, <2>3, <2>4 DEF TreeInv
  <2>5. CASE tree' = SetMode(made, path, SanitizeMode(Current.perms, TRUE))
    <3>1. /\ GoodTree(tree') /\ SafeModes(tree', before) /\ DOMAIN tree' = DOMAIN made
      BY <2>1, <2>3, <2>5, SetModeGood
    <3> QED BY <1>0, <2>3, <3>1 DEF TreeInv
  <2> QED BY <1>2, <2>4, <2>5 DEF MakeDir, made, path
<1>3. CASE MakeParent
  <2>1. Front(Current.path) \in Seq(Names) /\ CanMakeDirs(tree, Front(Current.path))
    BY <1>3, CurrentIsSafe DEF MakeParent, Working
  <2>2. tree' = MakeDirs(tree, Front(Current.path))
    BY <1>3 DEF MakeParent
  <2>3. GoodTree(tree') /\ SafeModes(tree', before) /\ DOMAIN before \subseteq DOMAIN tree'
    BY <1>0, <2>1, <2>2, DirsMade
  <2> QED BY <1>0, <2>3 DEF TreeInv
<1>4. CASE MakeFile
  <2> DEFINE path == Current.path
             made == WriteFile(tree, path, Current.content)
  <2>1. /\ path \in Seq(Names) /\ Current.perms \in SUBSET ModeBits
        /\ Current.content \in Contents \cup {NoContent}
    BY <1>4, CurrentIsSafe DEF MakeFile, Working, EntryRecords
  <2>2. CanWriteFile(tree, path)
    BY <1>4 DEF MakeFile
  <2> HIDE DEF path
  <2>3. /\ GoodTree(made) /\ SafeModes(made, before)
        /\ DOMAIN before \subseteq DOMAIN made /\ path \in DOMAIN made
    BY <1>0, <2>1, <2>2, FileMade
  <2> HIDE DEF made
  <2>4. CASE tree' = made
    BY <1>0, <2>3, <2>4 DEF TreeInv
  <2>5. CASE tree' = SetMode(made, path, SanitizeMode(Current.perms, FALSE))
    <3>1. /\ GoodTree(tree') /\ SafeModes(tree', before) /\ DOMAIN tree' = DOMAIN made
      BY <2>1, <2>3, <2>5, SetModeGood
    <3> QED BY <1>0, <2>3, <3>1 DEF TreeInv
  <2> QED BY <1>4, <2>4, <2>5 DEF MakeFile, made, path
<1>5. ASSUME pc \in {"dir", "parent"}, NEW q \in Above(Current.path),
             CanMakeDirs(tree, q), tree' = MakeDirs(tree, q)
      PROVE  TreeInv'
  <2>1. q \in UpTo(Current.path) /\ Current.path \in Seq(Names)
    BY <1>5, CurrentIsSafe DEF UpTo, Working
  <2>2. q \in Seq(Names)
    BY <2>1, OnTheWay
  <2>3. GoodTree(tree') /\ SafeModes(tree', before) /\ DOMAIN before \subseteq DOMAIN tree'
    BY <1>0, <1>5, <2>2, DirsMade
  <2> QED BY <1>0, <2>3 DEF TreeInv
<1>6. ASSUME pc = "file", CanWriteFile(tree, Current.path),
             tree' = WriteFile(tree, Current.path, NoContent)
      PROVE  TreeInv'
  <2>1. Current.path \in Seq(Names)
    BY <1>6, CurrentIsSafe DEF Working
  <2>2. GoodTree(tree') /\ SafeModes(tree', before) /\ DOMAIN before \subseteq DOMAIN tree'
    BY <1>0, <1>6, <2>1, FileMade
  <2> QED BY <1>0, <2>2 DEF TreeInv
<1>7. CASE IoFails
  BY <1>1, <1>5, <1>6, <1>7 DEF IoFails
<1> QED BY <1>1, <1>2, <1>3, <1>4, <1>7
        DEF ExtractNext, ExtractProceeds, CountRead, CountRefused, HeadRefused, HeadAccepted,
            LoopEnds, ReadBlock, BlockMissing, ContentRead, Unpack, UnpackFails, MakeRefused,
            Going, Ending, extractVars

LEMMA PlaceKept ==
    ASSUME EInv, [ExtractNext]_extractVars
    PROVE  PlaceInv'
<1> USE DEF EInv, PlaceInv, ExtractTypeOK, Working, Here, Current
<1>1. /\ archive.count \in Nat \cup {NoCount} /\ NoCount \notin Nat
      /\ index \in Nat
  BY ArchiveShape, LimitAssumption
<1>2. CASE UNCHANGED <<archive, before>> /\ pc' = "done"
  BY <1>2
<1>3. CASE CountRead \/ MakeDir \/ MakeFile
  BY <1>3 DEF CountRead, MakeDir, MakeFile, NextEntry, Going
<1>4. CASE HeadAccepted
  <2>1. /\ UNCHANGED <<archive, before, index>> /\ Here /\ index < archive.count
        /\ HeadError(Current) = "none" /\ archive.count # NoCount
        /\ pc' = IF Current.type = 1 THEN "dir" ELSE "parent"
    BY <1>4 DEF HeadAccepted, InLoop, Going
  <2>2. HeadError(Current)' = HeadError(Current)
    BY <2>1 DEF HeadError, SafePath
  <2> QED BY <2>1, <2>2
<1>5. CASE MakeParent \/ ReadBlock \/ ContentRead \/ Unpack
  <2>1. UNCHANGED <<archive, before, index>> /\ pc \in Working \ {"dir"} /\ pc' \in Working \ {"dir"}
    BY <1>5 DEF MakeParent, ReadBlock, ContentRead, Unpack, Going
  <2>2. HeadError(Current)' = HeadError(Current)
    BY <2>1 DEF HeadError, SafePath
  <2> QED BY <2>1, <2>2
<1>6. CASE UNCHANGED extractVars
  BY <1>6 DEF extractVars, HeadError, SafePath
<1>7. CASE CountRefused \/ HeadRefused \/ LoopEnds \/ BlockMissing \/ UnpackFails \/ MakeRefused
           \/ IoFails
  BY <1>2, <1>7 DEF CountRefused, HeadRefused, LoopEnds, BlockMissing, UnpackFails, MakeRefused,
                    IoFails, Ending
<1> QED BY <1>3, <1>4, <1>5, <1>6, <1>7 DEF ExtractNext, ExtractProceeds

\* The steps that leave entry and counters alone.
Quiet == CountRefused \/ HeadRefused \/ LoopEnds \/ BlockMissing \/ UnpackFails \/ MakeRefused
             \/ IoFails \/ CountRead \/ HeadAccepted \/ ContentRead \/ UNCHANGED extractVars

LEMMA QuietSteps ==
    ASSUME EInv, Quiet
    PROVE  /\ UNCHANGED <<archive, index, total, held, reserved>>
           /\ pc' \in {"count", "head", "dir", "parent", "content", "unpack", "file", "done"}
           /\ result' \in {"none", "Ok", "Malformed", "UnsafePath", "LimitExceeded", "Io"}
           /\ result' = "none" <=> pc' # "done"
<1> USE DEF EInv, ExtractTypeOK
<1>1. CASE HeadRefused
  <2>1. HeadError(Current) \in {"none", "Malformed", "UnsafePath", "LimitExceeded"}
    BY DEF HeadError
  <2> QED BY <1>1, <2>1 DEF HeadRefused, Ending
<1>2. CASE CountRefused \/ LoopEnds \/ BlockMissing \/ UnpackFails \/ MakeRefused
  BY <1>2 DEF CountRefused, LoopEnds, BlockMissing, UnpackFails, MakeRefused, Ending
<1>3. CASE IoFails
  BY <1>3 DEF IoFails
<1>4. CASE CountRead \/ HeadAccepted \/ ContentRead
  BY <1>4 DEF CountRead, HeadAccepted, InLoop, ContentRead, Going
<1>5. CASE UNCHANGED extractVars
  BY <1>5 DEF extractVars
<1> QED BY <1>1, <1>2, <1>3, <1>4, <1>5 DEF Quiet

LEMMA CountersKept ==
    ASSUME EInv, [ExtractNext]_extractVars, TreeInv'
    PROVE  ExtractTypeOK' /\ (total <= MaxTotal)' /\ MemoryFollowsInput'
<1>1. \A p \in DOMAIN tree' : tree'[p] \in Nodes
  BY DEF TreeInv, GoodTree
<1>2. /\ total \in Nat /\ held \in Nat /\ reserved \in Nat
      /\ index \in Nat /\ index <= Len(archive.entries)
      /\ archive.count # NoCount => index \in 0..archive.count
      /\ total <= MaxTotal /\ MaxTotal \in Nat
      /\ Len(archive.entries) \in Nat
      /\ archive.count \in Nat \cup {NoCount}
  BY LimitAssumption, ArchiveShape DEF EInv, ExtractTypeOK
<1>3. pc \in Working => /\ Current \in EntryRecords /\ index < Len(archive.entries)
                        /\ archive.count # NoCount /\ index < archive.count
  BY CurrentIsSafe DEF EInv, PlaceInv, Here
<1>4. CASE Quiet
  <2>1. UNCHANGED Current
    BY <1>4, QuietSteps DEF Current
  <2>2. MemoryFollowsInput'
    BY <1>4, <2>1, QuietSteps DEF EInv, MemoryFollowsInput
  <2> QED BY <1>1, <1>2, <1>4, <2>2, QuietSteps DEF ExtractTypeOK, EInv
<1>5. CASE MakeDir \/ MakeFile
  <2>1. /\ UNCHANGED <<archive, total, result>> /\ index' = index + 1
        /\ held' = 0 /\ reserved' = 0 /\ pc' = "head" /\ pc \in Working
    BY <1>5 DEF MakeDir, MakeFile, NextEntry, Working
  <2>2. MemoryFollowsInput'
    BY <2>1 DEF MemoryFollowsInput
  <2>3. result' = "none"
    BY <2>1 DEF EInv, ExtractTypeOK, Working
  <2>4. index' \in 0..Len(archive.entries) /\ index' \in 0..archive.count
    BY <1>2, <1>3, <2>1
  <2> QED BY <1>1, <1>2, <2>1, <2>2, <2>3, <2>4 DEF ExtractTypeOK
<1>6. CASE MakeParent
  <2>1. /\ UNCHANGED <<archive, total, result, index>>
        /\ held' = 0 /\ reserved' \in {0, 1} /\ pc' = "content" /\ pc \in Working
    BY <1>6 DEF MakeParent, Going, Working
  <2>2. MemoryFollowsInput'
    BY <2>1 DEF MemoryFollowsInput
  <2>3. result' = "none"
    BY <2>1 DEF EInv, ExtractTypeOK, Working
  <2> QED BY <1>1, <1>2, <2>1, <2>2, <2>3 DEF ExtractTypeOK
<1>7. CASE ReadBlock
  <2>1. /\ UNCHANGED <<archive, total, result, index, pc>> /\ pc \in Working
        /\ held' = held + 1 /\ held < Current.blocks
        /\ reserved' = IF held = reserved THEN 2 * reserved ELSE reserved
    BY <1>7 DEF ReadBlock, Going, Working
  <2>2. Current' = Current /\ Current.blocks \in Nat
    BY <1>3, <2>1 DEF Current, EntryRecords
  <2>3. MemoryFollowsInput'
    BY <1>2, <2>1, <2>2 DEF EInv, MemoryFollowsInput
  <2>4. held' \in Nat /\ reserved' \in Nat
    BY <1>2, <2>1
  <2> QED BY <1>1, <1>2, <2>1, <2>3, <2>4 DEF ExtractTypeOK, EInv
<1>8. CASE Unpack
  <2>1. /\ UNCHANGED <<archive, held, reserved, result, index>>
        /\ total' = total + RawLen[Current.content]
        /\ RawLen[Current.content] <= Remaining
        /\ pc' = "file" /\ pc = "unpack"
    BY <1>8 DEF Unpack, Fits
  <2>2. RawLen[Current.content] \in Nat
    <3>1. Current.type \in {0, 1} /\ Current.type # 1
      BY <2>1 DEF EInv, PlaceInv, Working, HeadError
    <3>2. Current.content \in Contents
      BY <2>1, <3>1, CurrentIsSafe DEF Working
    <3> QED BY <3>2, ContentAssumption
  <2>3. total' \in Nat /\ total' <= MaxTotal
    BY <1>2, <2>1, <2>2 DEF Remaining
  <2>4. UNCHANGED Current
    BY <2>1 DEF Current
  <2>5. MemoryFollowsInput'
    BY <2>1, <2>4 DEF EInv, MemoryFollowsInput
  <2>6. result' = "none"
    BY <2>1 DEF EInv, ExtractTypeOK
  <2> QED BY <1>1, <1>2, <2>1, <2>3, <2>5, <2>6 DEF ExtractTypeOK
<1> QED BY <1>4, <1>5, <1>6, <1>7, <1>8 DEF ExtractNext, ExtractProceeds, Quiet

-----------------------------------------------------------------------------
(* Induction over numbers, and sums.                                       *)

\* A set of numbers has a least element, so what holds of 0 and of the successor of
\* every number of which it holds, holds of all.
LEMMA LeastElement ==
    ASSUME NEW T, T \subseteq Nat, T # {}
    PROVE  \E n \in T : \A m \in T : n <= m
<1> DEFINE R == {xy \in Nat \X Nat : xy[1] < xy[2]}
<1>1. IsWellFoundedOn(R, Nat)
  BY NatLessThanWellFounded, Zenon DEF OpToRel
<1>2. \A x, y \in Nat : y < x => <<y, x>> \in R
  OBVIOUS
<1> HIDE DEF R
<1>3. PICK x \in T : \A y \in T : ~(<<y, x>> \in R)
  BY <1>1, WFMin
<1>4. \A y \in T : ~(y < x)
  BY <1>2, <1>3
<1> QED BY <1>3, <1>4

LEMMA NatInductionOnSet ==
    ASSUME NEW T, 0 \in T, \A n \in Nat : n \in T => n + 1 \in T
    PROVE  Nat \subseteq T
<1> SUFFICES ASSUME Nat \ T # {} PROVE FALSE
  OBVIOUS
<1>1. PICK n \in Nat \ T : \A m \in Nat \ T : n <= m
  BY LeastElement
<1>2. n # 0 /\ n - 1 \in Nat /\ ~(n <= n - 1)
  BY <1>1
<1>3. n - 1 \in T
  BY <1>1, <1>2
<1>4. (n - 1) + 1 \in T
  BY <1>2, <1>3
<1> QED BY <1>1, <1>4

\* The sums a list of numbers runs through.
LEMMA RunningSum ==
    ASSUME NEW N \in Nat, NEW c \in [1..N -> Nat]
    PROVE  \E s \in [0..N -> Nat] : s = [k \in 0..N |-> IF k = 0 THEN 0 ELSE s[k - 1] + c[k]]
<1> DEFINE Sum(s, n) == s \in [0..n -> Nat] /\ s[0] = 0 /\ \A k \in 1..n : s[k] = s[k - 1] + c[k]
           HasSum(n) == \E s : Sum(s, n)
           T == {n \in Nat : n <= N => HasSum(n)}
<1>1. 0 \in T
  <2>1. Sum([k \in 0..0 |-> 0], 0)
    OBVIOUS
  <2> QED BY <2>1
<1>2. ASSUME NEW n \in Nat, n \in T PROVE n + 1 \in T
  <2> SUFFICES ASSUME n + 1 <= N, HasSum(n) PROVE HasSum(n + 1)
    <3> HIDE DEF HasSum
    <3> QED BY <1>2
  <2>1. PICK s : Sum(s, n)
    OBVIOUS
  <2> DEFINE u == [k \in 0..(n + 1) |-> IF k = n + 1 THEN s[n] + c[n + 1] ELSE s[k]]
  <2>2. s[n] + c[n + 1] \in Nat
    BY <2>1
  <2>3. u \in [0..(n + 1) -> Nat]
    <3>1. \A k \in 0..(n + 1) : k # n + 1 => k \in 0..n
      OBVIOUS
    <3> QED BY <2>1, <2>2, <3>1
  <2>4. u[0] = 0
    BY <2>1
  <2>5. ASSUME NEW k \in 1..(n + 1) PROVE u[k] = u[k - 1] + c[k]
    <3>1. CASE k = n + 1
      BY <3>1
    <3>2. CASE k # n + 1
      <4>1. k \in 1..n /\ k - 1 \in 0..n /\ k - 1 # n + 1
        BY <3>2
      <4> QED BY <2>1, <3>2, <4>1
    <3> QED BY <3>1, <3>2
  <2> HIDE DEF u
  <2> QED BY <2>3, <2>4, <2>5
<1> HIDE DEF T
<1>3. N \in T
  BY <1>1, <1>2, NatInductionOnSet
<1>4. HasSum(N)
  <2> HIDE DEF HasSum
  <2> QED BY <1>3 DEF T
<1>6. PICK s : Sum(s, N)
  BY <1>4
<1>5. s \in [0..N -> Nat] /\ s = [k \in 0..N |-> IF k = 0 THEN 0 ELSE s[k - 1] + c[k]]
  <2>1. \A k \in 0..N : k = 0 \/ k \in 1..N
    OBVIOUS
  <2> QED BY <1>6, <2>1
<1> QED BY <1>5

LEMMA RunningSumValues ==
    ASSUME NEW N \in Nat, NEW c \in [1..N -> Nat], NEW s,
           s[0] = 0, \A k \in 1..N : s[k] = s[k - 1] + c[k]
    PROVE  \A k \in 0..N : s[k] \in Nat
<1> DEFINE T == {k \in Nat : k <= N => s[k] \in Nat}
<1>1. 0 \in T
  OBVIOUS
<1>2. ASSUME NEW n \in Nat, n \in T PROVE n + 1 \in T
  <2> SUFFICES ASSUME n + 1 <= N PROVE s[n + 1] \in Nat
    OBVIOUS
  <2>1. s[n] \in Nat /\ n + 1 \in 1..N /\ (n + 1) - 1 = n
    BY <1>2
  <2>2. s[n + 1] = s[n] + c[n + 1]
    BY <2>1
  <2> QED BY <2>1, <2>2
<1> HIDE DEF T
<1>3. Nat \subseteq T
  BY <1>1, <1>2, NatInductionOnSet
<1> QED BY <1>3 DEF T

-----------------------------------------------------------------------------
(* The answer is that of the first defect, and the budget is accounted for.*)

LEMMA EntryCost ==
    ASSUME SoundArchive(archive), NEW k \in 1..Len(archive.entries)
    PROVE  Cost(archive.entries[k]) \in Nat
<1>1. k \in DOMAIN archive.entries
  BY DEF SoundArchive
<1>2. archive.entries[k].type = 0 => RawLen[archive.entries[k].content] \in Nat
  BY <1>1, ContentAssumption DEF SoundArchive
<1> QED BY <1>2 DEF Cost

LEMMA SumFacts ==
    ASSUME SoundArchive(archive)
    PROVE  /\ SumTo \in [0..Len(archive.entries) -> Nat]
           /\ SumTo[0] = 0
           /\ \A k \in 1..Len(archive.entries) :
                 SumTo[k] = SumTo[k - 1] + Cost(archive.entries[k])
<1> DEFINE N == Len(archive.entries)
           c == [k \in 1..N |-> Cost(archive.entries[k])]
<1>1. N \in Nat
  BY DEF SoundArchive
<1>2. c \in [1..N -> Nat]
  BY EntryCost
<1>3. \A k \in 1..N : c[k] = Cost(archive.entries[k])
  OBVIOUS
<1> HIDE DEF c
<1>4. PICK s \in [0..N -> Nat] : s = [k \in 0..N |-> IF k = 0 THEN 0 ELSE s[k - 1] + c[k]]
  BY <1>1, <1>2, RunningSum
<1>5. \A k \in 0..N : k # 0 => k \in 1..N
  BY <1>1
<1>6. s = [k \in 0..N |-> IF k = 0 THEN 0 ELSE s[k - 1] + Cost(archive.entries[k])]
  BY <1>3, <1>4, <1>5
<1>7. SumTo = [k \in 0..N |-> IF k = 0 THEN 0 ELSE SumTo[k - 1] + Cost(archive.entries[k])]
  BY <1>6 DEF SumTo
<1>8. SumTo = [k \in 0..N |-> IF k = 0 THEN 0 ELSE SumTo[k - 1] + c[k]]
  BY <1>3, <1>5, <1>7
<1> HIDE DEF N
<1>9. SumTo[0] = 0 /\ \A k \in 1..N : SumTo[k] = SumTo[k - 1] + c[k]
  <2>1. 0 \in 0..N /\ \A k \in 1..N : k \in 0..N /\ k # 0
    BY <1>1
  <2>2. SumTo[0] = IF 0 = 0 THEN 0 ELSE SumTo[0 - 1] + c[0]
    BY <1>8, <2>1, Zenon
  <2>3. ASSUME NEW k \in 1..N PROVE SumTo[k] = IF k = 0 THEN 0 ELSE SumTo[k - 1] + c[k]
    BY <1>8, <2>1, Zenon
  <2> QED BY <2>1, <2>2, <2>3
<1>10. \A k \in 0..N : SumTo[k] \in Nat
  BY <1>1, <1>2, <1>9, RunningSumValues
<1>11. SumTo \in [0..N -> Nat]
  BY <1>8, <1>10
<1> QED BY <1>3, <1>9, <1>11 DEF N

\* The least number of a set is the one that is in it and below all others.
LEMMA MinIs ==
    ASSUME NEW S, S \subseteq Nat, NEW m \in S, \A x \in S : m <= x
    PROVE  Min(S) = m
<1>1. Min(S) \in S /\ \A x \in S : Min(S) <= x
  BY DEF Min
<1>2. Min(S) \in Nat /\ m \in Nat /\ Min(S) <= m /\ m <= Min(S)
  BY <1>1
<1> QED BY <1>2

LEMMA MaxIs ==
    ASSUME NEW S, S \subseteq Nat, NEW m \in S, \A x \in S : m >= x
    PROVE  Max(S) = m
<1>1. Max(S) \in S /\ \A x \in S : Max(S) >= x
  BY DEF Max
<1>2. Max(S) \in Nat /\ m \in Nat /\ Max(S) >= m /\ m >= Max(S)
  BY <1>1
<1> QED BY <1>2

\* The entries before entry n + 1 are right.
RightUpTo(n) == \A k \in 1..n : EntryError(k) = "none"

LEMMA FirstDefect ==
    ASSUME archive.count \in Nat, archive.count <= MaxEntries, NEW n \in Nat,
           n < archive.count, RightUpTo(n), EntryError(n + 1) # "none"
    PROVE  Verdict = EntryError(n + 1)
<1> DEFINE bad == {k \in EntriesUsed : EntryError(k) # "none"}
<1>1. n + 1 \in bad /\ bad \subseteq Nat
  BY DEF EntriesUsed
<1>2. \A k \in bad : n + 1 <= k
  <2> SUFFICES ASSUME NEW k \in bad PROVE n + 1 <= k
    OBVIOUS
  <2>1. k \in Nat /\ k >= 1 /\ ~(k \in 1..n)
    BY DEF RightUpTo, EntriesUsed
  <2> QED BY <2>1
<1> HIDE DEF bad
<1>3. Min(bad) = n + 1 /\ bad # {}
  BY <1>1, <1>2, MinIs
<1>4. archive.count # NoCount /\ ~(archive.count > MaxEntries)
  BY LimitAssumption
<1> QED BY <1>3, <1>4 DEF Verdict, bad

LEMMA NoDefect ==
    ASSUME archive.count \in Nat, archive.count <= MaxEntries, RightUpTo(archive.count)
    PROVE  Verdict = "Ok"
<1>1. {k \in EntriesUsed : EntryError(k) # "none"} = {}
  BY DEF EntriesUsed, RightUpTo
<1>2. archive.count # NoCount /\ ~(archive.count > MaxEntries)
  BY LimitAssumption
<1> QED BY <1>1, <1>2 DEF Verdict

\* So far no defect, and the sum of the costs taken.
VerdictInv ==
    /\ pc \in {"head"} \cup Working => archive.count <= MaxEntries
    /\ RightUpTo(index)
    /\ SumTo[index] <= total
    /\ pc \notin {"file", "done"} => total = SumTo[index]
    /\ pc = "file" => total = SumTo[index + 1] /\ EntryError(index + 1) = "none"
    /\ pc \in {"content", "unpack"} => held <= Current.size /\ held <= Current.blocks
    /\ pc = "unpack" => held = Current.size
    /\ AnswerIsDeserved

\* The entry that something is made of, and what it can still be refused for.
LEMMA CurrentEntry ==
    ASSUME EInv, pc \in Working
    PROVE  /\ archive.count \in Nat /\ index \in Nat /\ index < archive.count
           /\ index + 1 \in 1..Len(archive.entries)
           /\ Current = archive.entries[index + 1] /\ Current \in EntryRecords
           /\ Cost(Current) \in Nat /\ SumTo[index] \in Nat
           /\ SumTo[index + 1] = SumTo[index] + Cost(Current)
           /\ pc = "dir" => Current.type = 1 /\ EntryError(index + 1) = "none"
           /\ pc # "dir" =>
                 /\ Current.type = 0 /\ Current.content \in Contents
                 /\ EntryError(index + 1) =
                       IF Current.blocks < Current.size THEN "Malformed"
                       ELSE IF SumTo[index + 1] > MaxTotal THEN "LimitExceeded"
                       ELSE IF Current.content \in Garbage THEN "Malformed"
                       ELSE "none"
<1>1. /\ SoundArchive(archive) /\ archive.count # NoCount /\ Here /\ index < archive.count
      /\ HeadError(Current) = "none" /\ (pc = "dir" <=> Current.type = 1)
      /\ index \in Nat
  BY DEF EInv, PlaceInv, ExtractTypeOK
<1>2. archive.count \in Nat /\ archive.entries \in Seq(EntryRecords)
  BY <1>1 DEF SoundArchive
<1>3. index + 1 \in 1..Len(archive.entries) /\ index \in 0..Len(archive.entries)
  BY <1>1, <1>2 DEF Here
<1>4. Current = archive.entries[index + 1]
  BY DEF Current
<1>5. Cost(Current) \in Nat /\ SumTo[index] \in Nat
      /\ SumTo[index + 1] = SumTo[index] + Cost(Current)
  BY <1>1, <1>3, <1>4, EntryCost, SumFacts
<1>6. Current.type \in {0, 1}
  BY <1>1 DEF HeadError
<1>7. Current \in EntryRecords /\ (Current.type = 0 => Current.content \in Contents)
  BY CurrentIsSafe
<1>8. ~(index + 1 > Len(archive.entries))
  BY <1>3
<1>9. EntryError(index + 1) =
          IF Current.type = 1 THEN "none"
          ELSE IF Current.blocks < Current.size THEN "Malformed"
          ELSE IF SumTo[index + 1] > MaxTotal THEN "LimitExceeded"
          ELSE IF Current.content \in Garbage THEN "Malformed"
          ELSE "none"
  BY <1>1, <1>4, <1>8 DEF EntryError
<1> QED BY <1>1, <1>2, <1>3, <1>4, <1>5, <1>6, <1>7, <1>9

\* The archive stays, and with it what is said of it.
LEMMA SameVerdict ==
    ASSUME archive' = archive
    PROVE  /\ SumTo' = SumTo /\ Verdict' = Verdict
           /\ \A k : EntryError(k)' = EntryError(k)
<1>1. SumTo' = SumTo
  BY DEF SumTo
<1>2. ASSUME NEW k PROVE EntryError(k)' = EntryError(k)
  BY <1>1 DEF EntryError, HeadError, SafePath
<1>3. Verdict' = Verdict
  <2>1. EntriesUsed' = EntriesUsed
    BY DEF EntriesUsed
  <2>2. {k \in EntriesUsed : EntryError(k) # "none"}' = {k \in EntriesUsed : EntryError(k) # "none"}
    BY <1>2, <2>1
  <2> QED BY <1>2, <2>2 DEF Verdict
<1> QED BY <1>1, <1>2, <1>3

LEMMA ArchiveStays ==
    ASSUME [ExtractNext]_extractVars
    PROVE  UNCHANGED <<archive, before>>
  BY DEF ExtractNext, ExtractProceeds, CountRead, CountRefused, HeadRefused, HeadAccepted,
         LoopEnds, MakeDir, MakeParent, ReadBlock, BlockMissing, ContentRead, Unpack,
         UnpackFails, MakeFile, MakeRefused, IoFails, Going, Ending, NextEntry, extractVars

LEMMA EndsRightly ==
    ASSUME VerdictInv, archive' = archive, UNCHANGED <<index, total>>, pc' = "done",
           result' \in {"none", "Io", Verdict}
    PROVE  VerdictInv'
<1>1. SumTo' = SumTo /\ Verdict' = Verdict /\ RightUpTo(index)' = RightUpTo(index)
  BY SameVerdict DEF RightUpTo
<1> QED BY <1>1 DEF VerdictInv, AnswerIsDeserved, Working

LEMMA RefusedRightly ==
    ASSUME EInv, VerdictInv,
           CountRefused \/ HeadRefused \/ LoopEnds \/ BlockMissing \/ UnpackFails
    PROVE  result' = Verdict
<1> USE DEF Ending
<1>1. /\ SoundArchive(archive) /\ archive.count \in Nat \cup {NoCount} /\ NoCount \notin Nat
      /\ archive.entries \in Seq(EntryRecords) /\ MaxEntries \in Nat
      /\ index \in Nat /\ (archive.count # NoCount => index <= archive.count)
      /\ MaxTotal \in Nat /\ total \in Nat /\ total <= MaxTotal
  BY LimitAssumption DEF EInv, PlaceInv, SoundArchive, ExtractTypeOK
<1>2. CASE CountRefused
  <2>1. CASE archive.count = NoCount
    BY <1>1, <1>2, <2>1 DEF CountRefused, Verdict
  <2>2. CASE archive.count # NoCount
    BY <1>1, <1>2, <2>2 DEF CountRefused, Verdict
  <2> QED BY <2>1, <2>2
<1>3. ASSUME pc \in {"head"} \cup Working, index < archive.count,
             EntryError(index + 1) # "none", result' = EntryError(index + 1)
      PROVE  result' = Verdict
  <2>1. archive.count \in Nat /\ archive.count <= MaxEntries /\ RightUpTo(index)
    BY <1>1, <1>3 DEF VerdictInv, EInv, PlaceInv
  <2> QED BY <1>1, <1>3, <2>1, FirstDefect
<1>4. CASE HeadRefused
  <2>1. CASE Here /\ HeadError(Current) # "none" /\ Ending(HeadError(Current))
    <3>1. ~(index + 1 > Len(archive.entries)) /\ Current = archive.entries[index + 1]
      BY <1>1, <2>1 DEF Here, Current
    <3>2. EntryError(index + 1) = HeadError(Current)
      BY <2>1, <3>1 DEF EntryError
    <3> QED BY <1>3, <1>4, <2>1, <3>2 DEF HeadRefused, InLoop
  <2>2. CASE ~Here /\ Ending("Malformed")
    <3>1. index + 1 > Len(archive.entries)
      BY <1>1, <2>2 DEF Here
    <3>2. EntryError(index + 1) = "Malformed"
      BY <3>1 DEF EntryError
    <3> QED BY <1>3, <1>4, <2>2, <3>2 DEF HeadRefused, InLoop
  <2> QED BY <1>4, <2>1, <2>2 DEF HeadRefused
<1>5. CASE LoopEnds
  <2>1. archive.count \in Nat /\ archive.count <= MaxEntries /\ RightUpTo(archive.count)
    BY <1>1, <1>5 DEF LoopEnds, VerdictInv, EInv, PlaceInv
  <2> QED BY <1>5, <2>1, NoDefect DEF LoopEnds
<1>6. CASE BlockMissing
  <2>1. pc = "content" /\ pc \in Working /\ Current.blocks < Current.size
        /\ result' = "Malformed"
    BY <1>6 DEF BlockMissing, Working
  <2>2. EntryError(index + 1) = "Malformed" /\ index < archive.count
    BY <2>1, CurrentEntry
  <2> QED BY <1>3, <2>1, <2>2
<1>7. CASE UnpackFails
  <2>1. pc = "unpack" /\ pc \in Working
    BY <1>7 DEF UnpackFails, Working
  <2>2. /\ index < archive.count /\ Current \in EntryRecords /\ Current.type = 0
        /\ Current.content \in Contents
        /\ SumTo[index + 1] = SumTo[index] + Cost(Current)
        /\ EntryError(index + 1) =
              IF Current.blocks < Current.size THEN "Malformed"
              ELSE IF SumTo[index + 1] > MaxTotal THEN "LimitExceeded"
              ELSE IF Current.content \in Garbage THEN "Malformed"
              ELSE "none"
    BY <2>1, CurrentEntry
  <2>3. total = SumTo[index] /\ held = Current.size /\ held <= Current.blocks
    BY <2>1 DEF VerdictInv
  <2>4. Current.size \in Nat /\ Current.blocks \in Nat
    BY <2>2 DEF EntryRecords
  <2>5. ~(Current.blocks < Current.size)
    BY <2>3, <2>4
  <2>6. RawLen[Current.content] \in Nat /\ Cost(Current) = RawLen[Current.content]
    BY <2>2, ContentAssumption DEF Cost
  <2>7. Fits(Current.content) <=> ~(SumTo[index + 1] > MaxTotal)
    <3>1. Remaining = MaxTotal - total
      BY <1>1 DEF Remaining
    <3> QED BY <1>1, <2>2, <2>3, <2>6, <3>1 DEF Fits
  <2>8. EntryError(index + 1) # "none" /\ result' = EntryError(index + 1)
    <3>1. CASE ~Fits(Current.content) /\ Ending("LimitExceeded")
      BY <2>2, <2>5, <2>7, <3>1
    <3>2. CASE Fits(Current.content) /\ Current.content \in Garbage /\ Ending("Malformed")
      BY <2>2, <2>5, <2>7, <3>2
    <3> QED BY <1>7, <3>1, <3>2 DEF UnpackFails
  <2> QED BY <1>3, <2>1, <2>2, <2>8
<1> QED BY <1>2, <1>4, <1>5, <1>6, <1>7

LEMMA VerdictKept ==
    ASSUME EInv, VerdictInv, [ExtractNext]_extractVars
    PROVE  VerdictInv'
<1>1. /\ archive' = archive /\ SumTo' = SumTo /\ Verdict' = Verdict
      /\ \A k : EntryError(k)' = EntryError(k)
  BY ArchiveStays, SameVerdict
<1>2. CASE CountRefused \/ HeadRefused \/ LoopEnds \/ BlockMissing \/ UnpackFails
  <2>1. UNCHANGED <<index, total>> /\ pc' = "done"
    BY <1>2 DEF CountRefused, HeadRefused, LoopEnds, BlockMissing, UnpackFails, Ending
  <2> QED BY <1>1, <1>2, <2>1, RefusedRightly, EndsRightly
<1>3. CASE MakeRefused \/ IoFails
  <2>1. UNCHANGED <<index, total>> /\ pc' = "done" /\ result' = "Io"
    BY <1>3 DEF MakeRefused, IoFails, Ending
  <2> QED BY <1>1, <2>1, EndsRightly
<1>4. result' = result => AnswerIsDeserved'
  BY <1>1 DEF VerdictInv, AnswerIsDeserved
<1>5. ASSUME index' = index PROVE RightUpTo(index)' /\ Current' = Current
  BY <1>1, <1>5 DEF VerdictInv, RightUpTo, Current
<1>6. CASE CountRead \/ HeadAccepted \/ MakeParent
  <2>1. /\ UNCHANGED <<index, total, result>> /\ pc \in {"count", "head", "parent"}
        /\ pc' \in {"head", "dir", "parent", "content"}
        /\ pc = "count" => archive.count <= MaxEntries
        /\ pc' = "content" => pc = "parent" /\ held' = 0
    BY <1>6 DEF CountRead, HeadAccepted, InLoop, MakeParent, Going
  <2>2. archive.count <= MaxEntries
    BY <2>1 DEF VerdictInv, Working
  <2>3. pc' = "content" => held' <= Current.size /\ held' <= Current.blocks
    <3> SUFFICES ASSUME pc' = "content" PROVE held' <= Current.size /\ held' <= Current.blocks
      OBVIOUS
    <3>1. pc \in Working /\ held' = 0
      BY <2>1 DEF Working
    <3>2. Current.size \in Nat /\ Current.blocks \in Nat
      BY <3>1, CurrentEntry DEF EntryRecords
    <3> QED BY <3>1, <3>2
  <2>4. total = SumTo[index]
    BY <2>1 DEF VerdictInv
  <2> QED BY <1>1, <1>4, <1>5, <2>1, <2>2, <2>3, <2>4 DEF VerdictInv
<1>7. CASE ReadBlock \/ ContentRead
  <2>1. /\ UNCHANGED <<index, total, result>> /\ pc = "content" /\ pc \in Working
        /\ pc' \in {"content", "unpack"}
        /\ \/ held' = held + 1 /\ held < Current.size /\ held < Current.blocks
              /\ pc' = "content"
           \/ held' = held /\ held = Current.size
    BY <1>7 DEF ReadBlock, ContentRead, Going, Working
  <2>2. Current.size \in Nat /\ Current.blocks \in Nat /\ held \in Nat
    BY <2>1, CurrentEntry DEF EntryRecords, EInv, ExtractTypeOK
  <2>3. held' <= Current.size /\ held' <= Current.blocks
        /\ (pc' = "unpack" => held' = Current.size)
    BY <2>1, <2>2 DEF VerdictInv
  <2>4. total = SumTo[index] /\ archive.count <= MaxEntries
    BY <2>1 DEF VerdictInv
  <2> QED BY <1>1, <1>4, <1>5, <2>1, <2>3, <2>4 DEF VerdictInv
<1>8. CASE Unpack
  <2>1. /\ UNCHANGED <<index, result>> /\ pc = "unpack" /\ pc \in Working /\ pc' = "file"
        /\ total' = total + RawLen[Current.content] /\ Fits(Current.content)
        /\ Current.content \notin Garbage
    BY <1>8 DEF Unpack, Working
  <2>2. /\ Current \in EntryRecords /\ Current.type = 0
        /\ Current.content \in Contents /\ SumTo[index] \in Nat /\ Cost(Current) \in Nat
        /\ SumTo[index + 1] = SumTo[index] + Cost(Current)
        /\ EntryError(index + 1) =
              IF Current.blocks < Current.size THEN "Malformed"
              ELSE IF SumTo[index + 1] > MaxTotal THEN "LimitExceeded"
              ELSE IF Current.content \in Garbage THEN "Malformed"
              ELSE "none"
    BY <2>1, CurrentEntry
  <2>3. total = SumTo[index] /\ held = Current.size /\ held <= Current.blocks
        /\ archive.count <= MaxEntries
    BY <2>1 DEF VerdictInv
  <2>4. Current.size \in Nat /\ Current.blocks \in Nat
    BY <2>2 DEF EntryRecords
  <2>5. ~(Current.blocks < Current.size)
    BY <2>3, <2>4
  <2>6. Cost(Current) = RawLen[Current.content]
    BY <2>2 DEF Cost
  <2>7. total \in Nat /\ total <= MaxTotal /\ MaxTotal \in Nat
    BY LimitAssumption DEF EInv, ExtractTypeOK
  <2>8. ~(SumTo[index + 1] > MaxTotal)
    <3>1. Remaining = MaxTotal - total
      BY <2>7 DEF Remaining
    <3> QED BY <2>1, <2>2, <2>3, <2>6, <2>7, <3>1 DEF Fits
  <2>9. EntryError(index + 1) = "none"
    BY <2>1, <2>2, <2>5, <2>8
  <2>10. total' = SumTo[index + 1] /\ SumTo[index] <= total'
    BY <2>1, <2>2, <2>3, <2>6
  <2> QED BY <1>1, <1>4, <1>5, <2>1, <2>3, <2>9, <2>10 DEF VerdictInv
<1>9. CASE MakeDir \/ MakeFile
  <2>1. /\ index' = index + 1 /\ UNCHANGED <<total, result>> /\ pc' = "head"
        /\ pc \in {"dir", "file"} /\ pc \in Working
    BY <1>9 DEF MakeDir, MakeFile, NextEntry, Working
  <2>2. /\ SumTo[index + 1] = SumTo[index] + Cost(Current) /\ index \in Nat
        /\ SumTo[index] \in Nat
        /\ pc = "dir" => Current.type = 1 /\ EntryError(index + 1) = "none"
    BY <2>1, CurrentEntry
  <2>3. EntryError(index + 1) = "none" /\ total = SumTo[index + 1]
        /\ archive.count <= MaxEntries
    BY <2>1, <2>2 DEF VerdictInv, Cost
  <2>4. RightUpTo(index)'
    <3>1. \A k \in 1..(index + 1) : k \in 1..index \/ k = index + 1
      BY <2>2
    <3> QED BY <1>1, <2>1, <2>3, <3>1 DEF VerdictInv, RightUpTo
  <2>5. total <= total
    BY DEF EInv, ExtractTypeOK
  <2> QED BY <1>1, <1>4, <2>1, <2>3, <2>4, <2>5 DEF VerdictInv
<1>10. CASE UNCHANGED extractVars
  BY <1>1, <1>4, <1>5, <1>10 DEF extractVars, VerdictInv
<1> QED BY <1>2, <1>3, <1>6, <1>7, <1>8, <1>9, <1>10 DEF ExtractNext, ExtractProceeds

LEMMA BeginsVerdict ==
    ASSUME ExtractBegins
    PROVE  VerdictInv
<1>1. SoundArchive(archive)
  BY DEF ExtractBegins
<1>2. SumTo[0] = 0
  BY <1>1, SumFacts
<1>3. index = 0 /\ total = 0 /\ pc = "count" /\ result = "none"
  BY DEF ExtractBegins
<1> QED BY <1>2, <1>3 DEF VerdictInv, RightUpTo, AnswerIsDeserved, Working

-----------------------------------------------------------------------------
(* What each file and directory is there for.                              *)

\* The node is what entry k stands for.
StandsFor(p, node, k) ==
    /\ archive.entries[k].path = p
    /\ IF archive.entries[k].type = 1 THEN node.kind = "dir"
       ELSE node.kind = "file" /\ node.content = archive.entries[k].content

Unclaimed(p, n) == \A k \in 1..n : archive.entries[k].path # p

\* After n entries, with the directories made for m: the node was there, lies
\* on the way to an entry, or is what the last entry with its path stands for.
Explained(p, node, n, m) ==
    \/ /\ Unclaimed(p, n)
       /\ \/ p \in DOMAIN before /\ node = before[p]
          \/ node.kind = "dir" /\ \E k \in 1..m : p \in Above(archive.entries[k].path)
    \/ \E k \in 1..n : /\ StandsFor(p, node, k)
                       /\ \A j \in (k + 1)..n : archive.entries[j].path # p

\* The entries for which directories may have been made.
Reached == IF pc \in {"content", "unpack", "file"} THEN index + 1 ELSE index

TreeExplained ==
    /\ \A p \in DOMAIN tree : Explained(p, tree[p], index, Reached)
    /\ \A k \in 1..index : archive.entries[k].path \in DOMAIN tree

\* The second part of BudgetKept.
FilesAreEntries ==
    \A p \in Extracted : \E k \in 1..index :
        LET e == archive.entries[k] IN
        e.type = 0 /\ e.path = p /\ e.content = tree[p].content

MadeInv ==
    /\ pc # "done" => TreeExplained
    /\ FilesAreEntries
    /\ OkMeansAll

LEMMA SameExplanation ==
    ASSUME UNCHANGED <<archive, before>>,
           \A p \in DOMAIN tree' : Explained(p, tree'[p], index', Reached'),
           \A k \in 1..index' : archive.entries[k].path \in DOMAIN tree'
    PROVE  TreeExplained'
  BY DEF TreeExplained, Explained, Unclaimed, StandsFor

\* A node that the next entry does not claim is explained as before.
LEMMA StillExplained ==
    ASSUME NEW n \in Nat, NEW m \in {n, n + 1}, NEW p, NEW node,
           Explained(p, node, n, m), archive.entries[n + 1].path # p
    PROVE  Explained(p, node, n + 1, n + 1)
<1>1. \A k \in 1..(n + 1) : k \in 1..n \/ k = n + 1
  OBVIOUS
<1>2. \A k \in 1..n : k \in 1..(n + 1)
  OBVIOUS
<1>3. \A k \in 1..m : k \in 1..(n + 1)
  OBVIOUS
<1>4. \A k \in 1..n : \A j \in (k + 1)..(n + 1) : j \in (k + 1)..n \/ j = n + 1
  OBVIOUS
<1>5. CASE Unclaimed(p, n)
  <2>1. Unclaimed(p, n + 1)
    BY <1>1, <1>5 DEF Unclaimed
  <2>2. ~\E k \in 1..n : StandsFor(p, node, k)
    BY <1>5 DEF Unclaimed, StandsFor
  <2> QED BY <1>3, <2>1, <2>2 DEF Explained
<1>6. CASE \E k \in 1..n : /\ StandsFor(p, node, k)
                           /\ \A j \in (k + 1)..n : archive.entries[j].path # p
  BY <1>2, <1>4, <1>6 DEF Explained
<1> QED BY <1>5, <1>6 DEF Explained

LEMMA NowExplained ==
    ASSUME NEW n \in Nat, NEW p, NEW node, StandsFor(p, node, n + 1)
    PROVE  Explained(p, node, n + 1, n + 1)
<1>1. n + 1 \in 1..(n + 1) /\ \A j \in (n + 1 + 1)..(n + 1) : FALSE
  OBVIOUS
<1> QED BY <1>1 DEF Explained

\* Directories are made on the way to the next entry: they are explained, and what
\* there was before is explained as before.
LEMMA WayExplained ==
    ASSUME TreeExplained, index \in Nat, Reached = index, NEW q, NEW t,
           t = MakeDirs(tree, q), UpTo(q) \subseteq UpTo(archive.entries[index + 1].path)
    PROVE  /\ \A p \in DOMAIN t : \/ p \notin Above(archive.entries[index + 1].path)
                                     /\ p \notin DOMAIN tree
                                     /\ p = archive.entries[index + 1].path
                                  \/ Explained(p, t[p], index, index + 1)
           /\ \A k \in 1..index : archive.entries[k].path \in DOMAIN t
<1> DEFINE path == archive.entries[index + 1].path
<1>1. /\ DOMAIN t = DOMAIN tree \cup UpTo(q)
      /\ \A p \in DOMAIN tree : t[p] = tree[p]
      /\ \A p \in UpTo(q) : p \notin DOMAIN tree => t[p] = Dir(NewDirMode)
  BY MakeDirsKeeps
<1>2. \A k \in 1..index : archive.entries[k].path \in DOMAIN t
  BY <1>1 DEF TreeExplained
<1>3. ASSUME NEW p \in DOMAIN tree PROVE Explained(p, t[p], index, index + 1)
  <2>1. Explained(p, t[p], index, index)
    BY <1>1, <1>3 DEF TreeExplained
  <2>2. \A k \in 1..index : k \in 1..(index + 1)
    OBVIOUS
  <2> QED BY <2>1, <2>2 DEF Explained
<1>4. ASSUME NEW p \in UpTo(q), p \notin DOMAIN tree, p \in Above(path)
      PROVE  Explained(p, t[p], index, index + 1)
  <2>1. t[p].kind = "dir"
    BY <1>1, <1>4 DEF Dir
  <2>2. Unclaimed(p, index)
    BY <1>4 DEF Unclaimed, TreeExplained
  <2>3. index + 1 \in 1..(index + 1)
    OBVIOUS
  <2> QED BY <1>4, <2>1, <2>2, <2>3 DEF Explained
<1>5. \A p \in UpTo(q) : p \in Above(path) \/ p = path
  BY DEF UpTo
<1> QED BY <1>1, <1>2, <1>3, <1>4, <1>5

\* What is on the way to a path is not the path.
LEMMA AboveIsShorter ==
    ASSUME NEW p \in Seq(Names)
    PROVE  p \notin Above(p)
<1>1. ASSUME NEW n \in 0..(Len(p) - 1), p = SubSeq(p, 1, n) PROVE FALSE
  <2>1. n \in 0..Len(p) /\ n # Len(p)
    OBVIOUS
  <2>2. Len(SubSeq(p, 1, n)) = n
    BY <2>1, Prefix
  <2> QED BY <1>1, <2>1, <2>2
<1> QED BY <1>1 DEF Above

\* The entry has been made: its path is explained by it, all others as before.
LEMMA EntryMade ==
    ASSUME EInv, pc \in Working, UNCHANGED <<archive, before>>,
           index' = index + 1, pc' = "head",
           Current.path \in DOMAIN tree',
           StandsFor(Current.path, tree'[Current.path], index + 1),
           \A p \in DOMAIN tree' \ {Current.path} : Explained(p, tree'[p], index, index)
                                                    \/ Explained(p, tree'[p], index, index + 1),
           \A k \in 1..index : archive.entries[k].path \in DOMAIN tree'
    PROVE  TreeExplained'
<1>1. index \in Nat /\ Current = archive.entries[index + 1]
  BY DEF EInv, ExtractTypeOK, Current
<1>2. ASSUME NEW p \in DOMAIN tree' PROVE Explained(p, tree'[p], index + 1, index + 1)
  <2>1. CASE p = Current.path
    BY <1>1, <2>1, NowExplained
  <2>2. CASE p # Current.path
    BY <1>1, <2>2, StillExplained
  <2> QED BY <2>1, <2>2
<1>3. Reached' = index + 1
  BY DEF Reached
<1>4. \A k \in 1..(index + 1) : k \in 1..index \/ k = index + 1
  BY <1>1
<1>5. \A k \in 1..index' : archive.entries[k].path \in DOMAIN tree'
  BY <1>1, <1>4
<1> QED BY <1>2, <1>3, <1>5, SameExplanation

LEMMA SetModeKeepsContent ==
    ASSUME NEW t, GoodTree(t), NEW p \in DOMAIN t, NEW mode
    PROVE  SetMode(t, p, mode)[p].content = t[p].content
<1>1. t[p] \in Nodes
  BY DEF GoodTree
<1>2. [t[p] EXCEPT !.mode = mode].content = t[p].content
  BY <1>1 DEF Nodes
<1> QED BY <1>2 DEF SetMode

LEMMA MakeDirExplained ==
    ASSUME EInv, TreeExplained, MakeDir
    PROVE  TreeExplained'
<1> DEFINE path == Current.path
           made == MakeDirs(tree, path)
<1>1. /\ pc = "dir" /\ pc \in Working /\ CanMakeDirs(tree, path)
      /\ UNCHANGED <<archive, before>> /\ index' = index + 1 /\ pc' = "head"
      /\ tree' = made \/ tree' = SetMode(made, path, SanitizeMode(Current.perms, TRUE))
  BY DEF MakeDir, NextEntry, Working
<1>2. /\ path \in Seq(Names) /\ Current.perms \in SUBSET ModeBits
      /\ Current.type = 1 /\ index \in Nat /\ Current = archive.entries[index + 1]
  BY <1>1, CurrentIsSafe, CurrentEntry DEF EntryRecords
<1>3. TreeInv
  BY DEF EInv
<1>4. path = archive.entries[index + 1].path /\ archive.entries[index + 1].type = 1
  BY <1>2
<1> HIDE DEF path
<1>5. GoodTree(made) /\ path \in DOMAIN made /\ made[path].kind = "dir"
  BY <1>1, <1>2, <1>3, DirsMade
<1>6. Reached = index
  BY <1>1 DEF Reached
<1>7. /\ \A p \in DOMAIN made : \/ p = path
                                \/ Explained(p, made[p], index, index + 1)
      /\ \A k \in 1..index : archive.entries[k].path \in DOMAIN made
  BY <1>2, <1>4, <1>6, WayExplained
<1> HIDE DEF made
<1>8. SanitizeMode(Current.perms, TRUE) \in SUBSET ModeBits
  BY <1>2 DEF SanitizeMode
<1>9. /\ DOMAIN tree' = DOMAIN made /\ tree'[path].kind = "dir"
      /\ \A p \in DOMAIN made \ {path} : tree'[p] = made[p]
  <2> DEFINE mode == SanitizeMode(Current.perms, TRUE)
  <2>1. mode \in SUBSET ModeBits /\ (tree' = made \/ tree' = SetMode(made, path, mode))
    BY <1>1, <1>8
  <2> HIDE DEF mode
  <2>2. CASE tree' = made
    BY <1>5, <2>2
  <2>3. CASE tree' = SetMode(made, path, mode)
    BY <1>5, <2>1, <2>3, SetModeKeeps
  <2> QED BY <2>1, <2>2, <2>3
<1>10. StandsFor(path, tree'[path], index + 1)
  BY <1>4, <1>9 DEF StandsFor
<1> QED BY <1>1, <1>5, <1>7, <1>9, <1>10, EntryMade DEF path

LEMMA MakeFileExplained ==
    ASSUME EInv, TreeExplained, MakeFile
    PROVE  TreeExplained'
<1> DEFINE path == Current.path
           made == WriteFile(tree, path, Current.content)
<1>1. /\ pc = "file" /\ pc \in Working /\ CanWriteFile(tree, path)
      /\ UNCHANGED <<archive, before>> /\ index' = index + 1 /\ pc' = "head"
      /\ tree' = made \/ tree' = SetMode(made, path, SanitizeMode(Current.perms, FALSE))
  BY DEF MakeFile, NextEntry, Working
<1>2. /\ path \in Seq(Names) /\ Current.perms \in SUBSET ModeBits
      /\ Current.type = 0 /\ Current.content \in Contents
      /\ index \in Nat /\ Current = archive.entries[index + 1]
  BY <1>1, CurrentIsSafe, CurrentEntry DEF EntryRecords
<1>3. TreeInv
  BY DEF EInv
<1>4. /\ path = archive.entries[index + 1].path /\ archive.entries[index + 1].type = 0
      /\ Current.content = archive.entries[index + 1].content
  BY <1>2
<1> HIDE DEF path
<1>5. GoodTree(made) /\ path \in DOMAIN made
  BY <1>1, <1>2, <1>3, FileMade
<1>6. /\ DOMAIN made = DOMAIN tree \cup {path}
      /\ \A p \in DOMAIN tree \ {path} : made[p] = tree[p]
      /\ made[path].kind = "file" /\ made[path].content = Current.content
  BY DEF WriteFile, File
<1> HIDE DEF made
<1>7. SanitizeMode(Current.perms, FALSE) \in SUBSET ModeBits
  BY <1>2 DEF SanitizeMode
<1>8. /\ DOMAIN tree' = DOMAIN made
      /\ tree'[path].kind = "file" /\ tree'[path].content = Current.content
      /\ \A p \in DOMAIN made \ {path} : tree'[p] = made[p]
  <2> DEFINE mode == SanitizeMode(Current.perms, FALSE)
  <2>1. mode \in SUBSET ModeBits /\ (tree' = made \/ tree' = SetMode(made, path, mode))
    BY <1>1, <1>7
  <2> HIDE DEF mode
  <2>2. CASE tree' = made
    BY <1>5, <1>6, <2>2
  <2>3. CASE tree' = SetMode(made, path, mode)
    BY <1>5, <1>6, <2>1, <2>3, SetModeKeeps, SetModeKeepsContent
  <2> QED BY <2>1, <2>2, <2>3
<1>9. StandsFor(path, tree'[path], index + 1)
  BY <1>4, <1>8 DEF StandsFor
<1>10. Reached = index + 1
  BY <1>1 DEF Reached
<1>11. \A p \in DOMAIN tree' \ {path} : Explained(p, tree'[p], index, index + 1)
  BY <1>6, <1>8, <1>10 DEF TreeExplained
<1>12. \A k \in 1..index : archive.entries[k].path \in DOMAIN tree'
  BY <1>6, <1>8 DEF TreeExplained
<1> QED BY <1>1, <1>5, <1>8, <1>9, <1>11, <1>12, EntryMade DEF path

LEMMA MakeParentExplained ==
    ASSUME EInv, TreeExplained, MakeParent
    PROVE  TreeExplained'
<1> DEFINE path == Current.path
           front == Front(path)
<1>1. /\ pc = "parent" /\ pc \in Working /\ CanMakeDirs(tree, front)
      /\ UNCHANGED <<archive, before, index>> /\ pc' = "content"
      /\ tree' = MakeDirs(tree, front)
  BY DEF MakeParent, Going, Working
<1>2. /\ path \in Seq(Names) /\ path # <<>> /\ front \in Seq(Names)
      /\ index \in Nat /\ path = archive.entries[index + 1].path
  BY <1>1, CurrentIsSafe, CurrentEntry
<1> HIDE DEF path
<1>3. Len(path) \in Nat \ {0} /\ front = SubSeq(path, 1, Len(path) - 1)
  BY <1>2, EmptySeq DEF Front
<1>4. Len(path) - 1 \in 0..Len(path) /\ Len(path) - 1 < Len(path)
  BY <1>3
<1>5. Len(front) = Len(path) - 1 /\ front \in Above(path)
  BY <1>2, <1>3, <1>4, Prefix, AboveIsPrefix
<1>6. ASSUME NEW q \in UpTo(front) PROVE q \in Above(path)
  <2>1. CASE q = front
    BY <1>5, <2>1
  <2>2. CASE q \in Above(front)
    <3>1. PICK m \in 0..(Len(front) - 1) : q = SubSeq(front, 1, m)
      BY <2>2 DEF Above
    <3>2. m \in 0..(Len(path) - 1) /\ m \in 0..Len(path)
      BY <1>3, <1>5, <3>1
    <3>3. q = SubSeq(path, 1, m)
      BY <1>2, <1>3, <1>4, <1>5, <3>1, PrefixOfPrefix
    <3> QED BY <3>2, <3>3 DEF Above
  <2> QED BY <1>6, <2>1, <2>2 DEF UpTo
<1>7. UpTo(front) \subseteq UpTo(path) /\ path \notin UpTo(front)
  BY <1>2, <1>6, AboveIsShorter DEF UpTo
<1>8. Reached = index /\ Reached' = index + 1
  BY <1>1 DEF Reached
<1>9. /\ \A p \in DOMAIN tree' : \/ p \notin Above(path) /\ p \notin DOMAIN tree /\ p = path
                                 \/ Explained(p, tree'[p], index, index + 1)
      /\ \A k \in 1..index : archive.entries[k].path \in DOMAIN tree'
  BY <1>1, <1>2, <1>7, <1>8, WayExplained
<1>10. DOMAIN tree' = DOMAIN tree \cup UpTo(front)
  BY <1>1, MakeDirsKeeps
<1>11. \A p \in DOMAIN tree' : Explained(p, tree'[p], index', Reached')
  BY <1>1, <1>7, <1>8, <1>9, <1>10
<1> QED BY <1>1, <1>9, <1>11, SameExplanation

\* Every file that has been written is explained by an entry.
LEMMA FilesFromTree == EInv /\ VerdictInv /\ TreeExplained => FilesAreEntries
<1> SUFFICES ASSUME EInv, VerdictInv, TreeExplained, NEW p \in Extracted
             PROVE  \E k \in 1..index : LET e == archive.entries[k] IN
                       e.type = 0 /\ e.path = p /\ e.content = tree[p].content
  BY DEF FilesAreEntries
<1>1. /\ p \in DOMAIN tree /\ tree[p].kind = "file"
      /\ p \in DOMAIN before => tree[p].content # before[p].content
  BY DEF Extracted
<1>2. Explained(p, tree[p], index, Reached)
  BY <1>1 DEF TreeExplained
<1>3. PICK k \in 1..index : StandsFor(p, tree[p], k)
  BY <1>1, <1>2 DEF Explained
<1>4. index \in 0..Len(archive.entries) /\ archive.entries \in Seq(EntryRecords)
  BY ArchiveShape DEF EInv, ExtractTypeOK
<1>5. EntryError(k) = "none" /\ ~(k > Len(archive.entries))
  BY <1>4 DEF VerdictInv, RightUpTo
<1>6. HeadError(archive.entries[k]) = "none"
  BY <1>5 DEF EntryError
<1>7. archive.entries[k].type \in {0, 1}
  BY <1>6 DEF HeadError
<1> QED BY <1>1, <1>3, <1>7 DEF StandsFor

\* When all entries are done, the tree is what they stand for.
LEMMA EndsWithAll ==
    ASSUME EInv, TreeExplained, LoopEnds
    PROVE  OkMeansAll'
<1>1. UNCHANGED <<archive, before, tree>> /\ index = archive.count /\ Reached = index
  BY DEF LoopEnds, Ending, Reached
<1>2. EntriesUsed = 1..index /\ index \in Nat /\ EntriesUsed \subseteq Nat
  BY <1>1 DEF EntriesUsed, EInv, ExtractTypeOK
<1>3. ASSUME NEW p \in DOMAIN tree
      PROVE  IF Claims(p) = {}
             THEN \/ p \in DOMAIN before /\ tree[p] = before[p]
                  \/ tree[p].kind = "dir" /\ \E k \in EntriesUsed : p \in Above(archive.entries[k].path)
             ELSE LET e == archive.entries[Max(Claims(p))] IN
                  IF e.type = 1 THEN tree[p].kind = "dir"
                  ELSE tree[p].kind = "file" /\ tree[p].content = e.content
  <2>1. Explained(p, tree[p], index, index)
    BY <1>1, <1>3 DEF TreeExplained
  <2>2. CASE \E k \in 1..index : /\ StandsFor(p, tree[p], k)
                                 /\ \A j \in (k + 1)..index : archive.entries[j].path # p
    <3>1. PICK k \in 1..index : /\ StandsFor(p, tree[p], k)
                                /\ \A j \in (k + 1)..index : archive.entries[j].path # p
      BY <2>2
    <3>2. k \in Claims(p) /\ Claims(p) \subseteq Nat
      BY <1>2, <3>1 DEF Claims, StandsFor
    <3>3. \A j \in Claims(p) : k >= j
      <4> SUFFICES ASSUME NEW j \in 1..index, archive.entries[j].path = p PROVE k >= j
        BY <1>2 DEF Claims
      <4>1. ~(j \in (k + 1)..index)
        BY <3>1
      <4> QED BY <1>2, <4>1
    <3>4. Max(Claims(p)) = k
      BY <3>2, <3>3, MaxIs
    <3> QED BY <3>1, <3>2, <3>4 DEF StandsFor
  <2>3. CASE Unclaimed(p, index) /\ ~\E k \in 1..index : StandsFor(p, tree[p], k)
    <3>1. Claims(p) = {}
      BY <1>2, <2>3 DEF Claims, Unclaimed
    <3> QED BY <1>2, <2>1, <2>3, <3>1 DEF Explained
  <2> QED BY <2>1, <2>2, <2>3 DEF Explained, Unclaimed, StandsFor
<1>4. \A k \in EntriesUsed : archive.entries[k].path \in DOMAIN tree
  BY <1>2 DEF TreeExplained
<1>5. EntriesUsed' = EntriesUsed /\ \A p : Claims(p)' = Claims(p)
  BY <1>1 DEF EntriesUsed, Claims
<1> QED BY <1>1, <1>3, <1>4, <1>5 DEF OkMeansAll

LEMMA SameFiles ==
    ASSUME FilesAreEntries, UNCHANGED <<archive, before, index>>,
           \A p \in Extracted' : p \in Extracted /\ tree'[p].content = tree[p].content
    PROVE  FilesAreEntries'
  BY DEF FilesAreEntries

\* When the file system fails, no file is left that is there whole and is no entry.
LEMMA FailsWithEntries ==
    ASSUME EInv, FilesAreEntries, IoFails
    PROVE  FilesAreEntries'
<1>1. UNCHANGED <<archive, before, index>>
  BY DEF IoFails
<1>2. CASE UNCHANGED tree
  BY <1>1, <1>2, SameFiles DEF Extracted
<1>3. ASSUME NEW q, tree' = MakeDirs(tree, q)
      PROVE  FilesAreEntries'
  <2>1. /\ DOMAIN tree' = DOMAIN tree \cup UpTo(q)
        /\ \A p \in DOMAIN tree : tree'[p] = tree[p]
        /\ \A p \in UpTo(q) : p \notin DOMAIN tree => tree'[p] = Dir(NewDirMode)
    BY <1>3, MakeDirsKeeps
  <2>2. \A p \in Extracted' : p \in Extracted /\ tree'[p].content = tree[p].content
    BY <1>1, <2>1 DEF Extracted, Dir
  <2> QED BY <1>1, <2>2, SameFiles
<1>4. ASSUME tree' = WriteFile(tree, Current.path, NoContent)
      PROVE  FilesAreEntries'
  <2>1. /\ DOMAIN tree' = DOMAIN tree \cup {Current.path}
        /\ \A p \in DOMAIN tree \ {Current.path} : tree'[p] = tree[p]
        /\ tree'[Current.path].content = NoContent
    BY <1>4 DEF WriteFile, File
  <2>2. \A p \in Extracted' : p \in Extracted /\ tree'[p].content = tree[p].content
    BY <1>1, <2>1 DEF Extracted
  <2> QED BY <1>1, <2>2, SameFiles
<1> QED BY <1>2, <1>3, <1>4 DEF IoFails

LEMMA MadeKept ==
    ASSUME EInv, VerdictInv, MadeInv, [ExtractNext]_extractVars, EInv', VerdictInv'
    PROVE  MadeInv'
<1>1. pc # "done" => TreeExplained
  BY DEF MadeInv
<1>2. FilesAreEntries
  BY DEF MadeInv
<1>3. (EInv /\ VerdictInv /\ TreeExplained => FilesAreEntries)'
  BY FilesFromTree, PTL
<1>4. CASE MakeDir \/ MakeFile \/ MakeParent
  <2>1. pc # "done" /\ pc' # "done" /\ result' = result
    BY <1>4 DEF MakeDir, MakeFile, MakeParent, NextEntry, Going
  <2>2. TreeExplained'
    BY <1>1, <1>4, <2>1, MakeDirExplained, MakeFileExplained, MakeParentExplained
  <2>3. result' # "Ok"
    BY <2>1 DEF EInv, ExtractTypeOK
  <2> QED BY <1>3, <2>2, <2>3 DEF MadeInv, OkMeansAll
<1>5. CASE CountRead \/ HeadAccepted \/ ReadBlock \/ ContentRead \/ Unpack
  <2>1. /\ UNCHANGED <<archive, before, tree, index, result>>
        /\ pc # "done" /\ pc' # "done"
        /\ pc \in {"content", "unpack", "file"} <=> pc' \in {"content", "unpack", "file"}
    BY <1>5 DEF CountRead, HeadAccepted, InLoop, ReadBlock, ContentRead, Unpack, Going
  <2>2. Reached' = Reached
    BY <2>1 DEF Reached
  <2>3. TreeExplained'
    BY <1>1, <2>1, <2>2, SameExplanation DEF TreeExplained
  <2>4. result' # "Ok"
    BY <2>1 DEF EInv, ExtractTypeOK
  <2> QED BY <1>3, <2>3, <2>4 DEF MadeInv, OkMeansAll
<1>6. CASE LoopEnds
  <2>1. UNCHANGED <<archive, before, tree, index>> /\ pc # "done" /\ pc' = "done"
    BY <1>6 DEF LoopEnds, Ending
  <2>2. FilesAreEntries'
    BY <1>2, <2>1, SameFiles DEF Extracted
  <2>3. OkMeansAll'
    BY <1>1, <1>6, <2>1, EndsWithAll
  <2> QED BY <2>1, <2>2, <2>3 DEF MadeInv
<1>7. CASE CountRefused \/ HeadRefused \/ BlockMissing \/ UnpackFails \/ MakeRefused
  <2>1. UNCHANGED <<archive, before, tree, index>> /\ pc' = "done"
    BY <1>7 DEF CountRefused, HeadRefused, BlockMissing, UnpackFails, MakeRefused, Ending
  <2>2. result' # "Ok"
    BY <1>7 DEF CountRefused, HeadRefused, HeadError, BlockMissing, UnpackFails, MakeRefused,
                Ending
  <2>3. FilesAreEntries'
    BY <1>2, <2>1, SameFiles DEF Extracted
  <2> QED BY <2>1, <2>2, <2>3 DEF MadeInv, OkMeansAll
<1>8. CASE IoFails
  <2>1. pc' = "done" /\ result' = "Io"
    BY <1>8 DEF IoFails
  <2> QED BY <1>2, <1>8, <2>1, FailsWithEntries DEF MadeInv, OkMeansAll
<1>9. CASE UNCHANGED extractVars
  <2>1. UNCHANGED <<archive, before, tree, index, result, pc>>
    BY <1>9 DEF extractVars
  <2>2. Reached' = Reached /\ EntriesUsed' = EntriesUsed /\ \A p : Claims(p)' = Claims(p)
    BY <2>1 DEF Reached, EntriesUsed, Claims
  <2>3. pc' # "done" => TreeExplained'
    BY <1>1, <2>1, <2>2, SameExplanation DEF TreeExplained
  <2>4. FilesAreEntries'
    BY <1>2, <2>1, SameFiles DEF Extracted
  <2>5. OkMeansAll'
    BY <2>1, <2>2 DEF MadeInv, OkMeansAll
  <2> QED BY <2>3, <2>4, <2>5 DEF MadeInv
<1> QED BY <1>4, <1>5, <1>6, <1>7, <1>8, <1>9 DEF ExtractNext, ExtractProceeds

LEMMA BeginsMade ==
    ASSUME ExtractBegins
    PROVE  MadeInv
<1>1. tree = before /\ index = 0 /\ pc = "count" /\ result = "none"
  BY DEF ExtractBegins
<1>2. \A k \in 1..0 : FALSE
  OBVIOUS
<1>3. TreeExplained
  BY <1>1, <1>2 DEF TreeExplained, Explained, Unclaimed, Reached
<1>4. Extracted = {}
  BY <1>1 DEF Extracted
<1> QED BY <1>1, <1>3, <1>4 DEF MadeInv, FilesAreEntries, OkMeansAll

\* All that is invariant of an extraction.
ExtractInv == EInv /\ VerdictInv /\ MadeInv

LEMMA BeginsRight == ExtractBegins => ExtractInv
  BY BeginsEInv, BeginsVerdict, BeginsMade DEF ExtractInv

LEMMA ExtractInvKept ==
    ASSUME ExtractInv, [ExtractNext]_extractVars
    PROVE  ExtractInv'
<1>1. EInv'
  BY TreeKept, PlaceKept, CountersKept DEF EInv, ExtractInv
<1>2. VerdictInv'
  BY VerdictKept DEF ExtractInv
<1> QED BY <1>1, <1>2, MadeKept DEF ExtractInv

LEMMA ExtractInvHolds == ExtractSpec => []ExtractInv
  BY InitBegins, BeginsRight, ExtractInvKept, PTL DEF ExtractSpec

LEMMA ExtractInvMeans ==
    ASSUME ExtractInv
    PROVE  HostileIsContained /\ BudgetKept /\ AnswerIsExact
<1>1. StaysInside
  BY DEF ExtractInv, EInv, TreeInv, GoodTree, StaysInside
<1>2. ModesAreSafe
  BY DEF ExtractInv, EInv, TreeInv, SafeModes, ModesAreSafe
<1>3. MemoryFollowsInput
  BY DEF ExtractInv, EInv
<1>4. BudgetKept
  BY DEF ExtractInv, EInv, VerdictInv, MadeInv, FilesAreEntries, BudgetKept
<1>5. AnswerIsExact
  BY DEF ExtractInv, VerdictInv, MadeInv, AnswerIsExact
<1> QED BY <1>1, <1>2, <1>3, <1>4, <1>5 DEF HostileIsContained

-----------------------------------------------------------------------------
(* What holds of every extraction.                                         *)

\* Types are kept.
THEOREM TypeCorrect == ExtractSpec => []ExtractTypeOK
<1>1. ExtractInv => ExtractTypeOK
  BY DEF ExtractInv, EInv
<1> QED BY <1>1, ExtractInvHolds, PTL

\* extract_archive_with_limits: whatever is in the archive, nothing is made
\* outside the destination, no unsafe mode is set, and the memory claimed for
\* a content is in proportion to what has been read of it.
THEOREM HostileIsAlwaysContained == ExtractSpec => []HostileIsContained
  BY ExtractInvMeans, ExtractInvHolds, PTL

\* The budget is never exceeded, and what it has been charged for covers every
\* file that has been written.
THEOREM BudgetAlwaysKept == ExtractSpec => []BudgetKept
  BY ExtractInvMeans, ExtractInvHolds, PTL

\* The answer is that of the first defect in the order of the archive's bytes,
\* and after Ok the tree is what was there and what the entries stand for.
THEOREM AnswerAlwaysExact == ExtractSpec => []AnswerIsExact
  BY ExtractInvMeans, ExtractInvHolds, PTL

-----------------------------------------------------------------------------
(* Building: the walk and the entries.                                     *)

NonRoot == Seq(Names) \ {<<>>}
Frames == [abs : NonRoot, rel : NonRoot, names : SUBSET Names]
Listed == [rel : NonRoot, abs : NonRoot, dir : BOOLEAN]

GoodNodes(t) == DOMAIN t \subseteq Seq(Names) /\ \A p \in DOMAIN t : t[p] \in Nodes

BuildTypes ==
    /\ source \in Sources
    /\ GoodNodes(fs)
    /\ todo \in Seq(NonRoot) /\ stack \in Seq(Frames) /\ entries \in Seq(Listed)
    /\ permissions \in SUBSET ModeBits
    /\ written \in Seq(EntryRecords)
    /\ step \in {"walk", "list", "head", "body", "done"}
    /\ step = "list" => stack # <<>>
    /\ built \in {"none", "Ok", "Io", "PathTooLong"}
    /\ changes \in Nat

LEMMA LastOf ==
    ASSUME NEW S, NEW seq \in Seq(S), seq # <<>>
    PROVE  /\ Len(seq) \in Nat \ {0} /\ Last(seq) = seq[Len(seq)] /\ Last(seq) \in S
           /\ Front(seq) \in Seq(S) /\ Len(Front(seq)) = Len(seq) - 1
           /\ \A k \in 1..(Len(seq) - 1) : Front(seq)[k] = seq[k]
<1>1. Len(seq) \in Nat \ {0}
  BY EmptySeq
<1>2. Len(seq) - 1 \in 0..Len(seq) /\ Len(seq) \in DOMAIN seq
  BY <1>1
<1>3. Last(seq) = seq[Len(seq)] /\ Last(seq) \in S
  BY <1>2 DEF Last
<1> DEFINE n == Len(seq) - 1
<1>4. n \in Nat /\ n \in Int /\ \A k \in 1..n : seq[k] \in S
  BY <1>1
<1> HIDE DEF n
<1>5. /\ SubSeq(seq, 1, n) \in Seq(S)
      /\ Len(SubSeq(seq, 1, n)) = IF 1 <= n THEN n - 1 + 1 ELSE 0
      /\ \A k \in 1..(n - 1 + 1) : SubSeq(seq, 1, n)[k] = seq[1 + k - 1]
  BY <1>4, SubSeqProperties
<1>6. /\ Len(SubSeq(seq, 1, n)) = n
      /\ \A k \in 1..n : SubSeq(seq, 1, n)[k] = seq[k]
  BY <1>4, <1>5
<1>7. Front(seq) = SubSeq(seq, 1, n)
  BY DEF Front, n
<1> QED BY <1>1, <1>3, <1>5, <1>6, <1>7 DEF n

LEMMA FrontOfAppend ==
    ASSUME NEW S, NEW seq \in Seq(S), NEW x \in S
    PROVE  /\ Append(seq, x) \in Seq(S) /\ Append(seq, x) # <<>>
           /\ Len(Append(seq, x)) = Len(seq) + 1
           /\ Last(Append(seq, x)) = x /\ Front(Append(seq, x)) = seq
<1> DEFINE longer == Append(seq, x)
<1>1. /\ longer \in Seq(S) /\ Len(longer) = Len(seq) + 1 /\ longer[Len(seq) + 1] = x
      /\ \A k \in 1..Len(seq) : longer[k] = seq[k]
      /\ Len(seq) \in Nat
  BY AppendProperties
<1> HIDE DEF longer
<1>2. longer # <<>>
  BY <1>1, EmptySeq
<1>3. /\ Last(longer) = x /\ Front(longer) \in Seq(S) /\ Len(Front(longer)) = Len(seq)
      /\ \A k \in 1..Len(seq) : Front(longer)[k] = seq[k]
  BY <1>1, <1>2, LastOf
<1>4. Front(longer) = seq
  BY <1>3, SeqEqual
<1> QED BY <1>1, <1>2, <1>3, <1>4 DEF longer

LEMMA ChangedFacts ==
    ASSUME NEW t, NEW c
    PROVE  /\ \A p \in DOMAIN Changed(t, c) :
                 \/ p \in DOMAIN t /\ c.path \notin UpTo(p) /\ Changed(t, c)[p] = t[p]
                 \/ p = c.path /\ c.node # Absent /\ Changed(t, c)[p] = c.node
           /\ \A p \in DOMAIN t :
                 c.path \notin UpTo(p) => p \in DOMAIN Changed(t, c) /\ Changed(t, c)[p] = t[p]
<1>1. c.path \in UpTo(c.path)
  BY DEF UpTo
<1> QED BY <1>1 DEF Changed

LEMMA ChangedNodes ==
    ASSUME NEW t, GoodNodes(t), NEW c, c.path \in Seq(Names), c.node \in Nodes \cup {Absent}
    PROVE  GoodNodes(Changed(t, c))
  BY ChangedFacts DEF GoodNodes

Walking == VisitSelected \/ VisitChild \/ List \/ Leave
Writing == WriteCount \/ WriteHead \/ WriteBody \/ WriteEnds \/ WriterFails

\* The tree changes, and nothing else that the walk and the entries depend on.
TreeChanges(c) ==
    /\ fs' = Changed(fs, c)
    /\ UNCHANGED <<source, todo, stack, entries, warnings, permissions, written, step, built>>

NewTmp == [path |-> Tmp, node |-> File(Unfinished, {"r", "w"})]
NoTmp == [path |-> Tmp, node |-> Absent]

\* What a step of encrypt_paths may be to the walk and the entries.
LEMMA StepKinds ==
    ASSUME [PathsNext]_pathsVars
    PROVE  \/ stage = "build" /\ (Walking \/ Writing)
           \/ stage = "create" /\ TreeChanges(NewTmp) /\ UNCHANGED changes
           \/ stage = "drop" /\ TreeChanges(NoTmp) /\ UNCHANGED changes
           \/ stage = "build" /\ OthersChange
           \/ UNCHANGED buildVars
<1>1. CASE CreateTmp
  BY <1>1 DEF CreateTmp, TreeChanges, NewTmp, buildVars
<1>2. CASE Build(BuildProceeds) \/ Build(WriterFails) \/ Build(OthersChange)
  BY <1>2 DEF Build, BuildProceeds, Walking, Writing
<1>3. CASE BuildReturned \/ Encrypt \/ Kill \/ UNCHANGED pathsVars
  BY <1>3 DEF BuildReturned, Encrypt, Kill, pathsVars
<1>4. CASE Drop
  BY <1>4 DEF Drop, TreeChanges, NoTmp, buildVars
<1> QED BY <1>1, <1>2, <1>3, <1>4 DEF PathsNext, PathsProceed

LEMMA TmpIsPath == Tmp \in Seq(Names) /\ NewTmp.node \in Nodes
  BY PathsAssumption, FrontOfAppend, NewNodes DEF Tmp, NewTmp, ModeBits

LEMMA TreeChangesTypes ==
    ASSUME BuildTypes, NEW c, c.path \in Seq(Names), c.node \in Nodes \cup {Absent},
           TreeChanges(c), changes' \in Nat
    PROVE  BuildTypes'
<1>1. GoodNodes(Changed(fs, c))
  BY ChangedNodes DEF BuildTypes
<1>2. GoodNodes(fs')
  BY <1>1 DEF TreeChanges
<1>3. GoodNodes(fs)'
  BY <1>2 DEF GoodNodes
<1> QED BY <1>3 DEF BuildTypes, TreeChanges

\* A path that is looked at: what it does to the list and to the open directories.
LEMMA VisitTypes ==
    ASSUME BuildTypes, NEW abs \in NonRoot, NEW rel \in NonRoot, NEW below \in Seq(Frames),
           Visit(abs, rel, below), todo' \in Seq(NonRoot)
    PROVE  BuildTypes'
<1>1. /\ UNCHANGED <<fs, source, permissions, written, built, changes>>
  BY DEF Visit
<1>2. [abs |-> abs, rel |-> rel, names |-> {}] \in Frames
  BY DEF Frames
<1>3. ASSUME NEW dir \in BOOLEAN PROVE [rel |-> rel, abs |-> abs, dir |-> dir] \in Listed
  BY DEF Listed
<1>4. /\ stack' \in Seq(Frames) /\ entries' \in Seq(Listed) /\ step' \in {"walk", "list"}
      /\ step' = "list" => stack' # <<>>
  <2>1. CASE Ignored(fs, abs)
    BY <2>1 DEF Visit, BuildTypes
  <2>2. CASE ~Ignored(fs, abs)
    <3> DEFINE dir == fs[abs].kind = "dir"
    <3>1. dir \in BOOLEAN /\ Entered(abs, rel, dir, below)
      BY <2>2 DEF Visit
    <3> HIDE DEF dir
    <3>2. entries' = Append(entries, [rel |-> rel, abs |-> abs, dir |-> dir])
      BY <3>1 DEF Entered
    <3>3. entries' \in Seq(Listed)
      BY <1>3, <3>1, <3>2 DEF BuildTypes
    <3>4. /\ stack' \in Seq(Frames) /\ step' \in {"walk", "list"}
          /\ step' = "list" => stack' # <<>>
      BY <1>2, <3>1, AppendProperties DEF Entered
    <3> QED BY <3>3, <3>4
  <2> QED BY <2>1, <2>2
<1> QED BY <1>1, <1>4 DEF BuildTypes, GoodNodes

\* The top of the open directories.
LEMMA TopFrame ==
    ASSUME BuildTypes, stack # <<>>
    PROVE  /\ Last(stack) \in Frames /\ Front(stack) \in Seq(Frames)
           /\ Last(stack).abs \in NonRoot /\ Last(stack).rel \in NonRoot
           /\ Len(stack) \in Nat \ {0} /\ Last(stack) = stack[Len(stack)]
           /\ Len(Front(stack)) = Len(stack) - 1
           /\ \A k \in 1..(Len(stack) - 1) : Front(stack)[k] = stack[k]
           /\ \A names \in SUBSET Names :
                 /\ [Last(stack) EXCEPT !.names = names] \in Frames
                 /\ [Last(stack) EXCEPT !.names = names].abs = Last(stack).abs
                 /\ [Last(stack) EXCEPT !.names = names].rel = Last(stack).rel
                 /\ [Last(stack) EXCEPT !.names = names].names = names
<1>1. stack \in Seq(Frames)
  BY DEF BuildTypes
<1>2. /\ Last(stack) \in Frames /\ Front(stack) \in Seq(Frames)
      /\ Len(stack) \in Nat \ {0} /\ Last(stack) = stack[Len(stack)]
      /\ Len(Front(stack)) = Len(stack) - 1
      /\ \A k \in 1..(Len(stack) - 1) : Front(stack)[k] = stack[k]
  BY <1>1, LastOf
<1>3. ASSUME NEW f \in Frames, NEW names \in SUBSET Names
      PROVE  /\ [f EXCEPT !.names = names] \in Frames
             /\ [f EXCEPT !.names = names].abs = f.abs
             /\ [f EXCEPT !.names = names].rel = f.rel
             /\ [f EXCEPT !.names = names].names = names
  BY DEF Frames
<1>4. Last(stack).abs \in NonRoot /\ Last(stack).rel \in NonRoot
  BY <1>2 DEF Frames
<1> QED BY <1>2, <1>3, <1>4

\* The open directories below the one on top, and this without one of its names.
Without(name) == Append(Front(stack), [Last(stack) EXCEPT !.names = @ \ {name}])

LEMMA ChildVisited ==
    ASSUME BuildTypes, VisitChild
    PROVE  /\ step = "walk" /\ stack # <<>> /\ todo' = todo
           /\ \E name \in Last(stack).names :
                 /\ name \in Names /\ IsFirst(name, Last(stack).names)
                 /\ Append(Last(stack).abs, name) \in NonRoot
                 /\ Append(Last(stack).rel, name) \in NonRoot
                 /\ Without(name) \in Seq(Frames)
                 /\ Visit(Append(Last(stack).abs, name), Append(Last(stack).rel, name),
                          Without(name))
<1>1. /\ step = "walk" /\ stack # <<>> /\ todo' = todo
  BY DEF VisitChild
<1>2. PICK name \in Last(stack).names :
         /\ IsFirst(name, Last(stack).names)
         /\ Visit(Append(Last(stack).abs, name), Append(Last(stack).rel, name), Without(name))
  BY DEF VisitChild, Without
<1>3. /\ Last(stack) \in Frames /\ Front(stack) \in Seq(Frames)
      /\ Last(stack).abs \in NonRoot /\ Last(stack).rel \in NonRoot
  BY <1>1, TopFrame
<1>4. name \in Names /\ Last(stack).names \ {name} \in SUBSET Names
  BY <1>3 DEF Frames
<1>5. Append(Last(stack).abs, name) \in NonRoot /\ Append(Last(stack).rel, name) \in NonRoot
  BY <1>3, <1>4, FrontOfAppend DEF NonRoot
<1>6. Without(name) \in Seq(Frames)
  <2>1. [Last(stack) EXCEPT !.names = Last(stack).names \ {name}] \in Frames
    BY <1>1, <1>4, TopFrame
  <2> QED BY <1>3, <2>1 DEF Without
<1> QED BY <1>1, <1>2, <1>4, <1>5, <1>6

LEMMA SelectedVisited ==
    ASSUME BuildTypes, VisitSelected
    PROVE  /\ step = "walk" /\ stack = <<>> /\ todo # <<>>
           /\ Len(todo) \in Nat \ {0} /\ Head(todo) = todo[1]
           /\ todo' = Tail(todo) /\ Tail(todo) \in Seq(NonRoot)
           /\ Len(Tail(todo)) = Len(todo) - 1
           /\ \A k \in 1..(Len(todo) - 1) : Tail(todo)[k] = todo[k + 1]
           /\ Head(todo) \in NonRoot /\ Last(Head(todo)) \in Names
           /\ <<Last(Head(todo))>> \in NonRoot
           /\ Visit(Head(todo), <<Last(Head(todo))>>, <<>>)
<1>1. /\ step = "walk" /\ stack = <<>> /\ todo # <<>>
      /\ todo' = Tail(todo) /\ Visit(Head(todo), <<Last(Head(todo))>>, <<>>)
  BY DEF VisitSelected
<1>2. todo \in Seq(NonRoot)
  BY DEF BuildTypes
<1>3. /\ Tail(todo) \in Seq(NonRoot) /\ Len(todo) \in Nat \ {0} /\ Head(todo) = todo[1]
      /\ Len(Tail(todo)) = Len(todo) - 1
      /\ \A k \in 1..(Len(todo) - 1) : Tail(todo)[k] = todo[k + 1]
  BY <1>1, <1>2, EmptySeq, HeadTailProperties
<1>4. Head(todo) \in NonRoot
  BY <1>2, <1>3
<1>5. Last(Head(todo)) \in Names
  BY <1>4, LastOf DEF NonRoot
<1>6. <<Last(Head(todo))>> \in Seq(Names) /\ <<Last(Head(todo))>> # <<>>
  BY <1>5
<1> QED BY <1>1, <1>3, <1>4, <1>5, <1>6 DEF NonRoot

LEMMA WalkingTypes ==
    ASSUME BuildTypes, Walking
    PROVE  BuildTypes'
<1>1. CASE VisitSelected
  <2>1. todo' \in Seq(NonRoot) /\ <<>> \in Seq(Frames)
    BY <1>1, SelectedVisited
  <2> QED BY <1>1, <2>1, SelectedVisited, VisitTypes
<1>2. CASE VisitChild
  <2>1. todo' \in Seq(NonRoot)
    BY <1>2, ChildVisited DEF BuildTypes
  <2> QED BY <1>2, <2>1, ChildVisited, VisitTypes
<1>3. CASE List
  <2>1. step = "list" /\ stack # <<>>
    BY <1>3 DEF List, BuildTypes
  <2>2. CASE CanList(Last(stack).abs)
    <3>1. ChildNames(fs, Last(stack).abs) \in SUBSET Names
      BY DEF ChildNames
    <3>2. [Last(stack) EXCEPT !.names = ChildNames(fs, Last(stack).abs)] \in Frames
      BY <2>1, <3>1, TopFrame
    <3>3. stack' \in Seq(Frames) /\ step' = "walk" /\ built' = built
      BY <1>3, <2>1, <2>2, <3>2, TopFrame DEF List
    <3> QED BY <1>3, <3>3 DEF List, BuildTypes, GoodNodes
  <2>3. CASE ~CanList(Last(stack).abs)
    BY <1>3, <2>3 DEF List, Failing, BuildTypes, GoodNodes
  <2> QED BY <2>2, <2>3
<1>4. CASE Leave
  <2>1. stack' \in Seq(Frames) /\ step' = step /\ step = "walk"
    BY <1>4, TopFrame DEF Leave
  <2> QED BY <1>4, <2>1 DEF Leave, BuildTypes, GoodNodes
<1> QED BY <1>1, <1>2, <1>3, <1>4 DEF Walking

\* The entry that is written.
LEMMA EntryAtHand ==
    ASSUME BuildTypes, Len(written) < Len(entries)
    PROVE  /\ Entry \in Listed /\ Len(written) + 1 \in DOMAIN entries
           /\ Len(written) \in Nat /\ Len(entries) \in Nat
<1>1. entries \in Seq(Listed) /\ Len(written) \in Nat
  BY DEF BuildTypes
<1>2. Len(written) + 1 \in 1..Len(entries)
  BY <1>1
<1> QED BY <1>1, <1>2 DEF Entry

LEMMA ModeIsMode ==
    ASSUME GoodNodes(fs), NEW p
    PROVE  ModeAt(p) \in SUBSET ModeBits
  BY NewNodes DEF ModeAt, Reachable, GoodNodes, Nodes

LEMMA EntryWritten ==
    ASSUME NEW e \in Listed, NEW mode \in SUBSET ModeBits,
           NEW content \in Contents \cup {NoContent}, NEW size \in Nat
    PROVE  /\ AsWritten(e, mode, content, size) \in EntryRecords
           /\ AsWritten(e, mode, content, size).path = e.rel
           /\ AsWritten(e, mode, content, size).type = IF e.dir THEN 1 ELSE 0
           /\ AsWritten(e, mode, content, size).content = content
<1>1. e.rel \in Seq(Components)
  <2>1. e.rel \in Seq(Names)
    BY DEF Listed, NonRoot
  <2>2. Names \subseteq Components
    BY DEF Components
  <2> QED BY <2>1, <2>2
<1> QED BY <1>1 DEF AsWritten, EntryRecords

\* What a step that writes does to the entries in the archive.
LEMMA WritingCases ==
    ASSUME BuildTypes, Writing, step = "body" => Len(written) < Len(entries)
    PROVE  /\ UNCHANGED <<fs, source, todo, stack, entries, warnings, changes>>
           /\ permissions' \in SUBSET ModeBits
           /\ \/ written' = written
              \/ /\ step = "head" /\ Len(written) < Len(entries) /\ Entry.dir
                 /\ step' = "head" /\ built' = built
                 /\ \E mode \in SUBSET ModeBits :
                       written' = Append(written, AsWritten(Entry, mode, NoContent, 0))
              \/ /\ step = "body" /\ step' = "head" /\ built' = built
                 /\ Holds(Entry.abs) /\ fs[Entry.abs].content \in Contents
                 /\ written' = Append(written,
                                 AsWritten(Entry, permissions, fs[Entry.abs].content,
                                           StoredLen[fs[Entry.abs].content]))
           /\ \/ step' = step /\ built' = built
              \/ step' = "head" /\ step \in {"walk", "body"} /\ built' = built
                 /\ (step = "walk" => stack = <<>> /\ todo = <<>> /\ written' = written)
              \/ /\ step = "head" /\ step' = "body" /\ Len(written) < Len(entries)
                 /\ ~Entry.dir /\ built' = built /\ written' = written
              \/ /\ step \in {"head", "body"} /\ step' = "done" /\ written' = written
                 /\ built' \in {"Ok", "Io", "PathTooLong"}
                 /\ built' = "Ok" => Len(written) = Len(entries)
<1> USE DEF BuildTypes
<1>1. CASE WriteCount
  BY <1>1 DEF WriteCount
<1>2. CASE WriteHead
  <2>1. GoodNodes(fs) /\ ModeAt(Entry.abs) \in SUBSET ModeBits
    BY ModeIsMode
  <2> QED BY <1>2, <2>1 DEF WriteHead, Failing
<1>3. CASE WriteBody
  <2>1. Holds(Entry.abs) => fs[Entry.abs].content \in Contents
    BY DEF Holds, Reachable, GoodNodes, Nodes
  <2> QED BY <1>3, <2>1 DEF WriteBody, Failing
<1>4. CASE WriteEnds \/ WriterFails
  BY <1>4 DEF WriteEnds, WriterFails, Failing
<1> QED BY <1>1, <1>2, <1>3, <1>4 DEF Writing

LEMMA WritingTypes ==
    ASSUME BuildTypes, Writing, step = "body" => Len(written) < Len(entries)
    PROVE  BuildTypes'
<1>1. written' \in Seq(EntryRecords)
  <2>1. CASE written' = written
    BY <2>1 DEF BuildTypes
  <2>2. ASSUME Len(written) < Len(entries), NEW mode \in SUBSET ModeBits,
               written' = Append(written, AsWritten(Entry, mode, NoContent, 0))
        PROVE  written' \in Seq(EntryRecords)
    <3>1. AsWritten(Entry, mode, NoContent, 0) \in EntryRecords
      BY <2>2, EntryAtHand, EntryWritten
    <3> QED BY <2>2, <3>1 DEF BuildTypes
  <2>3. ASSUME Len(written) < Len(entries), NEW c \in Contents,
               written' = Append(written, AsWritten(Entry, permissions, c, StoredLen[c]))
        PROVE  written' \in Seq(EntryRecords)
    <3>1. StoredLen[c] \in Nat
      BY ContentAssumption
    <3>2. AsWritten(Entry, permissions, c, StoredLen[c]) \in EntryRecords
      BY <2>3, <3>1, EntryAtHand, EntryWritten DEF BuildTypes
    <3> QED BY <2>3, <3>2 DEF BuildTypes
  <2> QED BY <2>1, <2>2, <2>3, WritingCases
<1>2. /\ UNCHANGED <<fs, source, todo, stack, entries, changes>>
      /\ permissions' \in SUBSET ModeBits
  BY WritingCases
<1>3. /\ step' \in {"walk", "list", "head", "body", "done"}
      /\ step' = "list" => step = "list"
      /\ built' \in {"none", "Ok", "Io", "PathTooLong"}
  BY WritingCases DEF BuildTypes
<1> QED BY <1>1, <1>2, <1>3 DEF BuildTypes, GoodNodes

\* What has been written is the beginning of the list, which is complete by then.
WrittenInv ==
    /\ Len(written) <= Len(entries)
    /\ \A k \in DOMAIN written :
          /\ written[k].path = entries[k].rel
          /\ written[k].type = IF entries[k].dir THEN 1 ELSE 0
          /\ written[k].type = 0 => written[k].content \in Contents
    /\ step \in {"walk", "list"} => written = <<>>
    /\ step = "body" => Len(written) < Len(entries) /\ ~Entry.dir
    /\ step \in {"head", "body"} \/ built = "Ok" => todo = <<>> /\ stack = <<>>
    /\ built = "Ok" => Len(written) = Len(entries)
    /\ step # "done" <=> built = "none"

LEMMA WalkingLeaves ==
    ASSUME Walking
    PROVE  /\ step \in {"walk", "list"}
           /\ UNCHANGED <<fs, source, permissions, written, changes>>
           /\ \/ step' \in {"walk", "list"} /\ built' = built
              \/ step' = "done" /\ built' = "Io"
  BY DEF Walking, VisitSelected, VisitChild, List, Leave, Visit, Entered, Failing

\* One more entry is written, with the path and type of the entry at hand.
LEMMA OneMoreWritten ==
    ASSUME BuildTypes, WrittenInv, Len(written) < Len(entries), entries' = entries,
           NEW w \in EntryRecords, written' = Append(written, w),
           w.path = Entry.rel, w.type = IF Entry.dir THEN 1 ELSE 0,
           w.type = 0 => w.content \in Contents
    PROVE  /\ Len(written') <= Len(entries')
           /\ \A k \in DOMAIN written' :
                 /\ written'[k].path = entries'[k].rel
                 /\ written'[k].type = IF entries'[k].dir THEN 1 ELSE 0
                 /\ written'[k].type = 0 => written'[k].content \in Contents
<1>1. /\ Len(written) \in Nat /\ Len(entries) \in Nat /\ written \in Seq(EntryRecords)
      /\ Entry = entries[Len(written) + 1]
  BY DEF BuildTypes, Entry
<1>2. /\ Len(written') = Len(written) + 1 /\ written'[Len(written) + 1] = w
      /\ \A k \in 1..Len(written) : written'[k] = written[k]
      /\ DOMAIN written' = 1..(Len(written) + 1)
  BY <1>1, AppendProperties
<1>3. \A k \in DOMAIN written' : k \in DOMAIN written \/ k = Len(written) + 1
  BY <1>1, <1>2
<1>4. \A k \in DOMAIN written : k \in 1..Len(written)
  BY <1>1
<1> QED BY <1>1, <1>2, <1>3, <1>4 DEF WrittenInv

LEMMA WrittenKept ==
    ASSUME BuildTypes, WrittenInv, [PathsNext]_pathsVars
    PROVE  WrittenInv'
<1>1. CASE Walking
  <2>1. written = <<>> /\ written' = <<>> /\ built = "none"
    BY <1>1, WalkingLeaves DEF WrittenInv
  <2>2. Len(entries)' \in Nat
    BY <1>1, WalkingTypes DEF BuildTypes
  <2>3. Len(written') = 0 /\ DOMAIN written' = {}
    BY <2>1
  <2> QED BY <1>1, <2>1, <2>2, <2>3, WalkingLeaves DEF WrittenInv
<1>2. CASE Writing
  <2>1. step = "body" => Len(written) < Len(entries) /\ ~Entry.dir
    BY DEF WrittenInv
  <2>2. /\ UNCHANGED <<todo, stack, entries>>
        /\ \/ written' = written
           \/ Len(written) < Len(entries) /\ \E w \in EntryRecords :
                 /\ written' = Append(written, w)
                 /\ w.path = Entry.rel /\ w.type = IF Entry.dir THEN 1 ELSE 0
                 /\ w.type = 0 => w.content \in Contents
    <3>1. ASSUME step = "head", Len(written) < Len(entries), Entry.dir,
                 NEW mode \in SUBSET ModeBits,
                 written' = Append(written, AsWritten(Entry, mode, NoContent, 0))
          PROVE  \E w \in EntryRecords :
                    /\ written' = Append(written, w)
                    /\ w.path = Entry.rel /\ w.type = IF Entry.dir THEN 1 ELSE 0
                    /\ w.type = 0 => w.content \in Contents
      BY <3>1, EntryAtHand, EntryWritten
    <3>2. ASSUME step = "body", NEW c \in Contents,
                 written' = Append(written, AsWritten(Entry, permissions, c, StoredLen[c]))
          PROVE  \E w \in EntryRecords :
                    /\ written' = Append(written, w)
                    /\ w.path = Entry.rel /\ w.type = IF Entry.dir THEN 1 ELSE 0
                    /\ w.type = 0 => w.content \in Contents
      <4>1. StoredLen[c] \in Nat /\ permissions \in SUBSET ModeBits
        BY ContentAssumption DEF BuildTypes
      <4> QED BY <2>1, <3>2, <4>1, EntryAtHand, EntryWritten
    <3> QED BY <1>2, <2>1, <3>1, <3>2, WritingCases
  <2>3. /\ Len(written') <= Len(entries')
        /\ \A k \in DOMAIN written' :
              /\ written'[k].path = entries'[k].rel
              /\ written'[k].type = IF entries'[k].dir THEN 1 ELSE 0
              /\ written'[k].type = 0 => written'[k].content \in Contents
    <3>1. CASE written' = written
      BY <2>2, <3>1 DEF WrittenInv
    <3>2. CASE written' # written
      BY <2>2, <3>2, OneMoreWritten
    <3> QED BY <3>1, <3>2
  <2>4. /\ step' \notin {"walk", "list"} /\ (step' # "done" <=> built' = "none")
        /\ step' \in {"head", "body"} \/ built' = "Ok" => todo' = <<>> /\ stack' = <<>>
        /\ built' = "Ok" => Len(written') = Len(entries')
        /\ step' = "body" => Len(written') < Len(entries') /\ ~Entry'.dir
    BY <1>2, <2>1, <2>2 DEF Writing, WriteCount, WriteHead, WriteBody, WriteEnds, WriterFails,
       Failing, WrittenInv, Entry
  <2> QED BY <2>3, <2>4 DEF WrittenInv
<1>3. ASSUME UNCHANGED <<todo, stack, entries, written, step, built>>
      PROVE  WrittenInv'
  BY <1>3 DEF WrittenInv, Entry
<1>4. CASE OthersChange \/ UNCHANGED buildVars
  BY <1>3, <1>4 DEF OthersChange, buildVars
<1> QED BY <1>1, <1>2, <1>3, <1>4, StepKinds DEF TreeChanges

\* A directory is listed before anything in it, and before it is entered.
IsListed(rel, n) == \E j \in 1..n : entries[j].dir /\ entries[j].rel = rel

ParentsInv ==
    /\ \A k \in DOMAIN entries :
          Len(entries[k].rel) > 1 => IsListed(Front(entries[k].rel), k - 1)
    /\ \A i \in DOMAIN stack : IsListed(stack[i].rel, Len(entries))

\* What the list is after one more path, entered or not.
LEMMA OneMoreListed ==
    ASSUME BuildTypes, NEW e \in Listed, entries' = Append(entries, e)
    PROVE  /\ Len(entries) \in Nat /\ Len(entries') = Len(entries) + 1
           /\ DOMAIN entries' = 1..(Len(entries) + 1)
           /\ entries'[Len(entries) + 1] = e
           /\ \A k \in 1..Len(entries) : entries'[k] = entries[k]
<1>1. entries \in Seq(Listed)
  BY DEF BuildTypes
<1>2. Append(entries, e) \in Seq(Listed)
  BY <1>1, AppendProperties
<1> QED BY <1>1, <1>2, AppendProperties

\* The open directories after it: those below, and the path if it is one.
LEMMA OneMoreOpen ==
    ASSUME NEW below \in Seq(Frames), NEW f \in Frames, stack' = Append(below, f)
    PROVE  /\ Len(below) \in Nat /\ DOMAIN stack' = 1..(Len(below) + 1)
           /\ Len(stack') = Len(below) + 1
           /\ stack'[Len(below) + 1] = f
           /\ \A i \in 1..Len(below) : stack'[i] = below[i]
<1>1. Append(below, f) \in Seq(Frames)
  BY AppendProperties
<1> QED BY <1>1, AppendProperties

LEMMA VisitParents ==
    ASSUME BuildTypes, ParentsInv, NEW abs \in NonRoot, NEW rel \in NonRoot,
           NEW below \in Seq(Frames), Visit(abs, rel, below),
           Len(rel) > 1 => IsListed(Front(rel), Len(entries)),
           \A i \in DOMAIN below : IsListed(below[i].rel, Len(entries))
    PROVE  ParentsInv'
<1> DEFINE dir == fs[abs].kind = "dir"
           f == [abs |-> abs, rel |-> rel, names |-> {}]
           e == [rel |-> rel, abs |-> abs, dir |-> dir]
<1>1. CASE Ignored(fs, abs)
  <2>1. entries' = entries /\ stack' = below
    BY <1>1 DEF Visit
  <2> QED BY <2>1 DEF ParentsInv, IsListed
<1>2. CASE ~Ignored(fs, abs)
  <2>1. /\ entries' = Append(entries, e)
        /\ dir => stack' = Append(below, f)
        /\ ~dir => stack' = below
    BY <1>2 DEF Visit, Entered
  <2>2. /\ e \in Listed /\ f \in Frames /\ e.rel = rel /\ f.rel = rel
        /\ e.dir <=> dir
    BY DEF Listed, Frames
  <2> HIDE DEF e, f, dir
  <2>3. /\ Len(entries) \in Nat /\ Len(entries') = Len(entries) + 1
        /\ DOMAIN entries' = 1..(Len(entries) + 1)
        /\ entries'[Len(entries) + 1] = e
        /\ \A k \in 1..Len(entries) : entries'[k] = entries[k]
    BY <2>1, <2>2, OneMoreListed
  <2> DEFINE StillListed(r, n) == \E j \in 1..n : entries'[j].dir /\ entries'[j].rel = r
  <2>4. ASSUME NEW r, NEW n \in 0..Len(entries), IsListed(r, n)
        PROVE  StillListed(r, n) /\ StillListed(r, n + 1)
    <3>1. PICK j \in 1..n : entries[j].dir /\ entries[j].rel = r
      BY <2>4 DEF IsListed
    <3>2. j \in 1..Len(entries) /\ j \in 1..(n + 1)
      BY <2>3
    <3> QED BY <2>3, <3>1, <3>2
  <2>5. ASSUME NEW k \in DOMAIN entries', Len(entries'[k].rel) > 1
        PROVE  StillListed(Front(entries'[k].rel), k - 1)
    <3>1. CASE k = Len(entries) + 1
      <4>1. entries'[k].rel = rel /\ k - 1 = Len(entries) /\ Len(entries) \in 0..Len(entries)
        BY <2>2, <2>3, <3>1
      <4> QED BY <2>4, <2>5, <4>1
    <3>2. CASE k # Len(entries) + 1
      <4>1. k \in 1..Len(entries) /\ k - 1 \in 0..Len(entries) /\ k \in DOMAIN entries
        BY <2>3, <3>2 DEF BuildTypes
      <4>2. entries'[k] = entries[k]
        BY <2>3, <4>1
      <4>3. IsListed(Front(entries[k].rel), k - 1)
        BY <2>5, <4>1, <4>2 DEF ParentsInv
      <4> QED BY <2>4, <4>1, <4>2, <4>3
    <3> QED BY <3>1, <3>2
  <2>6. ASSUME NEW i \in DOMAIN below PROVE StillListed(below[i].rel, Len(entries'))
    BY <2>3, <2>4, <2>6
  <2>7. dir => StillListed(rel, Len(entries'))
    <3>1. Len(entries) + 1 \in 1..Len(entries')
      BY <2>3
    <3> QED BY <2>2, <2>3, <3>1
  <2>8. ASSUME NEW i \in DOMAIN stack' PROVE StillListed(stack'[i].rel, Len(entries'))
    <3>1. CASE stack' = below
      BY <2>6, <2>8, <3>1
    <3>2. CASE dir /\ stack' = Append(below, f)
      <4>1. /\ Len(below) \in Nat /\ DOMAIN stack' = 1..(Len(below) + 1)
            /\ stack'[Len(below) + 1] = f
            /\ \A j \in 1..Len(below) : stack'[j] = below[j]
        BY <2>2, <3>2, OneMoreOpen
      <4>2. CASE i = Len(below) + 1
        BY <2>2, <2>7, <3>2, <4>1, <4>2
      <4>3. CASE i # Len(below) + 1
        <5>1. i \in 1..Len(below) /\ i \in DOMAIN below
          BY <2>8, <4>1, <4>3
        <5> QED BY <2>6, <4>1, <5>1
      <4> QED BY <4>2, <4>3
    <3> QED BY <2>1, <3>1, <3>2
  <2> QED BY <2>5, <2>8 DEF ParentsInv, IsListed
<1> QED BY <1>1, <1>2

\* The open directories once a child of the one on top has been taken.
LEMMA WithoutFacts ==
    ASSUME BuildTypes, stack # <<>>, NEW name
    PROVE  /\ Without(name) \in Seq(Frames) /\ Len(Without(name)) = Len(stack)
           /\ DOMAIN Without(name) = 1..Len(stack) /\ Len(stack) \in DOMAIN stack
           /\ Without(name)[Len(stack)].abs = Last(stack).abs
           /\ Without(name)[Len(stack)].rel = Last(stack).rel
           /\ Without(name)[Len(stack)].names = Last(stack).names \ {name}
           /\ \A k \in DOMAIN stack : k # Len(stack) => Without(name)[k] = stack[k]
<1> DEFINE top == [Last(stack) EXCEPT !.names = @ \ {name}]
<1> DEFINE front == Front(stack)
<1>1. /\ Last(stack) \in Frames /\ front \in Seq(Frames)
      /\ Len(stack) \in Nat \ {0} /\ Len(front) = Len(stack) - 1
      /\ \A k \in 1..(Len(stack) - 1) : front[k] = stack[k]
  BY TopFrame
<1>0. DOMAIN stack = 1..Len(stack)
  BY DEF BuildTypes
<1>2. /\ top \in Frames /\ top.rel = Last(stack).rel /\ top.abs = Last(stack).abs
      /\ top.names = Last(stack).names \ {name}
  <2>1. Last(stack).names \ {name} \in SUBSET Names
    BY <1>1 DEF Frames
  <2> QED BY <2>1, TopFrame
<1> DEFINE after == Without(name)
<1>3. after = Append(front, top)
  BY DEF Without
<1> HIDE DEF top, front, after
<1>4. /\ after \in Seq(Frames) /\ Len(after) = Len(front) + 1
      /\ after[Len(front) + 1] = top
      /\ \A k \in 1..Len(front) : after[k] = front[k]
  BY <1>1, <1>2, <1>3, AppendProperties
<1>5. Len(front) + 1 = Len(stack) /\ 1..Len(front) = 1..(Len(stack) - 1)
  BY <1>1
<1>6. \A k \in DOMAIN stack : k # Len(stack) => k \in 1..(Len(stack) - 1)
  BY <1>0, <1>1
<1>7. DOMAIN after = 1..Len(stack) /\ Len(stack) \in DOMAIN stack
  BY <1>0, <1>1, <1>4, <1>5
<1>8. after[Len(stack)] = top /\ \A k \in DOMAIN stack : k # Len(stack) => after[k] = stack[k]
  BY <1>1, <1>4, <1>5, <1>6
<1> QED BY <1>2, <1>4, <1>5, <1>7, <1>8 DEF after

LEMMA ListFacts ==
    ASSUME BuildTypes, List
    PROVE  /\ UNCHANGED <<fs, source, todo, entries, changes>>
           /\ step = "list" /\ stack # <<>> /\ Len(stack) \in Nat \ {0}
           /\ DOMAIN stack = 1..Len(stack) /\ Last(stack) = stack[Len(stack)]
           /\ \/ /\ CanList(Last(stack).abs) /\ step' = "walk" /\ built' = built
                 /\ Len(stack') = Len(stack) /\ DOMAIN stack' = DOMAIN stack
                 /\ stack'[Len(stack)].abs = Last(stack).abs
                 /\ stack'[Len(stack)].rel = Last(stack).rel
                 /\ stack'[Len(stack)].names = ChildNames(fs, Last(stack).abs)
                 /\ \A k \in DOMAIN stack : k # Len(stack) => stack'[k] = stack[k]
              \/ stack' = stack /\ built' = "Io" /\ step' = "done"
<1>1. /\ UNCHANGED <<fs, source, todo, entries, changes>> /\ step = "list" /\ stack # <<>>
      /\ stack \in Seq(Frames)
  BY DEF List, BuildTypes
<1> DEFINE front == Front(stack)
           names == ChildNames(fs, Last(stack).abs)
           top == [Last(stack) EXCEPT !.names = names]
<1>2. /\ front \in Seq(Frames) /\ Len(front) = Len(stack) - 1
      /\ Len(stack) \in Nat \ {0} /\ Last(stack) = stack[Len(stack)]
      /\ \A k \in 1..(Len(stack) - 1) : front[k] = stack[k]
  BY <1>1, TopFrame
<1>3. DOMAIN stack = 1..Len(stack)
  BY <1>1
<1>4. CASE CanList(Last(stack).abs)
  <2>1. names \in SUBSET Names
    BY DEF ChildNames
  <2>2. stack' = Append(front, top) /\ step' = "walk" /\ built' = built
    BY <1>4 DEF List
  <2> HIDE DEF names
  <2>3. /\ top \in Frames /\ top.abs = Last(stack).abs /\ top.rel = Last(stack).rel
        /\ top.names = names
    BY <1>1, <2>1, TopFrame
  <2> HIDE DEF front, top
  <2>4. /\ Len(front) \in Nat /\ DOMAIN stack' = 1..(Len(front) + 1)
        /\ Len(stack') = Len(front) + 1
        /\ stack'[Len(front) + 1] = top
        /\ \A i \in 1..Len(front) : stack'[i] = front[i]
    BY <1>2, <2>2, <2>3, OneMoreOpen
  <2>5. Len(front) + 1 = Len(stack) /\ 1..Len(front) = 1..(Len(stack) - 1)
    BY <1>2
  <2>6. \A k \in DOMAIN stack : k # Len(stack) => k \in 1..(Len(stack) - 1)
    BY <1>2, <1>3
  <2> QED BY <1>1, <1>2, <1>3, <1>4, <2>2, <2>3, <2>4, <2>5, <2>6 DEF names
<1>5. CASE ~CanList(Last(stack).abs)
  <2>1. stack' = stack /\ built' = "Io" /\ step' = "done"
    BY <1>5 DEF List, Failing
  <2> QED BY <1>1, <1>2, <1>3, <2>1
<1> QED BY <1>4, <1>5

LEMMA LeaveFacts ==
    ASSUME BuildTypes, Leave
    PROVE  /\ UNCHANGED <<fs, source, todo, entries, changes, step, built>>
           /\ step = "walk" /\ stack # <<>> /\ Last(stack).names = {}
           /\ Len(stack) \in Nat \ {0} /\ DOMAIN stack = 1..Len(stack)
           /\ Last(stack) = stack[Len(stack)]
           /\ DOMAIN stack' = 1..(Len(stack) - 1)
           /\ \A k \in DOMAIN stack' : k \in DOMAIN stack /\ stack'[k] = stack[k]
<1>1. /\ UNCHANGED <<fs, source, todo, entries, changes, step, built>>
      /\ step = "walk" /\ stack # <<>> /\ Last(stack).names = {}
      /\ stack' = Front(stack)
  BY DEF Leave
<1>2. /\ Len(stack) \in Nat \ {0} /\ Last(stack) = stack[Len(stack)]
      /\ stack' \in Seq(Frames) /\ Len(stack') = Len(stack) - 1
      /\ \A i \in 1..(Len(stack) - 1) : stack'[i] = stack[i]
  BY <1>1, TopFrame
<1>3. DOMAIN stack = 1..Len(stack) /\ DOMAIN stack' = 1..(Len(stack) - 1)
  BY <1>2 DEF BuildTypes
<1>4. \A k \in DOMAIN stack' : k \in DOMAIN stack /\ stack'[k] = stack[k]
  BY <1>2, <1>3
<1> QED BY <1>1, <1>2, <1>3, <1>4

LEMMA ParentsKept ==
    ASSUME BuildTypes, ParentsInv, [PathsNext]_pathsVars
    PROVE  ParentsInv'
<1>1. CASE VisitSelected
  <2> DEFINE rel == <<Last(Head(todo))>>
             none == <<>>
  <2>1. /\ Head(todo) \in NonRoot /\ rel \in NonRoot /\ Visit(Head(todo), rel, none)
    BY <1>1, SelectedVisited
  <2>2. ~(Len(rel) > 1) /\ none \in Seq(Frames) /\ DOMAIN none = {}
    OBVIOUS
  <2> HIDE DEF rel, none
  <2> QED BY <2>1, <2>2, VisitParents
<1>2. CASE VisitChild
  <2>1. PICK name \in Last(stack).names :
           /\ name \in Names
           /\ Append(Last(stack).abs, name) \in NonRoot
           /\ Append(Last(stack).rel, name) \in NonRoot
           /\ Without(name) \in Seq(Frames)
           /\ Visit(Append(Last(stack).abs, name), Append(Last(stack).rel, name), Without(name))
    BY <1>2, ChildVisited
  <2>2. stack # <<>>
    BY <1>2, ChildVisited
  <2>3. /\ Len(stack) \in Nat \ {0} /\ Last(stack) = stack[Len(stack)]
        /\ Len(stack) \in DOMAIN stack /\ Last(stack).rel \in Seq(Names)
    BY <2>2, TopFrame DEF BuildTypes, NonRoot
  <2>4. Front(Append(Last(stack).rel, name)) = Last(stack).rel
    BY <2>1, <2>3, FrontOfAppend
  <2>5. IsListed(Last(stack).rel, Len(entries))
    BY <2>3 DEF ParentsInv
  <2>6. ASSUME NEW i \in DOMAIN Without(name)
        PROVE  IsListed(Without(name)[i].rel, Len(entries))
    <3>4. /\ DOMAIN Without(name) = 1..Len(stack)
          /\ Without(name)[Len(stack)].rel = Last(stack).rel
          /\ \A k \in DOMAIN stack : k # Len(stack) => Without(name)[k] = stack[k]
      BY <2>2, WithoutFacts
    <3>5. CASE i = Len(stack)
      BY <2>5, <3>4, <3>5
    <3>6. CASE i # Len(stack)
      <4>1. i \in DOMAIN stack
        BY <2>6, <3>4 DEF BuildTypes
      <4> QED BY <3>4, <3>6, <4>1 DEF ParentsInv
    <3> QED BY <3>5, <3>6
  <2> QED BY <2>1, <2>4, <2>5, <2>6, VisitParents
<1>3. CASE List
  <2>1. entries' = entries /\ DOMAIN stack' = DOMAIN stack
    BY <1>3, ListFacts
  <2>2. \A i \in DOMAIN stack' : stack'[i].rel = stack[i].rel
    BY <1>3, ListFacts
  <2> QED BY <2>1, <2>2 DEF ParentsInv, IsListed
<1>4. CASE Leave
  <2>1. entries' = entries /\ \A i \in DOMAIN stack' : i \in DOMAIN stack /\ stack'[i] = stack[i]
    BY <1>4, LeaveFacts
  <2> QED BY <2>1 DEF ParentsInv, IsListed
<1>5. ASSUME UNCHANGED <<stack, entries>> PROVE ParentsInv'
  BY <1>5 DEF ParentsInv, IsListed
<1>6. CASE Writing \/ OthersChange \/ UNCHANGED buildVars
  BY <1>5, <1>6 DEF Writing, WriteCount, WriteHead, WriteBody, WriteEnds, WriterFails,
                    OthersChange, buildVars
<1> QED BY <1>1, <1>2, <1>3, <1>4, <1>5, <1>6, StepKinds DEF Walking, TreeChanges

LEMMA ParentsFirst ==
    ASSUME BuildTypes, WrittenInv, ParentsInv
    PROVE  ParentsComeFirst
<1> SUFFICES ASSUME NEW k \in DOMAIN written, Len(written[k].path) > 1
             PROVE  \E j \in 1..(k - 1) :
                       written[j].type = 1 /\ written[j].path = Front(written[k].path)
  BY DEF ParentsComeFirst
<1>1. /\ DOMAIN written = 1..Len(written) /\ DOMAIN entries = 1..Len(entries)
      /\ Len(written) \in Nat /\ Len(entries) \in Nat /\ Len(written) <= Len(entries)
  BY DEF BuildTypes, WrittenInv
<1>2. written[k].path = entries[k].rel
  BY DEF WrittenInv
<1>3. PICK j \in 1..(k - 1) : entries[j].dir /\ entries[j].rel = Front(entries[k].rel)
  <2>1. k \in DOMAIN entries
    BY <1>1
  <2> QED BY <1>2, <2>1 DEF ParentsInv, IsListed
<1>4. j \in DOMAIN written
  BY <1>1
<1> QED BY <1>2, <1>3, <1>4 DEF WrittenInv

LEMMA BuildTypesKept ==
    ASSUME BuildTypes, WrittenInv, [PathsNext]_pathsVars
    PROVE  BuildTypes'
<1>1. CASE Walking
  BY <1>1, WalkingTypes
<1>2. CASE Writing
  BY <1>2, WritingTypes DEF WrittenInv
<1>3. ASSUME NEW c, c.path \in Seq(Names), c.node \in Nodes \cup {Absent}, TreeChanges(c),
             changes' = changes \/ changes' = changes + 1
      PROVE  BuildTypes'
  <2>1. changes' \in Nat
    BY <1>3 DEF BuildTypes
  <2> QED BY <1>3, <2>1, TreeChangesTypes
<1>4. CASE (TreeChanges(NewTmp) \/ TreeChanges(NoTmp)) /\ UNCHANGED changes
  <2>1. /\ NewTmp.path = Tmp /\ NoTmp.path = Tmp /\ Tmp \in Seq(Names)
        /\ NewTmp.node \in Nodes /\ NoTmp.node = Absent
    BY TmpIsPath DEF NewTmp, NoTmp
  <2> QED BY <1>3, <1>4, <2>1
<1>5. CASE OthersChange
  <2>1. PICK c \in Changes : fs' = Changed(fs, c)
    BY <1>5 DEF OthersChange
  <2>2. TreeChanges(c) /\ changes' = changes + 1
    BY <1>5, <2>1 DEF OthersChange, TreeChanges
  <2> QED BY <1>3, <2>2, SourceAssumption
<1>6. CASE UNCHANGED buildVars
  BY <1>6 DEF buildVars, BuildTypes, GoodNodes
<1> QED BY <1>1, <1>2, <1>4, <1>5, <1>6, StepKinds

-----------------------------------------------------------------------------
(* Building: what others leave alone.                                      *)

\* The way to a path on the way, and the next step of the way.
LEMMA WayOfWay ==
    ASSUME NEW p \in Seq(Names), NEW q \in UpTo(p), NEW r \in UpTo(q)
    PROVE  r \in UpTo(p) /\ Len(r) <= Len(q)
<1>1. q \in Seq(Names) /\ Len(q) \in 0..Len(p) /\ q = SubSeq(p, 1, Len(q))
  BY OnTheWay
<1>2. Len(r) \in 0..Len(q) /\ r = SubSeq(q, 1, Len(r))
  BY <1>1, OnTheWay
<1>3. Len(r) \in 0..Len(p) /\ Len(r) <= Len(q)
  BY <1>1, <1>2
<1>4. SubSeq(SubSeq(p, 1, Len(q)), 1, Len(r)) = SubSeq(p, 1, Len(r))
  BY <1>1, <1>2, PrefixOfPrefix
<1> QED BY <1>1, <1>2, <1>3, <1>4, AboveIsPrefix

LEMMA NextOnTheWay ==
    ASSUME NEW p \in Seq(Names), NEW q \in Above(p)
    PROVE  /\ q \in UpTo(p) /\ q \in Seq(Names) /\ Len(q) \in Nat /\ Len(q) < Len(p)
           /\ p[Len(q) + 1] \in Names
           /\ Append(q, p[Len(q) + 1]) \in UpTo(p)
           /\ \A n \in Names : q \in UpTo(Append(q, n))
<1>1. q \in UpTo(p)
  BY DEF UpTo
<1>2. PICK n \in 0..(Len(p) - 1) : q = SubSeq(p, 1, n)
  BY DEF Above
<1>3. /\ Len(p) \in Nat /\ n \in 0..Len(p) /\ n + 1 \in 0..Len(p)
      /\ n + 1 \in 1..Len(p) /\ 1..n \subseteq 1..(n + 1)
  BY <1>2
<1>4. q \in Seq(Names) /\ Len(q) = n /\ \A j \in 1..n : q[j] = p[j]
  BY <1>2, <1>3, Prefix
<1>5. p[n + 1] \in Names
  BY <1>3
<1> DEFINE child == Append(q, p[n + 1])
           prefix == SubSeq(p, 1, n + 1)
<1>6. /\ prefix \in Seq(Names) /\ Len(prefix) = n + 1
      /\ \A j \in 1..(n + 1) : prefix[j] = p[j]
  BY <1>3, Prefix
<1>7. /\ child \in Seq(Names) /\ Len(child) = n + 1 /\ child[n + 1] = p[n + 1]
      /\ \A j \in 1..n : child[j] = q[j]
  BY <1>4, <1>5, AppendProperties
<1>8. prefix \in UpTo(p)
  BY <1>3, AboveIsPrefix
<1> HIDE DEF child, prefix
<1>9. \A j \in 1..(n + 1) : child[j] = prefix[j]
  BY <1>3, <1>4, <1>6, <1>7
<1>10. child = prefix
  BY <1>6, <1>7, <1>9, SeqEqual
<1>11. ASSUME NEW name \in Names PROVE q \in UpTo(Append(q, name))
  <2> DEFINE longer == Append(q, name)
  <2>1. longer \in Seq(Names) /\ Len(longer) = n + 1 /\ Front(longer) = q
    BY <1>4, FrontOfAppend
  <2>2. Front(longer) = SubSeq(longer, 1, n + 1 - 1)
    BY <2>1 DEF Front
  <2> HIDE DEF longer
  <2>3. n + 1 - 1 \in 0..Len(longer)
    BY <1>3, <2>1
  <2>4. q \in UpTo(longer)
    BY <2>1, <2>2, <2>3, AboveIsPrefix
  <2> QED BY <2>4 DEF longer
<1> QED BY <1>1, <1>3, <1>4, <1>5, <1>8, <1>10, <1>11 DEF child

\* The path of an entry, which begins with the selected name.
LEMMA RelativeFacts ==
    ASSUME NEW s \in NonRoot
    PROVE  /\ Relative(s, s) = <<Last(s)>>
           /\ s \in UpTo(s)
           /\ \A q \in Seq(Names), name \in Names :
                 s \in UpTo(q) => Relative(s, Append(q, name)) = Append(Relative(s, q), name)
<1>1. /\ s \in Seq(Names) /\ Len(s) \in Nat \ {0} /\ Last(s) = s[Len(s)] /\ Last(s) \in Names
  BY LastOf DEF NonRoot
<1> DEFINE l == Len(s)
<1>2. l \in Int /\ l \in Nat /\ l >= 1 /\ l \in 1..l
  BY <1>1
<1> HIDE DEF l
<1>3. ASSUME NEW q \in Seq(Names), l <= Len(q)
      PROVE  /\ SubSeq(q, l, Len(q)) \in Seq(Names)
             /\ Len(SubSeq(q, l, Len(q))) = Len(q) - l + 1
             /\ \A j \in 1..(Len(q) - l + 1) : SubSeq(q, l, Len(q))[j] = q[l + j - 1]
  <2>1. Len(q) \in Int /\ \A j \in l..Len(q) : q[j] \in Names
    BY <1>2, <1>3
  <2>2. Len(SubSeq(q, l, Len(q))) = IF l <= Len(q) THEN Len(q) - l + 1 ELSE 0
    BY <1>2, <2>1, SubSeqProperties
  <2>3. /\ SubSeq(q, l, Len(q)) \in Seq(Names)
        /\ \A j \in 1..(Len(q) - l + 1) : SubSeq(q, l, Len(q))[j] = q[l + j - 1]
    BY <1>2, <2>1, SubSeqProperties
  <2> QED BY <1>3, <2>2, <2>3
<1>4. Relative(s, s) = <<Last(s)>>
  <2> DEFINE r == SubSeq(s, l, Len(s))
             last == <<Last(s)>>
  <2>1. Len(s) = l /\ Len(s) - l + 1 = 1 /\ l <= Len(s)
    BY <1>2 DEF l
  <2>2. r \in Seq(Names) /\ Len(r) = 1 /\ \A j \in 1..1 : r[j] = s[l + j - 1]
    BY <1>1, <1>3, <2>1
  <2>3. l + 1 - 1 = Len(s)
    BY <1>2, <2>1
  <2>4. r[1] = Last(s)
    BY <1>1, <2>2, <2>3
  <2>5. last \in Seq(Names) /\ Len(last) = 1 /\ last[1] = Last(s)
    BY <1>1
  <2> HIDE DEF r, last
  <2>6. r = last
    BY <2>2, <2>4, <2>5, SeqEqual
  <2> QED BY <2>6 DEF r, last, l, Relative
<1>5. s \in UpTo(s)
  BY DEF UpTo
<1>6. ASSUME NEW q \in Seq(Names), NEW name \in Names, s \in UpTo(q)
      PROVE  Relative(s, Append(q, name)) = Append(Relative(s, q), name)
  <2>1. l \in 0..Len(q)
    BY <1>6, OnTheWay DEF l
  <2> DEFINE n == Len(q)
             child == Append(q, name)
             r == SubSeq(q, l, n)
             longer == SubSeq(child, l, Len(child))
             other == Append(r, name)
  <2>2. /\ n \in Nat /\ l <= n /\ n - l + 1 \in Nat
    BY <1>2, <2>1
  <2>3. /\ child \in Seq(Names) /\ Len(child) = n + 1 /\ child[n + 1] = name
        /\ \A j \in 1..n : child[j] = q[j]
    BY AppendProperties
  <2>4. r \in Seq(Names) /\ Len(r) = n - l + 1 /\ \A j \in 1..(n - l + 1) : r[j] = q[l + j - 1]
    BY <1>3, <2>2
  <2> HIDE DEF r
  <2>5. /\ other \in Seq(Names) /\ Len(other) = n - l + 1 + 1 /\ other[n - l + 1 + 1] = name
        /\ \A j \in 1..(n - l + 1) : other[j] = r[j]
    BY <2>4, AppendProperties
  <2> HIDE DEF other, child
  <2>6. /\ longer \in Seq(Names) /\ Len(longer) = Len(child) - l + 1
        /\ \A j \in 1..(Len(child) - l + 1) : longer[j] = child[l + j - 1]
    <3>1. l <= Len(child)
      BY <1>2, <2>2, <2>3
    <3> QED BY <1>3, <2>3, <3>1
  <2> HIDE DEF longer, n
  <2>10. \A j \in 1..(n + 1 - l + 1) : longer[j] = child[l + j - 1]
    <3>1. Len(child) = n + 1
      BY <2>3
    <3>2. l \in Nat /\ n \in Nat
      BY <1>2, <2>2
    <3> QED BY <2>6, <3>1, <3>2
  <2>7. ASSUME NEW j \in 1..(n + 1 - l + 1) PROVE longer[j] = other[j]
    <3>1. CASE j = n - l + 1 + 1
      <4>1. l + j - 1 = n + 1
        BY <1>2, <2>2, <3>1
      <4> QED BY <2>3, <2>5, <2>7, <2>10, <3>1, <4>1
    <3>2. CASE j # n - l + 1 + 1
      <4>1. j \in 1..(n - l + 1) /\ l + j - 1 \in 1..n
        BY <1>2, <2>2, <2>7, <3>2
      <4> QED BY <2>3, <2>4, <2>5, <2>7, <2>10, <4>1
    <3> QED BY <3>1, <3>2
  <2>8. Len(longer) = n + 1 - l + 1 /\ Len(other) = n + 1 - l + 1
    BY <1>2, <2>2, <2>3, <2>5, <2>6
  <2>9. longer = other
    BY <2>5, <2>6, <2>7, <2>8, SeqEqual
  <2> QED BY <2>9 DEF longer, other, r, child, n, l, Relative
<1> QED BY <1>4, <1>5, <1>6

\* As long as others have done nothing, nothing of the tree is touched.
BuildTree ==
    changes = 0 =>
        \A p \in Seq(Names) : UpTo(p) \subseteq DOMAIN source.tree => Untouched(p)

LEMMA SourceFacts ==
    ASSUME source \in Sources
    PROVE  /\ DOMAIN source.tree \subseteq Seq(Names) /\ Tmp \notin DOMAIN source.tree
           /\ source.selection \in Seq(NonRoot)
  BY SourceAssumption, PathsAssumption DEF NonRoot

\* The temporary archive does not touch what was there, nor does its removal.
LEMMA TmpTouchesNothing ==
    ASSUME BuildTypes, NEW p \in Seq(Names), UpTo(p) \subseteq DOMAIN source.tree,
           NEW c \in {NewTmp, NoTmp}, TreeChanges(c)
    PROVE  Untouched(p) <=> Untouched(p)'
<1>1. /\ fs' = Changed(fs, c) /\ source' = source /\ c.path = Tmp
  BY DEF TreeChanges, NewTmp, NoTmp
<1>2. ASSUME NEW q \in UpTo(p)
      PROVE  /\ q \in DOMAIN fs => q \in DOMAIN Changed(fs, c) /\ Changed(fs, c)[q] = fs[q]
             /\ q \in DOMAIN Changed(fs, c) => q \in DOMAIN fs
  <2>1. Tmp \notin UpTo(q)
    BY <1>2, WayOfWay, SourceFacts DEF BuildTypes
  <2>2. q # Tmp
    BY SourceFacts DEF BuildTypes
  <2> QED BY <1>1, <2>1, <2>2, ChangedFacts
<1> QED BY <1>1, <1>2 DEF Untouched

LEMMA BuildTreeKept ==
    ASSUME BuildTypes, BuildTree, [PathsNext]_pathsVars
    PROVE  BuildTree'
<1>1. CASE UNCHANGED <<fs, source, changes>>
  BY <1>1 DEF BuildTree, Untouched
<1>2. CASE Walking \/ Writing \/ UNCHANGED buildVars
  BY <1>1, <1>2 DEF Walking, VisitSelected, VisitChild, List, Leave, Visit, Writing, WriteCount,
                    WriteHead, WriteBody, WriteEnds, WriterFails, buildVars
<1>3. ASSUME NEW c \in {NewTmp, NoTmp}, TreeChanges(c), UNCHANGED changes
      PROVE  BuildTree'
  <2>1. source' = source /\ changes' = changes
    BY <1>3 DEF TreeChanges
  <2>2. ASSUME changes = 0, NEW p \in Seq(Names), UpTo(p) \subseteq DOMAIN source.tree
        PROVE  Untouched(p)'
    BY <1>3, <2>2, TmpTouchesNothing DEF BuildTree
  <2> QED BY <2>1, <2>2 DEF BuildTree
<1>4. CASE OthersChange
  <2>1. changes' # 0
    BY <1>4 DEF OthersChange, BuildTypes
  <2> QED BY <2>1 DEF BuildTree
<1> QED BY <1>2, <1>3, <1>4, StepKinds

\* What is untouched after a step was so before.
LEMMA UntouchedBefore ==
    ASSUME BuildTypes, BuildTree, [PathsNext]_pathsVars,
           NEW p \in Seq(Names), changes' <= 1, Untouched(p)'
    PROVE  Untouched(p) /\ changes <= 1 /\ source' = source
<1>0. source' = source
  BY StepKinds DEF Walking, VisitSelected, VisitChild, List, Leave, Visit, Writing, WriteCount,
     WriteHead, WriteBody, WriteEnds, WriterFails, TreeChanges, OthersChange, buildVars
<1>1. UpTo(p) \subseteq DOMAIN source.tree
  BY <1>0 DEF Untouched
<1>2. CASE UNCHANGED <<fs, source, changes>>
  BY <1>2 DEF Untouched
<1>3. CASE Walking \/ Writing \/ UNCHANGED buildVars
  BY <1>2, <1>3 DEF Walking, VisitSelected, VisitChild, List, Leave, Visit, Writing, WriteCount,
                    WriteHead, WriteBody, WriteEnds, WriterFails, buildVars
<1>4. CASE (TreeChanges(NewTmp) \/ TreeChanges(NoTmp)) /\ UNCHANGED changes
  BY <1>0, <1>1, <1>4, TmpTouchesNothing
<1>5. CASE OthersChange
  <2>1. changes = 0
    BY <1>5 DEF OthersChange, BuildTypes
  <2> QED BY <1>0, <1>1, <2>1 DEF BuildTree
<1> QED BY <1>3, <1>4, <1>5, StepKinds

\* An untouched path is looked at as the call found it.
LEMMA UntouchedSeen ==
    ASSUME NEW p \in Seq(Names), Untouched(p), NEW q \in UpTo(p)
    PROVE  /\ Ignored(fs, q) <=> Ignored(source.tree, q)
           /\ q \in DOMAIN fs /\ fs[q] = source.tree[q]
<1>1. ASSUME NEW r \in UpTo(p)
      PROVE  r \in DOMAIN source.tree /\ r \in DOMAIN fs /\ fs[r] = source.tree[r]
  BY DEF Untouched
<1>2. \A r \in Above(q) : r \in UpTo(p)
  BY WayOfWay DEF UpTo
<1>3. Reachable(fs, q) <=> Reachable(source.tree, q)
  BY <1>1, <1>2 DEF Reachable, Searchable
<1> QED BY <1>1, <1>3 DEF Ignored

\* Of a file that is untouched, the archive has the content.
ContentInv ==
    \A j \in DOMAIN written :
        ~entries[j].dir /\ Untouched(entries[j].abs) /\ changes <= 1 =>
            written[j].content = source.tree[entries[j].abs].content

LEMMA ContentKept ==
    ASSUME BuildTypes, WrittenInv, BuildTree, ContentInv, [PathsNext]_pathsVars
    PROVE  ContentInv'
<1>1. /\ DOMAIN written = 1..Len(written) /\ DOMAIN entries = 1..Len(entries)
      /\ Len(written) \in Nat /\ Len(entries) \in Nat /\ Len(written) <= Len(entries)
  BY DEF BuildTypes, WrittenInv
<1>2. ASSUME NEW j \in DOMAIN written, ~entries[j].dir, Untouched(entries[j].abs)', changes' <= 1,
             entries' = entries
      PROVE  written[j].content = source'.tree[entries[j].abs].content
  <2>1. j \in DOMAIN entries
    BY <1>1
  <2>2. entries[j].abs \in Seq(Names)
    <3>1. entries \in Seq(Listed)
      BY DEF BuildTypes
    <3>2. entries[j] \in Listed
      BY <2>1, <3>1
    <3> QED BY <3>2 DEF Listed, NonRoot
  <2>3. PICK p \in Seq(Names) : p = entries[j].abs
    BY <2>2
  <2>4. Untouched(p)'
    BY <1>2, <2>3 DEF Untouched
  <2>5. Untouched(p) /\ changes <= 1 /\ source' = source
    BY <1>2, <2>4, UntouchedBefore
  <2> QED BY <1>2, <2>3, <2>5 DEF ContentInv
<1>3. CASE Walking
  <2>1. written' = <<>>
    BY <1>3, WalkingLeaves DEF WrittenInv
  <2> QED BY <2>1 DEF ContentInv
<1>4. CASE entries' = entries /\ written' = written
  BY <1>2, <1>4 DEF ContentInv, Untouched
<1>5. CASE Writing /\ written' # written
  <2>1. step = "body" => Len(written) < Len(entries)
    BY DEF WrittenInv
  <2>2. /\ UNCHANGED <<fs, source, entries, changes>>
        /\ Len(written) < Len(entries)
        /\ \E w \in EntryRecords :
              /\ written' = Append(written, w)
              /\ Entry.dir \/ w.content = fs[Entry.abs].content
    <3>1. ASSUME step = "head", Len(written) < Len(entries), Entry.dir, NEW mode \in SUBSET ModeBits,
                 written' = Append(written, AsWritten(Entry, mode, NoContent, 0))
          PROVE  \E w \in EntryRecords :
                    /\ written' = Append(written, w)
                    /\ Entry.dir \/ w.content = fs[Entry.abs].content
      BY <3>1, EntryAtHand, EntryWritten
    <3>2. ASSUME step = "body", NEW c \in Contents, c = fs[Entry.abs].content,
                 written' = Append(written, AsWritten(Entry, permissions, c, StoredLen[c]))
          PROVE  \E w \in EntryRecords :
                    /\ written' = Append(written, w)
                    /\ Entry.dir \/ w.content = fs[Entry.abs].content
      <4>1. StoredLen[c] \in Nat /\ permissions \in SUBSET ModeBits
        BY ContentAssumption DEF BuildTypes
      <4> QED BY <2>1, <3>2, <4>1, EntryAtHand, EntryWritten
    <3> QED BY <1>5, <2>1, <3>1, <3>2, WritingCases
  <2>3. PICK w \in EntryRecords :
           written' = Append(written, w) /\ (Entry.dir \/ w.content = fs[Entry.abs].content)
    BY <2>2
  <2>4. written \in Seq(EntryRecords)
    BY DEF BuildTypes
  <2>5. /\ DOMAIN written' = 1..(Len(written) + 1) /\ written'[Len(written) + 1] = w
        /\ \A k \in 1..Len(written) : written'[k] = written[k]
    BY <2>3, <2>4, AppendProperties
  <2>6. SUFFICES ASSUME NEW j \in DOMAIN written', ~entries[j].dir, Untouched(entries[j].abs)',
                        changes' <= 1
                 PROVE  written'[j].content = source.tree[entries[j].abs].content
    BY <2>2 DEF ContentInv, Untouched
  <2>7. CASE j = Len(written) + 1
    <3>1. Entry = entries[j] /\ entries[j].abs \in NonRoot /\ w.content = fs[entries[j].abs].content
      BY <2>2, <2>3, <2>6, <2>7, EntryAtHand DEF Entry, Listed
    <3>2. entries[j].abs \in UpTo(entries[j].abs)
      BY DEF UpTo
    <3>3. fs[entries[j].abs] = source.tree[entries[j].abs]
      BY <2>2, <2>6, <3>2 DEF Untouched
    <3> QED BY <2>5, <2>7, <3>1, <3>3
  <2>8. CASE j # Len(written) + 1
    <3>1. j \in 1..Len(written)
      BY <1>1, <2>5, <2>6, <2>8
    <3> QED BY <1>1, <1>2, <2>2, <2>5, <2>6, <3>1
  <2> QED BY <2>7, <2>8
<1>6. CASE OthersChange \/ UNCHANGED buildVars
  BY <1>4, <1>6 DEF OthersChange, buildVars
<1>7. CASE Writing /\ written' = written
  <2>1. entries' = entries
    BY <1>7 DEF Writing, WriteCount, WriteHead, WriteBody, WriteEnds, WriterFails
  <2> QED BY <1>4, <1>7, <2>1
<1> QED BY <1>3, <1>4, <1>5, <1>6, <1>7, StepKinds DEF TreeChanges

-----------------------------------------------------------------------------
(* Building: nothing untouched is left out.                                *)

IsDir(p) == source.tree[p].kind = "dir"

\* What has to be in the archive, whatever has happened so far.
Wanted(s, p) == p \in Walked(source.tree, s) /\ Untouched(p) /\ changes <= 1

\* It is in the list, or an open directory leads to it and will be gone through.
InList(s, p) ==
    \E j \in DOMAIN entries : entries[j] = [rel |-> Relative(s, p), abs |-> p, dir |-> IsDir(p)]

Leads(f, s, p) == f.abs \in Above(p) /\ s \in UpTo(f.abs) /\ f.rel = Relative(s, f.abs)

Pending(s, p, i) ==
    /\ Leads(stack[i], s, p)
    /\ (step = "list" /\ i = Len(stack)) \/ p[Len(stack[i].abs) + 1] \in stack[i].names

Accounted(s, p) == InList(s, p) \/ \E i \in DOMAIN stack : Pending(s, p, i)

\* The walk finds what it is to find on the way to it.
LEMMA OnTheWalk ==
    ASSUME BuildTypes, NEW s \in NonRoot, NEW p, Wanted(s, p), NEW q \in UpTo(p), s \in UpTo(q)
    PROVE  /\ p \in Seq(Names) /\ ~Ignored(fs, q) /\ q \in DOMAIN fs
           /\ fs[q].kind = "dir" <=> IsDir(q)
           /\ q # p => IsDir(q)
<1>1. /\ p \in DOMAIN source.tree /\ p \in Seq(Names) /\ Untouched(p) /\ s \in UpTo(p)
      /\ \A m \in Len(s)..Len(p) : ~Ignored(source.tree, SubSeq(p, 1, m))
  BY SourceFacts DEF Wanted, Walked, BuildTypes
<1>2. ASSUME NEW r \in UpTo(p), s \in UpTo(r) PROVE ~Ignored(source.tree, r)
  <2>1. Len(r) \in 0..Len(p) /\ r = SubSeq(p, 1, Len(r)) /\ Len(s) <= Len(r)
    BY <1>1, <1>2, OnTheWay, WayOfWay
  <2>2. Len(s) \in 0..Len(p)
    BY <1>1, OnTheWay
  <2>3. Len(r) \in Len(s)..Len(p)
    BY <2>1, <2>2
  <2> QED BY <1>1, <2>1, <2>3
<1>3. ~Ignored(fs, q) /\ q \in DOMAIN fs /\ fs[q] = source.tree[q]
  BY <1>1, <1>2, UntouchedSeen
<1>4. ASSUME q # p PROVE IsDir(q)
  <2>1. p \in UpTo(p) /\ q \in Above(p)
    BY <1>4 DEF UpTo
  <2>2. ~Ignored(source.tree, p)
    BY <1>1, <1>2, <2>1
  <2> QED BY <2>1, <2>2 DEF Ignored, Reachable, Searchable, IsDir
<1> QED BY <1>1, <1>3, <1>4 DEF IsDir

\* What is looked at on the way to it ends in the list or among the open directories.
LEMMA VisitAccounts ==
    ASSUME BuildTypes, NEW s \in NonRoot, NEW p, Wanted(s, p),
           NEW abs \in NonRoot, NEW rel \in NonRoot, NEW below \in Seq(Frames),
           Visit(abs, rel, below), abs \in UpTo(p), s \in UpTo(abs), rel = Relative(s, abs)
    PROVE  Accounted(s, p)'
<1> DEFINE f == [abs |-> abs, rel |-> rel, names |-> {}]
<1>1. /\ ~Ignored(fs, abs) /\ source' = source
      /\ fs[abs].kind = "dir" <=> IsDir(abs)
      /\ abs # p => IsDir(abs)
  BY OnTheWalk DEF Visit
<1>2. CASE abs = p
  <2> DEFINE e == [rel |-> rel, abs |-> abs, dir |-> IsDir(abs)]
  <2>2. entries' = Append(entries, e) /\ e \in Listed
    BY <1>1 DEF Visit, Entered, Listed, IsDir
  <2>3. Len(entries) + 1 \in DOMAIN entries' /\ entries'[Len(entries) + 1] = e
    BY <2>2, OneMoreListed
  <2> QED BY <1>1, <1>2, <2>3 DEF Accounted, InList, IsDir
<1>3. CASE abs # p
  <2>1. fs[abs].kind = "dir"
    BY <1>1, <1>3
  <2>2. stack' = Append(below, f) /\ f \in Frames /\ step' = "list"
    BY <1>1, <2>1 DEF Visit, Entered, Frames
  <2>3. f.abs = abs /\ f.rel = rel
    OBVIOUS
  <2> HIDE DEF f
  <2>4. /\ Len(stack') = Len(below) + 1 /\ Len(below) + 1 \in DOMAIN stack'
        /\ stack'[Len(below) + 1] = f
    BY <2>2, OneMoreOpen
  <2>5. Leads(f, s, p)
    BY <1>3, <2>3 DEF Leads, UpTo
  <2>6. Pending(s, p, Len(below) + 1)'
    BY <2>2, <2>4, <2>5 DEF Pending, Leads
  <2> QED BY <2>4, <2>6 DEF Accounted
<1> QED BY <1>2, <1>3

\* And what was in the list or in wait further down stays there.
LEMMA VisitKeeps ==
    ASSUME BuildTypes, NEW abs \in NonRoot, NEW rel \in NonRoot, NEW below \in Seq(Frames),
           Visit(abs, rel, below)
    PROVE  /\ UNCHANGED <<fs, source, changes, built>>
           /\ \A j \in DOMAIN entries : j \in DOMAIN entries' /\ entries'[j] = entries[j]
           /\ \A i \in DOMAIN below : i \in DOMAIN stack' /\ stack'[i] = below[i]
<1> DEFINE dir == fs[abs].kind = "dir"
           f == [abs |-> abs, rel |-> rel, names |-> {}]
           e == [rel |-> rel, abs |-> abs, dir |-> dir]
<1>1. CASE Ignored(fs, abs)
  BY <1>1 DEF Visit
<1>2. CASE ~Ignored(fs, abs)
  <2>1. /\ UNCHANGED <<fs, source, changes, built>>
        /\ entries' = Append(entries, e)
        /\ dir => stack' = Append(below, f)
        /\ ~dir => stack' = below
    BY <1>2 DEF Visit, Entered
  <2>2. e \in Listed /\ f \in Frames
    BY DEF Listed, Frames
  <2>3. DOMAIN entries = 1..Len(entries) /\ DOMAIN below = 1..Len(below)
    BY DEF BuildTypes
  <2> HIDE DEF dir, e, f
  <2>4. \A j \in DOMAIN entries : j \in DOMAIN entries' /\ entries'[j] = entries[j]
    BY <2>1, <2>2, <2>3, OneMoreListed
  <2>5. \A i \in DOMAIN below : i \in DOMAIN stack' /\ stack'[i] = below[i]
    BY <2>1, <2>2, <2>3, OneMoreOpen
  <2> QED BY <2>1, <2>4, <2>5
<1> QED BY <1>1, <1>2

\* A selected path is looked at.
LEMMA SelectedAccounts ==
    ASSUME BuildTypes, VisitSelected, NEW s \in NonRoot, NEW p, Wanted(s, p),
           s = Head(todo) \/ Accounted(s, p)
    PROVE  Accounted(s, p)'
<1> DEFINE rel == <<Last(Head(todo))>>
           none == <<>>
<1>1. /\ stack = <<>> /\ Head(todo) \in NonRoot /\ rel \in NonRoot
      /\ Visit(Head(todo), rel, none)
  BY SelectedVisited
<1>2. none \in Seq(Frames) /\ stack = none
  BY <1>1
<1> HIDE DEF rel, none
<1>3. CASE s = Head(todo)
  <2>1. s \in UpTo(p) /\ s \in UpTo(s) /\ rel = Relative(s, s)
    BY <1>3, RelativeFacts DEF Wanted, Walked, rel
  <2> QED BY <1>1, <1>2, <1>3, <2>1, VisitAccounts
<1>4. CASE InList(s, p)
  BY <1>1, <1>2, <1>4, VisitKeeps DEF Accounted, InList, IsDir
<1>5. DOMAIN stack = {}
  BY <1>1
<1> QED BY <1>3, <1>4, <1>5 DEF Accounted

\* A child is looked at: it is on the way, or it is not and the way is left as it is.
LEMMA ChildAccounts ==
    ASSUME BuildTypes, VisitChild, NEW s \in NonRoot, NEW p, Wanted(s, p), Accounted(s, p)
    PROVE  Accounted(s, p)'
<1>1. PICK name \in Last(stack).names :
         /\ name \in Names
         /\ Append(Last(stack).abs, name) \in NonRoot
         /\ Append(Last(stack).rel, name) \in NonRoot
         /\ Without(name) \in Seq(Frames)
         /\ Visit(Append(Last(stack).abs, name), Append(Last(stack).rel, name), Without(name))
  BY ChildVisited
<1>2. step = "walk" /\ stack # <<>>
  BY ChildVisited
<1>3. /\ Len(stack) \in DOMAIN stack /\ DOMAIN Without(name) = 1..Len(stack)
      /\ Without(name)[Len(stack)].abs = Last(stack).abs
      /\ Without(name)[Len(stack)].rel = Last(stack).rel
      /\ Without(name)[Len(stack)].names = Last(stack).names \ {name}
      /\ \A k \in DOMAIN stack : k # Len(stack) => Without(name)[k] = stack[k]
  BY <1>2, WithoutFacts
<1>4. DOMAIN stack = 1..Len(stack) /\ Last(stack) = stack[Len(stack)]
  BY <1>2, TopFrame DEF BuildTypes
<1>5. p \in Seq(Names)
  BY SourceFacts DEF Wanted, Walked, BuildTypes
<1> DEFINE abs == Append(Last(stack).abs, name)
           rel == Append(Last(stack).rel, name)
           below == Without(name)
<1> HIDE DEF below
<1>6. CASE InList(s, p)
  <2>1. \A j \in DOMAIN entries : j \in DOMAIN entries' /\ entries'[j] = entries[j]
    BY <1>1, VisitKeeps DEF below
  <2> QED BY <1>1, <1>6, <2>1, VisitKeeps DEF Accounted, InList, IsDir
<1>7. ASSUME NEW i \in DOMAIN stack, Pending(s, p, i)
      PROVE  Accounted(s, p)'
  <2>1. /\ Leads(stack[i], s, p) /\ p[Len(stack[i].abs) + 1] \in stack[i].names
    BY <1>2, <1>7 DEF Pending
  <2>2. i \in DOMAIN below /\ i \in DOMAIN stack' /\ stack'[i] = below[i]
    BY <1>1, <1>3, <1>4, <1>7, VisitKeeps DEF below
  <2>3. CASE i # Len(stack) \/ p[Len(stack[i].abs) + 1] # name
    <3>1. below[i].abs = stack[i].abs /\ below[i].rel = stack[i].rel
      BY <1>3, <1>4 DEF below
    <3>2. p[Len(stack[i].abs) + 1] \in below[i].names
      BY <1>3, <1>4, <2>1, <2>3 DEF below
    <3>3. Leads(stack'[i], s, p)
      BY <2>1, <2>2, <3>1 DEF Leads
    <3>4. Pending(s, p, i)'
      BY <2>2, <3>1, <3>2, <3>3 DEF Pending, Leads
    <3> QED BY <2>2, <3>4 DEF Accounted
  <2>4. CASE i = Len(stack) /\ p[Len(stack[i].abs) + 1] = name
    <3>1. /\ Last(stack).abs \in Above(p) /\ s \in UpTo(Last(stack).abs)
          /\ Last(stack).rel = Relative(s, Last(stack).abs)
      BY <1>4, <2>1, <2>4 DEF Leads
    <3>2. /\ abs \in UpTo(p) /\ Last(stack).abs \in Seq(Names) /\ Last(stack).abs \in UpTo(abs)
      BY <1>1, <1>4, <1>5, <2>4, <3>1, NextOnTheWay
    <3>3. abs \in Seq(Names)
      BY <1>5, <3>2, OnTheWay
    <3>4. s \in UpTo(abs)
      BY <3>1, <3>2, <3>3, WayOfWay
    <3>5. rel = Relative(s, abs)
      BY <1>1, <3>1, <3>2, RelativeFacts
    <3> QED BY <1>1, <3>2, <3>4, <3>5, VisitAccounts
  <2> QED BY <2>3, <2>4
<1> QED BY <1>6, <1>7 DEF Accounted

\* Every child on the way is among the names of a listed directory.
LEMMA ListAccounts ==
    ASSUME BuildTypes, List, built' # "Io", NEW s \in NonRoot, NEW p, Wanted(s, p), Accounted(s, p)
    PROVE  Accounted(s, p)'
<1>1. /\ UNCHANGED <<entries, source>> /\ step' = "walk"
      /\ DOMAIN stack = 1..Len(stack) /\ Last(stack) = stack[Len(stack)]
      /\ DOMAIN stack' = DOMAIN stack
      /\ stack'[Len(stack)].abs = Last(stack).abs
      /\ stack'[Len(stack)].rel = Last(stack).rel
      /\ stack'[Len(stack)].names = ChildNames(fs, Last(stack).abs)
      /\ \A k \in DOMAIN stack : k # Len(stack) => stack'[k] = stack[k]
  BY ListFacts
<1>2. p \in Seq(Names)
  BY SourceFacts DEF Wanted, Walked, BuildTypes
<1>3. ASSUME NEW i \in DOMAIN stack, Pending(s, p, i)
      PROVE  Accounted(s, p)'
  <2>1. Leads(stack[i], s, p) /\ stack'[i].abs = stack[i].abs /\ stack'[i].rel = stack[i].rel
    BY <1>1, <1>3 DEF Pending
  <2>2. Leads(stack'[i], s, p)
    BY <2>1 DEF Leads
  <2>3. p[Len(stack[i].abs) + 1] \in stack'[i].names
    <3>1. CASE i # Len(stack)
      BY <1>1, <1>3, <3>1 DEF Pending
    <3>2. CASE i = Len(stack)
      <4>1. stack[i].abs \in Above(p) /\ s \in UpTo(stack[i].abs)
        BY <2>1 DEF Leads
      <4>2. PICK q \in Above(p) : q = stack[i].abs
        BY <4>1
      <4>3. /\ q \in Seq(Names) /\ p[Len(q) + 1] \in Names
            /\ Append(q, p[Len(q) + 1]) \in UpTo(p)
            /\ q \in UpTo(Append(q, p[Len(q) + 1]))
        BY <1>2, NextOnTheWay
      <4>4. Append(q, p[Len(q) + 1]) \in Seq(Names)
        BY <1>2, <4>3, OnTheWay
      <4>5. s \in UpTo(Append(q, p[Len(q) + 1]))
        BY <4>1, <4>2, <4>3, <4>4, WayOfWay
      <4>6. Append(q, p[Len(q) + 1]) \in DOMAIN fs
        BY <4>3, <4>5, OnTheWalk
      <4>7. p[Len(q) + 1] \in ChildNames(fs, q)
        BY <4>3, <4>6 DEF ChildNames
      <4> QED BY <1>1, <3>2, <4>2, <4>7
    <3> QED BY <3>1, <3>2
  <2>4. Pending(s, p, i)'
    BY <2>1, <2>2, <2>3 DEF Pending, Leads
  <2> QED BY <1>1, <2>4 DEF Accounted
<1> QED BY <1>1, <1>3 DEF Accounted, InList, IsDir

\* A directory is left when nothing is in wait in it.
LEMMA LeaveAccounts ==
    ASSUME BuildTypes, Leave, NEW s \in NonRoot, NEW p, Wanted(s, p), Accounted(s, p)
    PROVE  Accounted(s, p)'
<1>1. /\ UNCHANGED <<entries, source>> /\ step = "walk" /\ step' = "walk" /\ Last(stack).names = {}
      /\ Len(stack) \in Nat \ {0} /\ DOMAIN stack = 1..Len(stack)
      /\ Last(stack) = stack[Len(stack)] /\ DOMAIN stack' = 1..(Len(stack) - 1)
      /\ \A k \in DOMAIN stack' : k \in DOMAIN stack /\ stack'[k] = stack[k]
  BY LeaveFacts
<1>2. ASSUME NEW i \in DOMAIN stack, Pending(s, p, i)
      PROVE  Accounted(s, p)'
  <2>1. Leads(stack[i], s, p) /\ p[Len(stack[i].abs) + 1] \in stack[i].names
    BY <1>1, <1>2 DEF Pending
  <2>2. i # Len(stack)
    BY <1>1, <2>1
  <2>3. i \in DOMAIN stack'
    BY <1>1, <1>2, <2>2
  <2>4. stack'[i] = stack[i]
    BY <1>1, <2>3
  <2>5. Pending(s, p, i)'
    BY <2>1, <2>4 DEF Pending, Leads
  <2> QED BY <2>3, <2>5 DEF Accounted
<1> QED BY <1>1, <1>2 DEF Accounted, InList, IsDir

\* What is left to look at is the end of the selection; of what is before, all that
\* has to be in the archive is accounted for.
Begun == Len(source.selection) - Len(todo)

AccountedInv ==
    /\ Len(todo) <= Len(source.selection)
    /\ \A m \in 1..Len(todo) : todo[m] = source.selection[Begun + m]
    /\ built \in {"none", "Ok"} =>
          \A k \in 1..Begun : \A p :
              Wanted(source.selection[k], p) => Accounted(source.selection[k], p)

LEMMA WantedBefore ==
    ASSUME BuildTypes, BuildTree, [PathsNext]_pathsVars, NEW s, NEW p, Wanted(s, p)'
    PROVE  Wanted(s, p)
<1>0. source' = source
  BY StepKinds DEF Walking, VisitSelected, VisitChild, List, Leave, Visit, Writing, WriteCount,
     WriteHead, WriteBody, WriteEnds, WriterFails, TreeChanges, OthersChange, buildVars
<1>1. p \in Walked(source.tree, s) /\ Untouched(p)' /\ changes' <= 1
  BY <1>0 DEF Wanted
<1>2. p \in Seq(Names)
  BY <1>1, SourceFacts DEF Walked, BuildTypes
<1> QED BY <1>1, <1>2, UntouchedBefore DEF Wanted

LEMMA AccountedKept ==
    ASSUME BuildTypes, WrittenInv, BuildTree, AccountedInv, [PathsNext]_pathsVars
    PROVE  AccountedInv'
<1>0. /\ todo \in Seq(NonRoot) /\ source.selection \in Seq(NonRoot)
      /\ Len(todo) \in Nat /\ Len(source.selection) \in Nat /\ Begun \in Nat
      /\ 1..Begun \subseteq DOMAIN source.selection
  <2>1. todo \in Seq(NonRoot) /\ source.selection \in Seq(NonRoot)
    BY SourceFacts DEF BuildTypes
  <2>2. Len(todo) \in Nat /\ Len(source.selection) \in Nat /\ Len(todo) <= Len(source.selection)
    BY <2>1 DEF AccountedInv
  <2>3. Begun \in Nat /\ Begun <= Len(source.selection)
    BY <2>2 DEF Begun
  <2> QED BY <2>1, <2>2, <2>3
<1>1. ASSUME UNCHANGED <<source, todo>>, built' \in {"none", "Ok"} => built \in {"none", "Ok"},
             ASSUME NEW s \in NonRoot, NEW p, Wanted(s, p), Accounted(s, p), Wanted(s, p)',
                    built' \in {"none", "Ok"}
             PROVE  Accounted(s, p)'
      PROVE  AccountedInv'
  <2>1. Begun' = Begun
    BY <1>1 DEF Begun
  <2>2. ASSUME built' \in {"none", "Ok"}, NEW k \in 1..Begun, NEW p,
               Wanted(source.selection[k], p)'
        PROVE  Accounted(source.selection[k], p)'
    <3>1. PICK s \in NonRoot : s = source.selection[k]
      BY <1>0
    <3>2. Wanted(s, p)'
      BY <1>1, <2>2, <3>1 DEF Wanted
    <3>3. Wanted(s, p)
      BY <3>2, WantedBefore
    <3>4. Accounted(s, p)
      BY <1>1, <2>2, <3>1, <3>3 DEF AccountedInv
    <3>5. Accounted(s, p)'
      BY <1>1, <2>2, <3>2, <3>3, <3>4
    <3> QED BY <1>1, <3>1, <3>5 DEF Accounted, InList, Pending, Leads
  <2>3. /\ Len(todo') <= Len(source'.selection)
        /\ \A m \in 1..Len(todo') : todo'[m] = source'.selection[Begun' + m]
    BY <1>1, <2>1 DEF AccountedInv
  <2> QED BY <1>1, <2>1, <2>2, <2>3 DEF AccountedInv, Accounted, InList, Pending, Leads, Wanted
<1>2. CASE VisitSelected
  <2>1. /\ todo # <<>> /\ Len(todo) \in Nat \ {0} /\ Head(todo) = todo[1]
        /\ todo' = Tail(todo) /\ Len(Tail(todo)) = Len(todo) - 1
        /\ \A k \in 1..(Len(todo) - 1) : Tail(todo)[k] = todo[k + 1]
    BY <1>2, SelectedVisited
  <2>2. source' = source /\ built' = built
    BY <1>2 DEF VisitSelected, Visit
  <2>3. Begun' = Begun + 1 /\ Len(todo') = Len(todo) - 1
    BY <1>0, <2>1, <2>2 DEF Begun
  <2>4. Len(todo') <= Len(source'.selection)
    BY <1>0, <2>1, <2>2, <2>3 DEF AccountedInv
  <2>5. ASSUME NEW m \in 1..Len(todo') PROVE todo'[m] = source'.selection[Begun' + m]
    <3>1. /\ m \in 1..(Len(todo) - 1) /\ m + 1 \in 1..Len(todo)
          /\ Begun' + m = Begun + (m + 1)
      BY <1>0, <2>1, <2>3
    <3> QED BY <2>1, <2>2, <3>1 DEF AccountedInv
  <2>6. Head(todo) = source.selection[Begun + 1]
    <3>1. 1 \in 1..Len(todo)
      BY <2>1
    <3> QED BY <2>1, <3>1 DEF AccountedInv
  <2>7. ASSUME built \in {"none", "Ok"}, NEW k \in 1..(Begun + 1), NEW p,
               Wanted(source.selection[k], p)'
        PROVE  Accounted(source.selection[k], p)'
    <3>0. k \in DOMAIN source.selection
      BY <1>0, <2>1 DEF Begun, AccountedInv
    <3>1. PICK s \in NonRoot : s = source.selection[k]
      BY <1>0, <3>0
    <3>2. Wanted(s, p)
      BY <2>2, <2>7, <3>1, WantedBefore DEF Wanted
    <3>3. k # Begun + 1 => k \in 1..Begun
      BY <1>0
    <3>4. s = Head(todo) \/ Accounted(s, p)
      BY <2>6, <2>7, <3>1, <3>2, <3>3 DEF AccountedInv
    <3>5. Accounted(s, p)'
      BY <1>2, <3>2, <3>4, SelectedAccounts
    <3> QED BY <2>2, <3>1, <3>5 DEF Accounted, InList, Pending, Leads
  <2> QED BY <2>2, <2>3, <2>4, <2>5, <2>7
          DEF AccountedInv, Accounted, InList, Pending, Leads, Wanted
<1>3. CASE VisitChild
  <2>1. UNCHANGED <<source, todo, built>>
    BY <1>3 DEF VisitChild, Visit
  <2> QED BY <1>1, <1>3, <2>1, ChildAccounts
<1>4. CASE List
  <2>1. UNCHANGED <<source, todo>>
    BY <1>4 DEF List
  <2>2. built' = built \/ built' = "Io"
    BY <1>4, ListFacts
  <2> QED BY <1>1, <1>4, <2>1, <2>2, ListAccounts
<1>5. CASE Leave
  <2>1. UNCHANGED <<source, todo, built>>
    BY <1>5 DEF Leave
  <2> QED BY <1>1, <1>5, <2>1, LeaveAccounts
<1>6. ASSUME UNCHANGED <<source, todo, stack, entries>>, step' = step \/ "list" \notin {step, step'},
             built' \in {"none", "Ok"} => built \in {"none", "Ok"}
      PROVE  AccountedInv'
  <2>1. ASSUME NEW s \in NonRoot, NEW p, Accounted(s, p) PROVE Accounted(s, p)'
    BY <1>6, <2>1 DEF Accounted, InList, IsDir, Pending, Leads
  <2> QED BY <1>1, <1>6, <2>1
<1>7. CASE Writing
  <2>1. UNCHANGED <<source, todo, stack, entries>>
    BY <1>7 DEF Writing, WriteCount, WriteHead, WriteBody, WriteEnds, WriterFails
  <2>2. "list" \notin {step, step'} /\ built = "none"
    BY <1>7 DEF Writing, WriteCount, WriteHead, WriteBody, WriteEnds, WriterFails, Failing,
                WrittenInv
  <2> QED BY <1>6, <2>1, <2>2
<1>8. CASE \/ (TreeChanges(NewTmp) \/ TreeChanges(NoTmp)) /\ UNCHANGED changes
           \/ OthersChange \/ UNCHANGED buildVars
  BY <1>6, <1>8 DEF TreeChanges, OthersChange, buildVars
<1> QED BY <1>2, <1>3, <1>4, <1>5, <1>7, <1>8, StepKinds DEF Walking

-----------------------------------------------------------------------------
(* Building: what is archived when nobody changes the tree.                *)

\* Nobody has changed it yet, and the output is in nothing that is archived.
Calm == changes = 0 /\ OutputIsElsewhere

\* Then the tree is as the call found it, but for the temporary archive.
TreeIsAsFound ==
    changes = 0 =>
        \A p \in Seq(Names) : Tmp \notin UpTo(p) =>
            /\ p \in DOMAIN fs <=> p \in DOMAIN source.tree
            /\ p \in DOMAIN fs => fs[p] = source.tree[p]

LEMMA TreeIsAsFoundKept ==
    ASSUME BuildTypes, TreeIsAsFound, [PathsNext]_pathsVars
    PROVE  TreeIsAsFound'
<1>1. CASE Walking \/ Writing \/ UNCHANGED buildVars
  <2>1. UNCHANGED <<fs, source, changes>>
    BY <1>1 DEF Walking, VisitSelected, VisitChild, List, Leave, Visit, Writing, WriteCount,
                WriteHead, WriteBody, WriteEnds, WriterFails, buildVars
  <2> QED BY <2>1 DEF TreeIsAsFound
<1>2. CASE (TreeChanges(NewTmp) \/ TreeChanges(NoTmp)) /\ UNCHANGED changes
  <2>1. PICK c \in {NewTmp, NoTmp} : TreeChanges(c)
    BY <1>2
  <2>2. /\ c.path = Tmp /\ source' = source /\ changes' = changes
        /\ fs' = Changed(fs, c)
    BY <1>2, <2>1 DEF TreeChanges, NewTmp, NoTmp
  <2>3. ASSUME NEW p, Tmp \notin UpTo(p)
        PROVE  /\ p \in DOMAIN fs' <=> p \in DOMAIN fs
               /\ p \in DOMAIN fs' => fs'[p] = fs[p]
    <3>1. p # Tmp
      BY <2>3 DEF UpTo
    <3> QED BY <2>2, <2>3, <3>1, ChangedFacts
  <2> QED BY <2>2, <2>3 DEF TreeIsAsFound
<1>3. CASE OthersChange
  <2>1. changes' # 0
    BY <1>3 DEF OthersChange, BuildTypes
  <2> QED BY <2>1 DEF TreeIsAsFound
<1> QED BY <1>1, <1>2, <1>3, StepKinds

\* A path that does not lead through the temporary archive is looked at as the
\* call found it.
LEMMA SeenAsFound ==
    ASSUME TreeIsAsFound, changes = 0, NEW p \in Seq(Names), Tmp \notin UpTo(p)
    PROVE  /\ Ignored(fs, p) <=> Ignored(source.tree, p)
           /\ Reachable(fs, p) <=> Reachable(source.tree, p)
           /\ p \in DOMAIN fs <=> p \in DOMAIN source.tree
           /\ p \in DOMAIN fs => fs[p] = source.tree[p]
<1>1. ASSUME NEW r \in UpTo(p)
      PROVE  /\ r \in DOMAIN fs <=> r \in DOMAIN source.tree
             /\ r \in DOMAIN fs => fs[r] = source.tree[r]
  <2>1. r \in Seq(Names) /\ Tmp \notin UpTo(r)
    BY OnTheWay, WayOfWay
  <2> QED BY <2>1 DEF TreeIsAsFound
<1>2. p \in UpTo(p) /\ Above(p) \subseteq UpTo(p)
  BY DEF UpTo
<1>3. Reachable(fs, p) <=> Reachable(source.tree, p)
  BY <1>1, <1>2 DEF Reachable, Searchable
<1> QED BY <1>1, <1>2, <1>3 DEF Ignored, Reachable

\* What is on the walk, and how it goes on.
LEMMA WalkedFacts ==
    ASSUME source \in Sources, NEW s \in NonRoot, NEW p \in Walked(source.tree, s)
    PROVE  /\ p \in Seq(Names) /\ p \in DOMAIN source.tree /\ s \in UpTo(p)
           /\ ~Ignored(source.tree, p) /\ Reachable(source.tree, p)
           /\ source.tree[p].kind # "link"
           /\ Tmp \notin UpTo(p)
<1>1. /\ p \in DOMAIN source.tree /\ s \in UpTo(p) /\ p \in Seq(Names)
      /\ \A m \in Len(s)..Len(p) : ~Ignored(source.tree, SubSeq(p, 1, m))
  BY SourceFacts DEF Walked
<1>2. Len(s) \in 0..Len(p) /\ Len(p) \in Nat
  BY <1>1, OnTheWay
<1>3. Len(p) \in Len(s)..Len(p) /\ SubSeq(p, 1, Len(p)) = p
  BY <1>1, <1>2, SubSeqFull
<1>4. ~Ignored(source.tree, p)
  BY <1>1, <1>3
<1>5. \A q \in UpTo(p) : q \in DOMAIN source.tree
  BY <1>1, <1>4 DEF Ignored, Reachable, Searchable, UpTo
<1> QED BY <1>1, <1>4, <1>5, SourceFacts DEF Ignored

LEMMA WalkBegins ==
    ASSUME source \in Sources, NEW s \in NonRoot, ~Ignored(source.tree, s)
    PROVE  s \in Walked(source.tree, s)
<1>1. s \in DOMAIN source.tree /\ s \in UpTo(s) /\ s \in Seq(Names)
  BY DEF Ignored, Reachable, UpTo, NonRoot
<1>2. Len(s) \in Nat /\ SubSeq(s, 1, Len(s)) = s
  BY SubSeqFull DEF NonRoot
<1>3. \A m \in Len(s)..Len(s) : m = Len(s)
  <2>1. \A n \in Nat : \A m \in n..n : m = n
    OBVIOUS
  <2> QED BY <1>2, <2>1
<1> QED BY <1>1, <1>2, <1>3 DEF Walked

LEMMA WalkGoesOn ==
    ASSUME source \in Sources, NEW s \in NonRoot, NEW p \in Walked(source.tree, s),
           NEW name \in Names, ~Ignored(source.tree, Append(p, name))
    PROVE  Append(p, name) \in Walked(source.tree, s)
<1> DEFINE child == Append(p, name)
<1>1. /\ p \in Seq(Names) /\ s \in UpTo(p)
      /\ \A m \in Len(s)..Len(p) : ~Ignored(source.tree, SubSeq(p, 1, m))
  BY WalkedFacts DEF Walked
<1>2. Len(p) \in Nat /\ Len(s) \in Nat
  BY <1>1, OnTheWay
<1>3. child \in Seq(Names) /\ Len(child) = Len(p) + 1 /\ Front(child) = p
  BY <1>1, FrontOfAppend
<1> HIDE DEF child
<1>4. SubSeq(child, 1, Len(p)) = p
  BY <1>2, <1>3 DEF Front
<1>5. p \in UpTo(child)
  <2>1. Len(p) \in 0..Len(child)
    BY <1>2, <1>3
  <2> QED BY <1>3, <1>4, <2>1, AboveIsPrefix
<1>6. s \in UpTo(child)
  BY <1>1, <1>3, <1>5, WayOfWay
<1>7. ASSUME NEW m \in Len(s)..Len(child) PROVE ~Ignored(source.tree, SubSeq(child, 1, m))
  <2>1. CASE m = Len(child)
    BY <1>3, <2>1, SubSeqFull DEF child
  <2>2. CASE m # Len(child)
    <3>1. m \in Len(s)..Len(p) /\ m \in 0..Len(p) /\ Len(p) \in 0..Len(child)
      BY <1>2, <1>3, <2>2
    <3>2. SubSeq(child, 1, m) = SubSeq(p, 1, m)
      BY <1>3, <1>4, <3>1, PrefixOfPrefix
    <3> QED BY <1>1, <3>1, <3>2
  <2> QED BY <2>1, <2>2
<1>8. child \in DOMAIN source.tree
  BY DEF child, Ignored, Reachable
<1> QED BY <1>6, <1>7, <1>8 DEF Walked, child

\* Whatever is listed or open is on the walk of a selected path, and goes by its
\* path from the selected name on.
OnAWalk(abs, rel, dir) ==
    \E k \in DOMAIN source.selection :
        /\ abs \in Walked(source.tree, source.selection[k])
        /\ rel = Relative(source.selection[k], abs)
        /\ dir <=> IsDir(abs)

FoundInv ==
    Calm =>
        /\ \A j \in DOMAIN entries : OnAWalk(entries[j].abs, entries[j].rel, entries[j].dir)
        /\ \A i \in DOMAIN stack : OnAWalk(stack[i].abs, stack[i].rel, TRUE)

\* The paths that are looked at do not lead through the temporary archive.
LEMMA LooksElsewhere ==
    ASSUME BuildTypes, Calm, NEW s \in NonRoot, NEW k \in DOMAIN source.selection,
           s = source.selection[k], NEW p \in Walked(source.tree, s), NEW name \in Names
    PROVE  Tmp \notin UpTo(Append(p, name))
<1>1. p \in Seq(Names) /\ Tmp \notin UpTo(p)
  BY WalkedFacts DEF BuildTypes
<1>2. p # OutDir
  BY DEF Calm, OutputIsElsewhere
<1> DEFINE child == Append(p, name)
<1>3. child \in Seq(Names) /\ child # <<>> /\ Front(child) = p
  BY <1>1, FrontOfAppend
<1>4. child # Tmp
  BY <1>2, <1>3, PathsAssumption, FrontOfAppend DEF Tmp
<1> HIDE DEF child
<1>5. ASSUME Tmp \in UpTo(child) PROVE Tmp \in UpTo(p)
  <2>1. /\ Len(child) \in Nat \ {0} /\ Front(child) = SubSeq(child, 1, Len(child) - 1)
        /\ Len(p) = Len(child) - 1
    BY <1>3, LastOf DEF Front
  <2>2. PICK n \in 0..(Len(child) - 1) : Tmp = SubSeq(child, 1, n)
    BY <1>4, <1>5 DEF UpTo, Above
  <2>3. n \in 0..Len(p) /\ Len(child) - 1 \in 0..Len(child)
    BY <2>1, <2>2
  <2>4. SubSeq(p, 1, n) = SubSeq(child, 1, n)
    BY <1>3, <2>1, <2>2, <2>3, PrefixOfPrefix
  <2> QED BY <1>1, <2>2, <2>3, <2>4, AboveIsPrefix
<1> QED BY <1>1, <1>5 DEF child

\* What is found when one more path is looked at.
LEMMA VisitFinds ==
    ASSUME BuildTypes, NEW abs \in NonRoot, NEW rel \in NonRoot, NEW below \in Seq(Frames),
           Visit(abs, rel, below), Calm, FoundInv,
           ~Ignored(fs, abs) => OnAWalk(abs, rel, fs[abs].kind = "dir"),
           \A i \in DOMAIN below : OnAWalk(below[i].abs, below[i].rel, TRUE)
    PROVE  FoundInv'
<1> DEFINE dir == fs[abs].kind = "dir"
           f == [abs |-> abs, rel |-> rel, names |-> {}]
           e == [rel |-> rel, abs |-> abs, dir |-> dir]
<1>1. source' = source
  BY DEF Visit
<1>2. SUFFICES /\ \A j \in DOMAIN entries' :
                     OnAWalk(entries'[j].abs, entries'[j].rel, entries'[j].dir)
               /\ \A i \in DOMAIN stack' : OnAWalk(stack'[i].abs, stack'[i].rel, TRUE)
  BY <1>1 DEF FoundInv, OnAWalk, IsDir
<1>3. CASE Ignored(fs, abs)
  BY <1>3 DEF Visit, FoundInv
<1>4. CASE ~Ignored(fs, abs)
  <2>1. /\ entries' = Append(entries, e)
        /\ dir => stack' = Append(below, f)
        /\ ~dir => stack' = below
    BY <1>4 DEF Visit, Entered
  <2>2. /\ e \in Listed /\ f \in Frames /\ e.rel = rel /\ e.abs = abs /\ e.dir = dir
        /\ f.rel = rel /\ f.abs = abs
    BY DEF Listed, Frames
  <2>3. OnAWalk(abs, rel, dir)
    BY <1>4
  <2> HIDE DEF e, f, dir
  <2>4. ASSUME NEW j \in DOMAIN entries'
        PROVE  OnAWalk(entries'[j].abs, entries'[j].rel, entries'[j].dir)
    <3>1. /\ entries'[Len(entries) + 1] = e /\ DOMAIN entries' = 1..(Len(entries) + 1)
          /\ \A k \in 1..Len(entries) : entries'[k] = entries[k]
          /\ Len(entries) \in Nat
      BY <2>1, <2>2, OneMoreListed
    <3>2. CASE j = Len(entries) + 1
      BY <2>2, <2>3, <3>1, <3>2
    <3>3. CASE j # Len(entries) + 1
      <4>1. j \in 1..Len(entries) /\ j \in DOMAIN entries
        BY <2>4, <3>1, <3>3 DEF BuildTypes
      <4> QED BY <3>1, <4>1 DEF FoundInv
    <3> QED BY <3>2, <3>3
  <2>5. ASSUME NEW i \in DOMAIN stack'
        PROVE  OnAWalk(stack'[i].abs, stack'[i].rel, TRUE)
    <3>1. CASE ~dir
      BY <2>1, <2>5, <3>1
    <3>2. CASE dir
      <4>1. /\ Len(below) \in Nat /\ DOMAIN stack' = 1..(Len(below) + 1)
            /\ stack'[Len(below) + 1] = f
            /\ \A k \in 1..Len(below) : stack'[k] = below[k]
        BY <2>1, <2>2, <3>2, OneMoreOpen
      <4>2. CASE i = Len(below) + 1
        BY <2>2, <2>3, <3>2, <4>1, <4>2 DEF OnAWalk
      <4>3. CASE i # Len(below) + 1
        <5>1. i \in 1..Len(below) /\ i \in DOMAIN below
          BY <2>5, <4>1, <4>3
        <5> QED BY <4>1, <5>1
      <4> QED BY <4>2, <4>3
    <3> QED BY <3>1, <3>2
  <2> QED BY <2>4, <2>5
<1> QED BY <1>3, <1>4

LEMMA FoundKept ==
    ASSUME BuildTypes, AccountedInv, TreeIsAsFound, FoundInv, [PathsNext]_pathsVars
    PROVE  FoundInv'
<1>1. ASSUME NEW abs \in Seq(Names), Calm, Tmp \notin UpTo(abs), ~Ignored(fs, abs)
      PROVE  ~Ignored(source.tree, abs) /\ (fs[abs].kind = "dir" <=> IsDir(abs))
  BY <1>1, SeenAsFound DEF Calm, Ignored, Reachable, IsDir
<1>2. source.selection \in Seq(NonRoot) /\ source \in Sources
  BY SourceFacts DEF BuildTypes
<1>3. CASE VisitSelected
  <2> DEFINE rel == <<Last(Head(todo))>>
             none == <<>>
  <2>1. /\ Head(todo) \in NonRoot /\ rel \in NonRoot /\ Visit(Head(todo), rel, none)
        /\ Head(todo) = todo[1] /\ Len(todo) \in Nat \ {0}
    BY <1>3, SelectedVisited
  <2>2. Calm' => Calm
    BY <2>1 DEF Visit, Calm, OutputIsElsewhere
  <2>3. CASE ~Calm
    BY <2>2, <2>3 DEF FoundInv
  <2>4. CASE Calm
    <3>1. none \in Seq(Frames) /\ DOMAIN none = {}
      OBVIOUS
    <3>2. PICK k \in DOMAIN source.selection : Head(todo) = source.selection[k]
      <4>1. 1 \in 1..Len(todo) /\ Len(source.selection) \in Nat
        BY <1>2, <2>1
      <4>2. Begun + 1 \in 1..Len(source.selection)
        BY <2>1, <4>1 DEF Begun, AccountedInv
      <4>3. Head(todo) = source.selection[Begun + 1]
        BY <2>1, <4>1 DEF AccountedInv
      <4> QED BY <1>2, <4>2, <4>3
    <3>3. PICK s \in NonRoot : s = Head(todo)
      BY <2>1
    <3>4. Tmp \notin UpTo(s) /\ s \in Seq(Names)
      BY <1>2, <3>2, <3>3, PathsAssumption DEF NonRoot
    <3>5. ASSUME ~Ignored(fs, s) PROVE OnAWalk(s, rel, fs[s].kind = "dir")
      <4>1. ~Ignored(source.tree, s) /\ (fs[s].kind = "dir" <=> IsDir(s))
        BY <1>1, <2>4, <3>4, <3>5
      <4>2. s \in Walked(source.tree, s) /\ rel = Relative(s, s)
        BY <1>2, <3>3, <4>1, WalkBegins, RelativeFacts
      <4> QED BY <3>2, <3>3, <4>1, <4>2 DEF OnAWalk
    <3> HIDE DEF rel, none
    <3> QED BY <2>1, <2>4, <3>1, <3>3, <3>5, VisitFinds
  <2> QED BY <2>3, <2>4
<1>4. CASE VisitChild
  <2>1. PICK name \in Last(stack).names :
           /\ name \in Names
           /\ Append(Last(stack).abs, name) \in NonRoot
           /\ Append(Last(stack).rel, name) \in NonRoot
           /\ Without(name) \in Seq(Frames)
           /\ Visit(Append(Last(stack).abs, name), Append(Last(stack).rel, name), Without(name))
    BY <1>4, ChildVisited
  <2>2. Calm' => Calm
    BY <2>1 DEF Visit, Calm, OutputIsElsewhere
  <2>3. CASE ~Calm
    BY <2>2, <2>3 DEF FoundInv
  <2>4. CASE Calm
    <3>1. /\ DOMAIN Without(name) = 1..Len(stack) /\ Len(stack) \in DOMAIN stack
          /\ Without(name)[Len(stack)].abs = Last(stack).abs
          /\ Without(name)[Len(stack)].rel = Last(stack).rel
          /\ \A k \in DOMAIN stack : k # Len(stack) => Without(name)[k] = stack[k]
      BY <1>4, ChildVisited, WithoutFacts
    <3>2. DOMAIN stack = 1..Len(stack) /\ Last(stack) = stack[Len(stack)]
      BY <1>4, ChildVisited, TopFrame DEF BuildTypes
    <3>3. ASSUME NEW i \in DOMAIN Without(name)
          PROVE  OnAWalk(Without(name)[i].abs, Without(name)[i].rel, TRUE)
      BY <2>4, <3>1, <3>2, <3>3 DEF FoundInv
    <3>4. PICK k \in DOMAIN source.selection :
             /\ Last(stack).abs \in Walked(source.tree, source.selection[k])
             /\ Last(stack).rel = Relative(source.selection[k], Last(stack).abs)
      BY <2>4, <3>1, <3>2 DEF FoundInv, OnAWalk
    <3>5. PICK s \in NonRoot : s = source.selection[k]
      BY <1>2
    <3>6. PICK p \in Walked(source.tree, s) : p = Last(stack).abs
      BY <3>4, <3>5
    <3>7. /\ p \in Seq(Names) /\ s \in UpTo(p) /\ Tmp \notin UpTo(Append(p, name))
      BY <1>2, <2>1, <2>4, <3>5, WalkedFacts, LooksElsewhere
    <3> DEFINE abs == Append(Last(stack).abs, name)
               rel == Append(Last(stack).rel, name)
    <3>8. ASSUME ~Ignored(fs, abs) PROVE OnAWalk(abs, rel, fs[abs].kind = "dir")
      <4>1. abs = Append(p, name) /\ abs \in Seq(Names)
        BY <2>1, <3>6 DEF NonRoot
      <4>2. ~Ignored(source.tree, abs) /\ (fs[abs].kind = "dir" <=> IsDir(abs))
        BY <1>1, <2>4, <3>7, <3>8, <4>1
      <4>3. abs \in Walked(source.tree, s)
        BY <1>2, <2>1, <4>1, <4>2, WalkGoesOn
      <4>4. rel = Relative(s, abs)
        BY <2>1, <3>4, <3>5, <3>6, <3>7, RelativeFacts
      <4> HIDE DEF abs, rel
      <4> QED BY <3>5, <4>2, <4>3, <4>4 DEF OnAWalk
    <3> HIDE DEF abs, rel
    <3>9. abs \in NonRoot /\ rel \in NonRoot /\ Visit(abs, rel, Without(name))
      BY <2>1 DEF abs, rel
    <3> QED BY <2>1, <2>4, <3>3, <3>8, <3>9, VisitFinds
  <2> QED BY <2>3, <2>4
<1>5. ASSUME UNCHANGED <<source, entries>>, Calm' => Calm,
             \A i \in DOMAIN stack' :
                i \in DOMAIN stack /\ stack'[i].abs = stack[i].abs /\ stack'[i].rel = stack[i].rel
      PROVE  FoundInv'
  BY <1>5 DEF FoundInv, OnAWalk, IsDir
<1>6. CASE List
  <2>1. /\ UNCHANGED <<source, entries, changes>> /\ DOMAIN stack' = DOMAIN stack
        /\ \A i \in DOMAIN stack : stack'[i].abs = stack[i].abs /\ stack'[i].rel = stack[i].rel
    BY <1>6, ListFacts
  <2> QED BY <1>5, <2>1 DEF Calm, OutputIsElsewhere
<1>7. CASE Leave
  <2>1. /\ UNCHANGED <<source, entries, changes>>
        /\ \A i \in DOMAIN stack' : i \in DOMAIN stack /\ stack'[i] = stack[i]
    BY <1>7, LeaveFacts
  <2> QED BY <1>5, <2>1 DEF Calm, OutputIsElsewhere
<1>8. CASE Writing \/ UNCHANGED buildVars
  <2>1. UNCHANGED <<source, entries, stack, changes>>
    BY <1>8 DEF Writing, WriteCount, WriteHead, WriteBody, WriteEnds, WriterFails, buildVars
  <2> QED BY <1>5, <2>1 DEF Calm, OutputIsElsewhere
<1>9. CASE (TreeChanges(NewTmp) \/ TreeChanges(NoTmp)) /\ UNCHANGED changes
  <2>1. UNCHANGED <<source, entries, stack, changes>>
    BY <1>9 DEF TreeChanges
  <2> QED BY <1>5, <2>1 DEF Calm, OutputIsElsewhere
<1>10. CASE OthersChange
  <2>1. changes' # 0
    BY <1>10 DEF OthersChange, BuildTypes
  <2> QED BY <2>1 DEF FoundInv, Calm
<1> QED BY <1>3, <1>4, <1>6, <1>7, <1>8, <1>9, <1>10, StepKinds DEF Walking

\* What is selected from different directories has different names.
NamesDiffer ==
    \A k, l \in DOMAIN source.selection :
        Last(source.selection[k]) = Last(source.selection[l]) => k = l

\* A child that may still be visited in an open directory.
Ahead(i, name) == name \in stack[i].names \/ (step = "list" /\ i = Len(stack))

\* Then no two entries have the same path: nothing is listed below a child that
\* is still to visit, and the open directories lie within each other.
NoneBelow(path) == \A j \in DOMAIN entries : path \notin UpTo(entries[j].rel)

UniqueInv ==
    /\ \A i \in DOMAIN stack : Len(stack[i].rel) = i
    /\ \A j \in DOMAIN entries : \E k \in 1..Begun : entries[j].rel[1] = Last(source.selection[k])
    /\ NamesDiffer =>
          /\ \A i \in DOMAIN stack : \A name \in Names :
                Ahead(i, name) => NoneBelow(Append(stack[i].rel, name))
          /\ \A j, l \in DOMAIN entries : entries[j].rel = entries[l].rel => j = l

\* The prefixes of a path and of one that is a name longer.
LEMMA LongerPath ==
    ASSUME NEW p \in Seq(Names), NEW name \in Names
    PROVE  /\ Append(p, name) \in Seq(Names) /\ Len(Append(p, name)) = Len(p) + 1
           /\ p \in UpTo(Append(p, name)) /\ Append(p, name) \notin UpTo(p)
           /\ p # <<>> => Append(p, name)[1] = p[1]
           /\ \A q \in UpTo(Append(p, name)) : Len(q) <= Len(p) => q \in UpTo(p)
           /\ \A q \in UpTo(Append(p, name)) : Len(q) > Len(p) => q = Append(p, name)
<1> DEFINE child == Append(p, name)
<1>1. /\ child \in Seq(Names) /\ Len(child) = Len(p) + 1 /\ Front(child) = p
      /\ Len(p) \in Nat
  BY FrontOfAppend
<1>2. \A j \in 1..Len(p) : child[j] = p[j]
  BY AppendProperties
<1> HIDE DEF child
<1>3. /\ SubSeq(child, 1, Len(p)) = p /\ Len(p) \in 0..Len(child)
  BY <1>1 DEF Front
<1>4. p \in UpTo(child)
  BY <1>1, <1>3, AboveIsPrefix
<1>5. child \notin UpTo(p)
  <2>1. \A q \in UpTo(p) : Len(q) \in 0..Len(p)
    BY OnTheWay
  <2> QED BY <1>1, <2>1
<1>6. p # <<>> => child[1] = p[1]
  <2>1. p # <<>> => Len(p) \in Nat \ {0}
    BY EmptySeq
  <2>2. p # <<>> => 1 \in 1..Len(p)
    BY <2>1
  <2> QED BY <1>2, <2>2
<1>7. ASSUME NEW q \in UpTo(child), Len(q) <= Len(p) PROVE q \in UpTo(p)
  <2>1. Len(q) \in 0..Len(p) /\ q = SubSeq(child, 1, Len(q))
    BY <1>1, <1>7, OnTheWay
  <2>2. SubSeq(child, 1, Len(q)) = SubSeq(p, 1, Len(q))
    BY <1>1, <1>3, <2>1, PrefixOfPrefix
  <2> QED BY <2>1, <2>2, AboveIsPrefix
<1>8. ASSUME NEW q \in UpTo(child), Len(q) > Len(p) PROVE q = child
  <2>1. Len(q) \in 0..Len(child) /\ q = SubSeq(child, 1, Len(q))
    BY <1>1, OnTheWay
  <2>2. Len(q) = Len(child)
    <3>1. \A m, n \in Nat : n \in 0..(m + 1) /\ n > m => n = m + 1
      OBVIOUS
    <3>2. Len(p) \in Nat /\ Len(q) \in Nat /\ Len(q) \in 0..(Len(p) + 1)
      BY <1>1, <2>1
    <3> QED BY <1>1, <1>8, <3>1, <3>2
  <2>3. SubSeq(child, 1, Len(child)) = child
    BY <1>1, SubSeqFull
  <2> QED BY <2>1, <2>2, <2>3
<1> QED BY <1>1, <1>4, <1>5, <1>6, <1>7, <1>8 DEF child

LEMMA VisitUnique ==
    ASSUME BuildTypes, UniqueInv,
           NEW abs \in NonRoot, NEW rel \in NonRoot, NEW below \in Seq(Frames),
           Visit(abs, rel, below), Len(todo) \in Nat, Len(source.selection) \in Nat,
           Len(todo') \in Nat, Len(todo') <= Len(todo),
           Len(rel) = Len(below) + 1, \A i \in DOMAIN below : Len(below[i].rel) = i,
           \E k \in 1..Begun' : rel[1] = Last(source.selection[k]),
           NamesDiffer =>
              /\ NoneBelow(rel)
              /\ \A i \in DOMAIN below : \A name \in below[i].names :
                    /\ NoneBelow(Append(below[i].rel, name))
                    /\ Append(below[i].rel, name) \notin UpTo(rel)
    PROVE  UniqueInv'
<1> DEFINE dir == fs[abs].kind = "dir"
           f == [abs |-> abs, rel |-> rel, names |-> {}]
           e == [rel |-> rel, abs |-> abs, dir |-> dir]
<1>0. Begun \in Int /\ Begun' \in Int /\ Begun <= Begun' /\ source' = source
  <2>1. source' = source
    BY DEF Visit
  <2> QED BY <2>1 DEF Begun
<1>1. NamesDiffer' <=> NamesDiffer
  BY <1>0 DEF NamesDiffer
<1>2. /\ rel \in Seq(Names) /\ Len(rel) \in Nat /\ rel \in UpTo(rel)
      /\ \A i \in DOMAIN below : below[i] \in Frames
  BY DEF NonRoot, UpTo
<1>3. CASE Ignored(fs, abs)
  <2>1. entries' = entries /\ stack' = below /\ step' = "walk"
    BY <1>3 DEF Visit
  <2>2. \A k \in 1..Begun : k \in 1..Begun'
    BY <1>0
  <2>3. ASSUME NamesDiffer, NEW i \in DOMAIN below, NEW name \in Names, Ahead(i, name)'
        PROVE  NoneBelow(Append(below[i].rel, name))
    <3>1. name \in below[i].names
      BY <2>1, <2>3 DEF Ahead
    <3> QED BY <2>3, <3>1
  <2> QED BY <1>0, <1>1, <2>1, <2>2, <2>3 DEF UniqueInv, NoneBelow
<1>4. CASE ~Ignored(fs, abs)
  <2>1. /\ entries' = Append(entries, e)
        /\ dir => stack' = Append(below, f) /\ step' = "list"
        /\ ~dir => stack' = below /\ step' = "walk"
    BY <1>4 DEF Visit, Entered
  <2>2. /\ e \in Listed /\ f \in Frames /\ e.rel = rel /\ f.rel = rel /\ f.names = {}
    BY DEF Listed, Frames
  <2> HIDE DEF e, f, dir
  <2>3. /\ entries'[Len(entries) + 1] = e /\ DOMAIN entries' = 1..(Len(entries) + 1)
        /\ \A k \in 1..Len(entries) : entries'[k] = entries[k]
        /\ Len(entries) \in Nat /\ DOMAIN entries = 1..Len(entries)
    BY <2>1, <2>2, OneMoreListed DEF BuildTypes
  <2>4. \A j \in DOMAIN entries' :
           \/ j = Len(entries) + 1 /\ entries'[j].rel = rel
           \/ j # Len(entries) + 1 /\ j \in DOMAIN entries /\ entries'[j].rel = entries[j].rel
    BY <2>2, <2>3
  <2>5. \/ stack' = below /\ step' = "walk"
        \/ /\ step' = "list" /\ Len(stack') = Len(below) + 1
           /\ Len(below) \in Nat /\ DOMAIN stack' = 1..(Len(below) + 1)
           /\ stack'[Len(below) + 1] = f
           /\ \A k \in 1..Len(below) : stack'[k] = below[k]
    BY <2>1, <2>2, OneMoreOpen
  <2>6. \A i \in DOMAIN stack' :
           \/ i \in DOMAIN below /\ stack'[i] = below[i] /\ (step' = "list" => i # Len(stack'))
           \/ i = Len(below) + 1 /\ stack'[i] = f /\ i = Len(stack')
    BY <2>5
  <2>7. ASSUME NEW i \in DOMAIN stack' PROVE Len(stack'[i].rel) = i
    BY <2>2, <2>6
  <2>8. ASSUME NEW j \in DOMAIN entries'
        PROVE  \E k \in 1..Begun' : entries'[j].rel[1] = Last(source'.selection[k])
    <3>1. \A k \in 1..Begun : k \in 1..Begun'
      BY <1>0
    <3> QED BY <1>0, <2>4, <3>1 DEF UniqueInv
  <2>9. ASSUME NamesDiffer, NEW i \in DOMAIN stack', NEW name \in Names, Ahead(i, name)',
               NEW j \in DOMAIN entries'
        PROVE  Append(stack'[i].rel, name) \notin UpTo(entries'[j].rel)
    <3>1. CASE i \in DOMAIN below /\ stack'[i] = below[i] /\ (step' = "list" => i # Len(stack'))
      <4>1. name \in below[i].names
        BY <2>9, <3>1 DEF Ahead
      <4>2. NoneBelow(Append(below[i].rel, name)) /\ Append(below[i].rel, name) \notin UpTo(rel)
        BY <2>9, <3>1, <4>1
      <4> QED BY <2>4, <3>1, <4>2 DEF NoneBelow
    <3>2. CASE stack'[i] = f
      <4>1. stack'[i].rel = rel
        BY <2>2, <3>2
      <4>2. CASE entries'[j].rel = rel
        BY <1>2, <4>1, <4>2, LongerPath
      <4>3. CASE j \in DOMAIN entries /\ entries'[j].rel = entries[j].rel
        <5>1. rel \notin UpTo(entries[j].rel)
          BY <2>9, <4>3 DEF NoneBelow
        <5>2. entries[j].rel \in Seq(Names)
          <6>1. entries \in Seq(Listed)
            BY DEF BuildTypes
          <6>2. entries[j] \in Listed
            BY <4>3, <6>1
          <6> QED BY <6>2 DEF Listed, NonRoot
        <5>3. rel \in UpTo(Append(rel, name))
          BY <1>2, LongerPath
        <5>4. Append(rel, name) \notin UpTo(entries[j].rel)
          BY <5>1, <5>2, <5>3, WayOfWay
        <5> QED BY <4>1, <4>3, <5>4
      <4> QED BY <2>4, <4>2, <4>3
    <3> QED BY <2>6, <3>1, <3>2
  <2>10. ASSUME NamesDiffer, NEW j \in DOMAIN entries', NEW l \in DOMAIN entries',
                entries'[j].rel = entries'[l].rel
         PROVE  j = l
    <3>1. ASSUME NEW k \in DOMAIN entries PROVE entries[k].rel # rel
      <4>1. rel \notin UpTo(entries[k].rel) /\ entries[k].rel \in UpTo(entries[k].rel)
        BY <2>10 DEF NoneBelow, UpTo
      <4> QED BY <4>1
    <3> QED BY <2>4, <2>10, <3>1 DEF UniqueInv
  <2> QED BY <1>1, <2>7, <2>8, <2>9, <2>10 DEF UniqueInv, NoneBelow
<1> QED BY <1>3, <1>4

\* An open directory is in the list, by the path that its children begin with.
LEMMA OpenIsListed ==
    ASSUME BuildTypes, ParentsInv, NEW i \in DOMAIN stack
    PROVE  \E j \in DOMAIN entries : entries[j].rel = stack[i].rel
<1>1. PICK j \in 1..Len(entries) : entries[j].rel = stack[i].rel
  BY DEF ParentsInv, IsListed
<1>2. DOMAIN entries = 1..Len(entries)
  BY DEF BuildTypes
<1> QED BY <1>1, <1>2

LEMMA SelectedUnique ==
    ASSUME BuildTypes, AccountedInv, UniqueInv, VisitSelected
    PROVE  UniqueInv'
<1> DEFINE rel == <<Last(Head(todo))>>
           none == <<>>
<1>1. /\ todo # <<>> /\ Len(todo) \in Nat \ {0} /\ Head(todo) = todo[1]
      /\ todo' = Tail(todo) /\ Len(Tail(todo)) = Len(todo) - 1
      /\ Head(todo) \in NonRoot /\ rel \in NonRoot /\ Visit(Head(todo), rel, none)
  BY SelectedVisited
<1>2. source.selection \in Seq(NonRoot) /\ source' = source
  BY <1>1, SourceFacts DEF BuildTypes, Visit
<1>3. /\ Len(source.selection) \in Nat /\ Len(todo') \in Nat /\ Len(todo') = Len(todo) - 1
      /\ Len(todo) <= Len(source.selection)
  BY <1>1, <1>2 DEF AccountedInv
<1>4. Begun \in Nat /\ Begun' = Begun + 1 /\ Begun + 1 \in DOMAIN source.selection
  BY <1>1, <1>2, <1>3 DEF Begun
<1>5. rel[1] = Last(source.selection[Begun + 1]) /\ Begun + 1 \in 1..Begun'
  <2>1. 1 \in 1..Len(todo)
    BY <1>1
  <2>2. Head(todo) = source.selection[Begun + 1]
    BY <1>1, <2>1 DEF AccountedInv
  <2> QED BY <1>4, <2>2
<1>6. Len(rel) = Len(none) + 1 /\ none \in Seq(Frames) /\ DOMAIN none = {}
  OBVIOUS
<1>7. ASSUME NamesDiffer PROVE NoneBelow(rel)
  <2> SUFFICES ASSUME NEW j \in DOMAIN entries, rel \in UpTo(entries[j].rel) PROVE FALSE
    BY DEF NoneBelow
  <2>1. PICK k \in 1..Begun : entries[j].rel[1] = Last(source.selection[k])
    BY DEF UniqueInv
  <2>2. entries[j].rel \in Seq(Names)
    <3>1. entries \in Seq(Listed)
      BY DEF BuildTypes
    <3>2. entries[j] \in Listed
      BY <3>1
    <3> QED BY <3>2 DEF Listed, NonRoot
  <2>3. rel[1] = entries[j].rel[1]
    <3>0. Len(rel) = 1
      OBVIOUS
    <3> HIDE DEF rel
    <3>1. /\ rel = SubSeq(entries[j].rel, 1, Len(rel))
          /\ Len(rel) \in 0..Len(entries[j].rel)
      BY <2>2, OnTheWay
    <3>2. 1 \in 0..Len(entries[j].rel) /\ rel = SubSeq(entries[j].rel, 1, 1)
      BY <3>0, <3>1
    <3>3. \A m \in 1..1 : rel[m] = entries[j].rel[m]
      BY <2>2, <3>2, Prefix
    <3> QED BY <3>3
  <2>4. k \in DOMAIN source.selection /\ k # Begun + 1
    BY <1>2, <1>3, <1>4
  <2> QED BY <1>4, <1>5, <1>7, <2>1, <2>3, <2>4 DEF NamesDiffer
<1> HIDE DEF rel, none
<1>8. \E k \in 1..Begun' : rel[1] = Last(source.selection[k])
  BY <1>5
<1>9. Len(todo') <= Len(todo) /\ Len(todo) \in Nat
  BY <1>1, <1>3
<1>10. \A i \in DOMAIN none : FALSE
  BY <1>6
<1> QED BY <1>1, <1>3, <1>6, <1>7, <1>8, <1>9, <1>10, VisitUnique

LEMMA ChildUnique ==
    ASSUME BuildTypes, AccountedInv, ParentsInv, UniqueInv, VisitChild
    PROVE  UniqueInv'
<1>1. PICK name \in Last(stack).names :
         /\ name \in Names
         /\ Append(Last(stack).abs, name) \in NonRoot
         /\ Append(Last(stack).rel, name) \in NonRoot
         /\ Without(name) \in Seq(Frames)
         /\ Visit(Append(Last(stack).abs, name), Append(Last(stack).rel, name), Without(name))
  BY ChildVisited
<1>2. step = "walk" /\ stack # <<>> /\ todo' = todo
  BY ChildVisited
<1>3. /\ Len(stack) \in DOMAIN stack /\ DOMAIN Without(name) = 1..Len(stack)
      /\ Len(Without(name)) = Len(stack)
      /\ Without(name)[Len(stack)].rel = Last(stack).rel
      /\ Without(name)[Len(stack)].names = Last(stack).names \ {name}
      /\ \A k \in DOMAIN stack : k # Len(stack) => Without(name)[k] = stack[k]
  BY <1>2, WithoutFacts
<1>4. /\ DOMAIN stack = 1..Len(stack) /\ Last(stack) = stack[Len(stack)]
      /\ Last(stack).rel \in NonRoot /\ Len(stack) \in Nat
  BY <1>2, TopFrame DEF BuildTypes
<1> DEFINE abs == Append(Last(stack).abs, name)
           top == Last(stack).rel
           rel == Append(top, name)
           below == Without(name)
<1>5. /\ abs \in NonRoot /\ rel \in NonRoot /\ below \in Seq(Frames) /\ Visit(abs, rel, below)
  BY <1>1
<1>6. /\ Len(todo) \in Nat /\ Len(source.selection) \in Nat /\ Len(todo') = Len(todo)
      /\ source' = source /\ Begun' = Begun
  <2>1. source.selection \in Seq(NonRoot) /\ todo \in Seq(NonRoot) /\ source' = source
    BY <1>1, SourceFacts DEF BuildTypes, Visit
  <2> QED BY <1>2, <2>1 DEF Begun
<1>7. /\ top \in Seq(Names) /\ top # <<>> /\ Len(top) = Len(stack)
      /\ rel \in Seq(Names) /\ Len(rel) = Len(stack) + 1 /\ rel[1] = top[1]
      /\ top \in UpTo(rel)
  <2>1. top \in Seq(Names) /\ top # <<>> /\ Len(top) = Len(stack)
    BY <1>3, <1>4 DEF NonRoot, UniqueInv
  <2> QED BY <1>1, <2>1, LongerPath
<1>8. PICK t \in DOMAIN entries : entries[t].rel = top
  BY <1>3, <1>4, OpenIsListed
<1>9. \E k \in 1..Begun' : rel[1] = Last(source.selection[k])
  BY <1>6, <1>7, <1>8 DEF UniqueInv
<1>10. /\ DOMAIN below = DOMAIN stack
       /\ \A i \in DOMAIN stack : below[i].rel = stack[i].rel /\ below[i].names \subseteq stack[i].names
       /\ name \notin below[Len(stack)].names
  BY <1>3, <1>4
<1> HIDE DEF abs, rel, below
<1>11. \A i \in DOMAIN below : Len(below[i].rel) = i
  BY <1>10 DEF UniqueInv
<1>12. ASSUME NamesDiffer PROVE NoneBelow(rel)
  BY <1>1, <1>3, <1>4, <1>12 DEF UniqueInv, Ahead, rel
<1>13. ASSUME NamesDiffer, NEW i \in DOMAIN below, NEW n \in below[i].names
       PROVE  NoneBelow(Append(below[i].rel, n)) /\ Append(below[i].rel, n) \notin UpTo(rel)
  <2>1. i \in DOMAIN stack /\ below[i].rel = stack[i].rel /\ n \in stack[i].names
    BY <1>10, <1>13
  <2>2. stack[i] \in Frames
    BY <2>1 DEF BuildTypes
  <2>3. n \in Names /\ stack[i].rel \in Seq(Names) /\ Len(stack[i].rel) = i
    BY <2>1, <2>2 DEF Frames, NonRoot, UniqueInv
  <2>4. NoneBelow(Append(stack[i].rel, n))
    BY <1>13, <2>1, <2>3 DEF UniqueInv, Ahead
  <2>5. Len(Append(stack[i].rel, n)) = i + 1 /\ i \in 1..Len(stack)
    BY <1>4, <2>1, <2>3, LongerPath
  <2>6. ASSUME Append(stack[i].rel, n) \in UpTo(rel) PROVE FALSE
    <3>1. CASE i = Len(stack)
      <4>1. Len(Append(stack[i].rel, n)) > Len(top)
        BY <1>4, <1>7, <2>5, <3>1
      <4>2. Append(stack[i].rel, n) = rel
        BY <1>1, <1>7, <2>6, <4>1, LongerPath DEF rel
      <4>3. Last(Append(stack[i].rel, n)) = n /\ Last(rel) = name
        BY <1>1, <1>7, <2>3, FrontOfAppend DEF rel
      <4>4. n = name
        BY <4>2, <4>3
      <4> QED BY <1>10, <1>13, <3>1, <4>4
    <3>2. CASE i # Len(stack)
      <4>1. Len(Append(stack[i].rel, n)) <= Len(top)
        BY <1>4, <1>7, <2>5, <3>2
      <4>2. Append(stack[i].rel, n) \in UpTo(top)
        BY <1>1, <1>7, <2>6, <4>1, LongerPath DEF rel
      <4> QED BY <1>8, <2>4, <4>2 DEF NoneBelow
    <3> QED BY <3>1, <3>2
  <2> QED BY <2>1, <2>4, <2>6
<1>14. Len(rel) = Len(below) + 1
  BY <1>3, <1>7 DEF below
<1>15. Len(todo') \in Nat /\ Len(todo') <= Len(todo)
  BY <1>6
<1> QED BY <1>5, <1>6, <1>9, <1>11, <1>12, <1>13, <1>14, <1>15, VisitUnique

LEMMA UniqueKept ==
    ASSUME BuildTypes, AccountedInv, ParentsInv, UniqueInv, [PathsNext]_pathsVars
    PROVE  UniqueInv'
<1>1. ASSUME UNCHANGED <<source, todo, entries>>,
             \A i \in DOMAIN stack' :
                /\ i \in DOMAIN stack /\ stack'[i].rel = stack[i].rel
                /\ \A name \in Names : Ahead(i, name)' => Ahead(i, name)
      PROVE  UniqueInv'
  BY <1>1 DEF UniqueInv, NoneBelow, Begun, NamesDiffer
<1>2. CASE List
  <2>1. /\ UNCHANGED <<source, todo, entries>> /\ step = "list" /\ DOMAIN stack' = DOMAIN stack
        /\ \A i \in DOMAIN stack : stack'[i].rel = stack[i].rel
        /\ \A i \in DOMAIN stack : i # Len(stack) => stack'[i] = stack[i]
    BY <1>2, ListFacts
  <2>2. step' # "list"
    BY <1>2, ListFacts
  <2>3. ASSUME NEW i \in DOMAIN stack', NEW name, Ahead(i, name)' PROVE Ahead(i, name)
    BY <2>1, <2>2, <2>3 DEF Ahead
  <2> QED BY <1>1, <2>1, <2>3
<1>3. CASE Leave
  <2>1. /\ UNCHANGED <<source, todo, entries>> /\ step' = "walk"
        /\ \A i \in DOMAIN stack' : i \in DOMAIN stack /\ stack'[i] = stack[i]
    BY <1>3, LeaveFacts
  <2>2. ASSUME NEW i \in DOMAIN stack', NEW name, Ahead(i, name)' PROVE Ahead(i, name)
    BY <2>1, <2>2 DEF Ahead
  <2> QED BY <1>1, <2>1, <2>2
<1>4. ASSUME UNCHANGED <<source, todo, entries, stack>>, step' = "list" => step = "list"
      PROVE  UniqueInv'
  <2>1. ASSUME NEW i, NEW name, Ahead(i, name)' PROVE Ahead(i, name)
    BY <1>4, <2>1 DEF Ahead
  <2> QED BY <1>1, <1>4, <2>1
<1>5. CASE Writing
  <2>1. UNCHANGED <<source, todo, entries, stack>> /\ step' # "list"
    BY <1>5 DEF Writing, WriteCount, WriteHead, WriteBody, WriteEnds, WriterFails, Failing
  <2> QED BY <1>4, <2>1
<1>6. CASE \/ (TreeChanges(NewTmp) \/ TreeChanges(NoTmp)) /\ UNCHANGED changes
           \/ OthersChange \/ UNCHANGED buildVars
  BY <1>4, <1>6 DEF TreeChanges, OthersChange, buildVars
<1> QED BY <1>2, <1>3, <1>5, <1>6, SelectedUnique, ChildUnique, StepKinds DEF Walking

\* What is written of an entry is what the call found: its mode and its content.
NodeOf(j) == source.tree[entries[j].abs]

WrittenAsFound(j) ==
    /\ written[j] = AsWritten(entries[j], NodeOf(j).mode, NodeOf(j).content,
                              IF entries[j].dir THEN 0 ELSE StoredLen[NodeOf(j).content])
    /\ NodeOf(j).kind = IF entries[j].dir THEN "dir" ELSE "file"

WholeInv ==
    Calm =>
        /\ step = "body" => permissions = source.tree[Entry.abs].mode
        /\ \A j \in DOMAIN written : WrittenAsFound(j)

\* The entry at hand is looked at as the call found it.
LEMMA EntryAsFound ==
    ASSUME BuildTypes, TreeIsAsFound, FoundInv, Calm, Len(written) < Len(entries)
    PROVE  LET p == Entry.abs IN
           /\ Reachable(fs, p) /\ fs[p] = source.tree[p] /\ ModeAt(p) = source.tree[p].mode
           /\ source.tree[p].kind # "link" /\ p \in DOMAIN source.tree
           /\ Entry.dir <=> source.tree[p].kind = "dir"
           /\ Entry.dir => source.tree[p].content = NoContent
<1>1. Entry = entries[Len(written) + 1] /\ Len(written) + 1 \in DOMAIN entries
  BY EntryAtHand DEF Entry
<1>2. PICK k \in DOMAIN source.selection :
         /\ Entry.abs \in Walked(source.tree, source.selection[k])
         /\ Entry.dir <=> IsDir(Entry.abs)
  BY <1>1 DEF FoundInv, OnAWalk
<1>3. PICK s \in NonRoot : s = source.selection[k]
  BY SourceFacts DEF BuildTypes
<1>4. PICK p \in Walked(source.tree, s) : p = Entry.abs
  BY <1>2, <1>3
<1>5. /\ p \in Seq(Names) /\ p \in DOMAIN source.tree /\ Reachable(source.tree, p)
      /\ source.tree[p].kind # "link" /\ Tmp \notin UpTo(p)
  BY WalkedFacts DEF BuildTypes
<1>6. Reachable(fs, p) /\ fs[p] = source.tree[p]
  BY <1>5, SeenAsFound DEF Calm
<1>7. ModeAt(p) = source.tree[p].mode
  BY <1>6 DEF ModeAt
<1>8. source.tree[p].kind = "dir" => source.tree[p].content = NoContent
  BY <1>5, SourceAssumption DEF BuildTypes
<1> QED BY <1>2, <1>4, <1>5, <1>6, <1>7, <1>8 DEF IsDir

LEMMA WholeKept ==
    ASSUME BuildTypes, WrittenInv, TreeIsAsFound, FoundInv, WholeInv, [PathsNext]_pathsVars
    PROVE  WholeInv'
<1>1. ASSUME UNCHANGED <<source, entries, written, permissions>>, Calm' => Calm,
             step' = "body" => step = "body"
      PROVE  WholeInv'
  BY <1>1 DEF WholeInv, WrittenAsFound, NodeOf, Entry
<1>2. CASE Walking
  <2>1. written' = <<>> /\ step' # "body"
    BY <1>2, WalkingLeaves DEF WrittenInv
  <2> QED BY <2>1 DEF WholeInv
<1>3. CASE Writing
  <2>1. step = "body" => Len(written) < Len(entries) /\ ~Entry.dir
    BY DEF WrittenInv
  <2>2. UNCHANGED <<fs, source, entries, changes>>
    BY <1>3 DEF Writing, WriteCount, WriteHead, WriteBody, WriteEnds, WriterFails
  <2>3. Calm' <=> Calm
    BY <2>2 DEF Calm, OutputIsElsewhere
  <2>4. SUFFICES ASSUME Calm PROVE WholeInv'
    BY <2>3 DEF WholeInv
  <2>5. CASE WriteCount \/ WriteEnds \/ WriterFails
    <3>1. UNCHANGED <<written, permissions>> /\ step' # "body"
      BY <2>5 DEF WriteCount, WriteEnds, WriterFails, Failing
    <3> QED BY <1>1, <2>2, <2>3, <3>1
  \* One more entry is written, as it was found.
  <2>6. ASSUME Len(written) < Len(entries), step' = "head",
               NEW mode, NEW content, NEW size,
               mode = source.tree[Entry.abs].mode, content = source.tree[Entry.abs].content,
               size = IF Entry.dir THEN 0 ELSE StoredLen[content],
               source.tree[Entry.abs].kind = IF Entry.dir THEN "dir" ELSE "file",
               AsWritten(Entry, mode, content, size) \in EntryRecords,
               written' = Append(written, AsWritten(Entry, mode, content, size))
        PROVE  WholeInv'
    <3>1. written \in Seq(EntryRecords) /\ Len(written) \in Nat
      BY DEF BuildTypes
    <3>2. /\ DOMAIN written' = 1..(Len(written) + 1)
          /\ written'[Len(written) + 1] = AsWritten(Entry, mode, content, size)
          /\ \A k \in 1..Len(written) : written'[k] = written[k]
      BY <2>6, <3>1, AppendProperties
    <3>3. ASSUME NEW j \in DOMAIN written' PROVE WrittenAsFound(j)'
      <4>1. CASE j = Len(written) + 1
        <5>1. Entry = entries[j]
          BY <4>1 DEF Entry
        <5> QED BY <2>2, <2>6, <3>2, <4>1, <5>1 DEF WrittenAsFound, NodeOf
      <4>2. CASE j # Len(written) + 1
        <5>1. j \in 1..Len(written) /\ j \in DOMAIN written
          BY <3>1, <3>2, <3>3, <4>2
        <5>2. WrittenAsFound(j) /\ written'[j] = written[j]
          BY <2>4, <3>2, <5>1 DEF WholeInv
        <5> QED BY <2>2, <5>2 DEF WrittenAsFound, NodeOf
      <4> QED BY <4>1, <4>2
    <3> QED BY <2>6, <3>3 DEF WholeInv
  <2>7. CASE WriteHead
    <3>1. Len(written) < Len(entries) /\ step = "head"
      BY <2>7 DEF WriteHead
    <3>2. /\ ModeAt(Entry.abs) = source.tree[Entry.abs].mode
          /\ Entry.dir <=> source.tree[Entry.abs].kind = "dir"
          /\ Entry.dir => source.tree[Entry.abs].content = NoContent
      BY <2>4, <3>1, EntryAsFound
    <3>3. ModeAt(Entry.abs) \in SUBSET ModeBits /\ Entry \in Listed
      BY <3>1, ModeIsMode, EntryAtHand DEF BuildTypes
    <3>4. CASE Len(Entry.rel) > MaxPathLen
      <4>1. UNCHANGED <<written, permissions>> /\ step' = "done"
        BY <2>7, <3>4 DEF WriteHead, Failing
      <4> QED BY <1>1, <2>2, <2>3, <4>1
    <3>5. CASE ~(Len(Entry.rel) > MaxPathLen) /\ ~Entry.dir
      <4>1. written' = written /\ permissions' = ModeAt(Entry.abs) /\ Entry' = Entry
        BY <2>2, <2>7, <3>5 DEF WriteHead, Entry
      <4>2. permissions' = source'.tree[Entry'.abs].mode
        BY <2>2, <3>2, <4>1
      <4> QED BY <2>2, <2>4, <4>1, <4>2 DEF WholeInv, WrittenAsFound, NodeOf
    <3>6. CASE ~(Len(Entry.rel) > MaxPathLen) /\ Entry.dir
      <4>1. step' = "head" /\ written' = Append(written, AsWritten(Entry, ModeAt(Entry.abs), NoContent, 0))
        BY <2>7, <3>1, <3>6 DEF WriteHead
      <4>2. AsWritten(Entry, ModeAt(Entry.abs), NoContent, 0) \in EntryRecords
        BY <3>3, EntryWritten
      <4> QED BY <2>6, <3>1, <3>2, <3>6, <4>1, <4>2
    <3> QED BY <3>4, <3>5, <3>6
  <2>8. CASE WriteBody
    <3>1. step = "body" /\ Len(written) < Len(entries) /\ ~Entry.dir
      BY <2>1, <2>8 DEF WriteBody
    <3>2. CASE ~Holds(Entry.abs)
      <4>1. UNCHANGED <<written, permissions>> /\ step' = "done"
        BY <2>8, <3>2 DEF WriteBody, Failing
      <4> QED BY <1>1, <2>2, <2>3, <4>1
    <3>3. CASE Holds(Entry.abs)
      <4>1. /\ fs[Entry.abs] = source.tree[Entry.abs]
            /\ source.tree[Entry.abs].kind # "link"
        BY <2>4, <3>1, EntryAsFound
      <4>2. source.tree[Entry.abs].kind = "file"
        BY <3>3, <4>1 DEF Holds
      <4>3. permissions = source.tree[Entry.abs].mode
        BY <2>4, <3>1 DEF WholeInv
      <4>4. PICK content : content = fs[Entry.abs].content
        OBVIOUS
      <4>5. content \in Contents
        BY <3>3, <4>4 DEF Holds, Reachable, BuildTypes, GoodNodes, Nodes
      <4>6. /\ step' = "head"
            /\ written' = Append(written, AsWritten(Entry, permissions, content, StoredLen[content]))
        BY <2>8, <3>3, <4>4 DEF WriteBody
      <4>7. AsWritten(Entry, permissions, content, StoredLen[content]) \in EntryRecords
        BY <3>1, <4>5, EntryWritten, EntryAtHand, ContentAssumption DEF BuildTypes
      <4> QED BY <2>6, <3>1, <4>1, <4>2, <4>3, <4>4, <4>6, <4>7
    <3> QED BY <3>2, <3>3
  <2> QED BY <1>3, <2>5, <2>7, <2>8 DEF Writing
<1>4. CASE (TreeChanges(NewTmp) \/ TreeChanges(NoTmp)) /\ UNCHANGED changes
  <2>1. UNCHANGED <<source, entries, written, permissions, changes, step>>
    BY <1>4 DEF TreeChanges
  <2> QED BY <1>1, <2>1 DEF Calm, OutputIsElsewhere
<1>5. CASE UNCHANGED buildVars
  BY <1>1, <1>5 DEF buildVars, Calm, OutputIsElsewhere
<1>6. CASE OthersChange
  <2>1. changes' # 0
    BY <1>6 DEF OthersChange, BuildTypes
  <2> QED BY <2>1 DEF WholeInv, Calm
<1> QED BY <1>2, <1>3, <1>4, <1>5, <1>6, StepKinds

-----------------------------------------------------------------------------
(* Building: the order of the entries, and the warnings.                   *)

\* p comes before q in another branch of the tree.
Beside(p, q) ==
    \E k \in DOMAIN p \cap DOMAIN q :
        p[k] < q[k] /\ SubSeq(p, 1, k - 1) = SubSeq(q, 1, k - 1)

LEMMA BesideGrows ==
    ASSUME NEW p \in Seq(Names), NEW q \in Seq(Names), Beside(p, q), NEW n \in Names
    PROVE  Beside(Append(p, n), q) /\ Beside(p, Append(q, n))
<1>1. PICK k \in DOMAIN p \cap DOMAIN q :
          p[k] < q[k] /\ SubSeq(p, 1, k - 1) = SubSeq(q, 1, k - 1)
  BY DEF Beside
<1>2. ASSUME NEW r \in Seq(Names), k \in DOMAIN r
      PROVE  /\ k \in DOMAIN Append(r, n) /\ Append(r, n)[k] = r[k]
             /\ SubSeq(Append(r, n), 1, k - 1) = SubSeq(r, 1, k - 1)
  <2> DEFINE longer == Append(r, n)
  <2>1. /\ longer \in Seq(Names) /\ Len(longer) = Len(r) + 1 /\ Front(longer) = r
        /\ Len(r) \in Nat /\ k \in 1..Len(r) /\ \A j \in 1..Len(r) : longer[j] = r[j]
    BY <1>2, FrontOfAppend, AppendProperties
  <2> HIDE DEF longer
  <2>2. SubSeq(longer, 1, Len(r)) = r
    BY <2>1 DEF Front
  <2>3. Len(r) \in 0..Len(longer) /\ k - 1 \in 0..Len(r) /\ k \in DOMAIN longer
    BY <2>1
  <2>4. SubSeq(longer, 1, k - 1) = SubSeq(r, 1, k - 1)
    BY <2>1, <2>2, <2>3, PrefixOfPrefix
  <2> QED BY <2>1, <2>3, <2>4 DEF longer
<1>3. k \in DOMAIN p /\ k \in DOMAIN q
  OBVIOUS
<1>4. Beside(Append(p, n), q)
  <2> DEFINE longer == Append(p, n)
  <2>1. k \in DOMAIN longer /\ longer[k] = p[k] /\ SubSeq(longer, 1, k - 1) = SubSeq(p, 1, k - 1)
    BY <1>2, <1>3
  <2> HIDE DEF longer
  <2>2. k \in DOMAIN longer \cap DOMAIN q /\ longer[k] < q[k]
    BY <1>1, <1>3, <2>1
  <2>3. Beside(longer, q)
    BY <1>1, <2>1, <2>2 DEF Beside
  <2> QED BY <2>3 DEF longer
<1>5. Beside(p, Append(q, n))
  <2> DEFINE longer == Append(q, n)
  <2>1. k \in DOMAIN longer /\ longer[k] = q[k] /\ SubSeq(longer, 1, k - 1) = SubSeq(q, 1, k - 1)
    BY <1>2, <1>3
  <2> HIDE DEF longer
  <2>2. k \in DOMAIN p \cap DOMAIN longer /\ p[k] < longer[k]
    BY <1>1, <1>3, <2>1
  <2>3. Beside(p, longer)
    BY <1>1, <2>1, <2>2 DEF Beside
  <2> QED BY <2>3 DEF longer
<1> QED BY <1>4, <1>5

LEMMA SiblingsBeside ==
    ASSUME NEW p \in Seq(Names), NEW m \in Names, NEW n \in Names, m < n
    PROVE  Beside(Append(p, m), Append(p, n))
<1> DEFINE left == Append(p, m)
           right == Append(p, n)
           k == Len(p) + 1
<1>1. Len(p) \in Nat /\ k \in Nat /\ k - 1 = Len(p)
  OBVIOUS
<1>2. /\ Len(left) = k /\ left \in Seq(Names) /\ left[k] = m /\ Front(left) = p
      /\ Len(right) = k /\ right \in Seq(Names) /\ right[k] = n /\ Front(right) = p
  BY FrontOfAppend, AppendProperties
<1> HIDE DEF left, right, k
<1>3. SubSeq(left, 1, k - 1) = SubSeq(right, 1, k - 1)
  BY <1>2 DEF Front
<1>4. k \in DOMAIN left \cap DOMAIN right
  <2>1. k >= 1
    BY <1>1 DEF k
  <2> QED BY <1>1, <1>2, <2>1
<1>5. left[k] < right[k]
  BY <1>2
<1>6. Beside(left, right)
  BY <1>3, <1>4, <1>5 DEF Beside
<1> QED BY <1>6 DEF left, right

LEMMA PrecedesFacts ==
    ASSUME NEW p \in Seq(Names), NEW q \in Seq(Names), NEW n \in Names
    PROVE  /\ Precedes(p, Append(p, n))
           /\ Precedes(p, q) => Precedes(p, Append(q, n))
           /\ Beside(p, q) => Precedes(p, q)
<1>1. Precedes(p, Append(p, n))
  <2>1. p \in UpTo(Append(p, n)) /\ Append(p, n) \notin UpTo(p) /\ p \in UpTo(p)
    BY LongerPath DEF UpTo
  <2> QED BY <2>1 DEF Precedes
<1>2. Beside(p, q) => Precedes(p, q)
  BY DEF Beside, Precedes
<1>3. ASSUME Precedes(p, q) PROVE Precedes(p, Append(q, n))
  <2>1. CASE Beside(p, q)
    BY <2>1, BesideGrows DEF Beside, Precedes
  <2>2. CASE p # q /\ p \in UpTo(q)
    <3>1. q \in UpTo(Append(q, n)) /\ Append(q, n) \notin UpTo(q) /\ Append(q, n) \in Seq(Names)
      BY LongerPath
    <3>2. p \in UpTo(Append(q, n)) /\ p # Append(q, n)
      BY <2>2, <3>1, WayOfWay
    <3> QED BY <3>2 DEF Precedes
  <2> QED BY <1>3, <2>1, <2>2 DEF Precedes, Beside
<1> QED BY <1>1, <1>2, <1>3

\* Of two paths only one comes before the other.
LEMMA PrecedesOnce ==
    ASSUME NEW p \in Seq(Names), NEW q \in Seq(Names), Precedes(p, q), Precedes(q, p)
    PROVE  FALSE
<1>1. ASSUME NEW r \in Seq(Names), NEW u \in Seq(Names), r \in UpTo(u)
      PROVE  Len(r) <= Len(u) /\ \A k \in DOMAIN r : r[k] = u[k]
  <2>1. Len(r) \in 0..Len(u) /\ r = SubSeq(u, 1, Len(r))
    BY <1>1, OnTheWay
  <2>2. \A k \in 1..Len(r) : SubSeq(u, 1, Len(r))[k] = u[k]
    BY <2>1, Prefix
  <2> QED BY <2>1, <2>2
<1>2. ASSUME NEW r \in Seq(Names), NEW u \in Seq(Names), r \in UpTo(u), Beside(r, u)
      PROVE  FALSE
  <2>1. PICK k \in DOMAIN r \cap DOMAIN u : r[k] < u[k]
    BY <1>2 DEF Beside
  <2>2. r[k] = u[k] /\ r[k] \in Names
    BY <1>1, <1>2
  <2> QED BY <2>1, <2>2, NameAssumption
<1>3. ASSUME NEW r \in Seq(Names), NEW u \in Seq(Names), r \in UpTo(u), Beside(u, r)
      PROVE  FALSE
  <2>1. PICK k \in DOMAIN r \cap DOMAIN u : u[k] < r[k]
    BY <1>3 DEF Beside
  <2>2. r[k] = u[k] /\ r[k] \in Names
    BY <1>1, <1>3
  <2> QED BY <2>1, <2>2, NameAssumption
<1>4. ASSUME NEW r \in Seq(Names), NEW u \in Seq(Names), NEW k \in DOMAIN r, NEW l \in DOMAIN u,
             k < l, SubSeq(r, 1, l - 1) = SubSeq(u, 1, l - 1), l \in DOMAIN r, k \in DOMAIN u
      PROVE  r[k] = u[k]
  <2>1. /\ Len(r) \in Nat /\ Len(u) \in Nat /\ l \in 1..Len(r) /\ l \in 1..Len(u)
        /\ k \in 1..Len(r)
    BY <1>4
  <2>2. l - 1 \in 0..Len(r) /\ l - 1 \in 0..Len(u) /\ k \in 1..(l - 1)
    BY <1>4, <2>1
  <2>3. SubSeq(r, 1, l - 1)[k] = r[k] /\ SubSeq(u, 1, l - 1)[k] = u[k]
    BY <2>2, Prefix
  <2> QED BY <1>4, <2>3
<1>5. ASSUME Beside(p, q), Beside(q, p) PROVE FALSE
  <2>1. PICK k \in DOMAIN p \cap DOMAIN q :
            p[k] < q[k] /\ SubSeq(p, 1, k - 1) = SubSeq(q, 1, k - 1)
    BY <1>5 DEF Beside
  <2>2. PICK l \in DOMAIN p \cap DOMAIN q :
            q[l] < p[l] /\ SubSeq(q, 1, l - 1) = SubSeq(p, 1, l - 1)
    BY <1>5 DEF Beside
  <2>3. /\ k \in DOMAIN p /\ k \in DOMAIN q /\ l \in DOMAIN p /\ l \in DOMAIN q
        /\ k \in Nat /\ l \in Nat /\ p[k] \in Names /\ q[k] \in Names /\ p[l] \in Names
    OBVIOUS
  <2>4. CASE k < l
    <3>1. p[k] = q[k]
      BY <1>4, <2>2, <2>3, <2>4
    <3> QED BY <2>1, <2>3, <3>1, NameAssumption
  <2>5. CASE l < k
    <3>1. p[l] = q[l]
      BY <1>4, <2>1, <2>3, <2>5
    <3> QED BY <2>2, <2>3, <3>1, NameAssumption
  <2>6. CASE k = l
    BY <2>1, <2>2, <2>3, <2>6, NameAssumption
  <2>7. k < l \/ l < k \/ k = l
    <3>1. k \in Nat /\ l \in Nat
      BY <2>3
    <3> QED BY <3>1
  <2> QED BY <2>4, <2>5, <2>6, <2>7
<1>6. ASSUME p # q, p \in UpTo(q), q \in UpTo(p) PROVE FALSE
  <2>1. Len(p) <= Len(q) /\ Len(q) <= Len(p) /\ \A k \in DOMAIN p : p[k] = q[k]
    BY <1>1, <1>6
  <2>2. Len(p) = Len(q) /\ \A k \in 1..Len(p) : p[k] = q[k]
    BY <2>1
  <2>3. p = q
    BY <2>2, SeqEqual
  <2> QED BY <1>6, <2>3
<1>7. /\ (p # q /\ p \in UpTo(q)) \/ Beside(p, q)
      /\ (p # q /\ q \in UpTo(p)) \/ Beside(q, p)
  BY DEF Precedes, Beside
<1> QED BY <1>2, <1>3, <1>5, <1>6, <1>7

\* The selected path whose walk has been begun last.
Chosen == source.selection[Begun]

\* The walk is to come across p, and to list it or to warn of it.
ToMeet(s, p) == p \in Walked(source.tree, s) \/ p \in IgnoredBelow(source.tree, s)

\* The open directories: each on the walk of the selected path, with names that
\* were in the tree, and what is below comes before what they still have to visit.
OpenInv ==
    /\ \A i \in DOMAIN stack :
          /\ Begun \in DOMAIN source.selection
          /\ stack[i].abs \in Walked(source.tree, Chosen) /\ IsDir(stack[i].abs)
          /\ stack[i].rel = Relative(Chosen, stack[i].abs)
          /\ \A name \in stack[i].names : Append(stack[i].abs, name) \in DOMAIN source.tree
    /\ \A l \in DOMAIN stack : \A i \in 1..(l - 1) : \A name \in stack[i].names :
          Beside(stack[l].abs, Append(stack[i].abs, name))

WarnedInv ==
    /\ warnings \in Seq(NonRoot)
    /\ \A p \in Warned : \E k \in 1..Begun : p \in IgnoredBelow(source.tree, source.selection[k])

\* The entries are in order if owner says which selected path each belongs to.
Earlier(j, p, k, q) == j < k \/ (j = k /\ Precedes(p, q))

Handled(owner, k, p) ==
    /\ p \in Walked(source.tree, source.selection[k]) =>
          \E j \in DOMAIN entries : owner[j] = k /\ entries[j].abs = p
    /\ p \in IgnoredBelow(source.tree, source.selection[k]) => p \in Warned

\* An open directory leads to p, and the child on the way has not been visited.
LeftToDo(p) ==
    \E i \in DOMAIN stack :
        stack[i].abs \in Above(p) /\ Ahead(i, p[Len(stack[i].abs) + 1])

InOrder(owner) ==
    /\ owner \in [DOMAIN entries -> 1..Begun]
    /\ \A j \in DOMAIN entries :
          /\ entries[j].abs \in Walked(source.tree, source.selection[owner[j]])
          /\ entries[j].rel = Relative(source.selection[owner[j]], entries[j].abs)
    /\ \A i, j \in DOMAIN entries :
          i < j => Earlier(owner[i], entries[i].abs, owner[j], entries[j].abs)
    /\ \A j \in DOMAIN entries :
          owner[j] = Begun =>
              \A i \in DOMAIN stack : \A name \in Names :
                  Ahead(i, name) => Precedes(entries[j].abs, Append(stack[i].abs, name))
    /\ \A k \in 1..Begun : \A p :
          ToMeet(source.selection[k], p) => Handled(owner, k, p) \/ (k = Begun /\ LeftToDo(p))

Undisturbed == Calm /\ built \in {"none", "Ok"}

OrderInv == Undisturbed => OpenInv /\ WarnedInv /\ \E owner : InOrder(owner)

LEMMA BegunFacts ==
    ASSUME BuildTypes, AccountedInv
    PROVE  /\ source \in Sources /\ source.selection \in Seq(NonRoot)
           /\ Begun \in Nat /\ Begun <= Len(source.selection) /\ Len(source.selection) \in Nat
           /\ \A k \in 1..Begun : k \in DOMAIN source.selection
           /\ \A k \in DOMAIN source.selection : source.selection[k] \in NonRoot
<1>1. todo \in Seq(NonRoot) /\ source.selection \in Seq(NonRoot) /\ source \in Sources
  BY SourceFacts DEF BuildTypes
<1>2. Len(todo) \in Nat /\ Len(source.selection) \in Nat /\ Len(todo) <= Len(source.selection)
  BY <1>1 DEF AccountedInv
<1>3. Begun \in Nat /\ Begun <= Len(source.selection)
  BY <1>2 DEF Begun
<1> QED BY <1>1, <1>2, <1>3

\* On the way to what the walk is to meet are directories that it enters.
LEMMA ToMeetFacts ==
    ASSUME source \in Sources, NEW s \in NonRoot, NEW p, ToMeet(s, p)
    PROVE  /\ p \in Seq(Names) /\ s \in UpTo(p)
           /\ p # s => p \in DOMAIN source.tree
           /\ Ignored(source.tree, s) => p = s /\ p \in IgnoredBelow(source.tree, s)
           /\ \A q \in Above(p) :
                 s \in UpTo(q) => q \in Walked(source.tree, s) /\ IsDir(q)
<1>0. s \in Seq(Names) /\ s \in UpTo(s)
  BY DEF NonRoot, UpTo
<1>1. ASSUME NEW r \in Walked(source.tree, s), NEW q \in UpTo(r), s \in UpTo(q)
      PROVE  q \in Walked(source.tree, s) /\ (q # r => IsDir(q))
  <2>1. /\ r \in Seq(Names) /\ Reachable(source.tree, r)
        /\ \A m \in Len(s)..Len(r) : ~Ignored(source.tree, SubSeq(r, 1, m))
    BY WalkedFacts DEF Walked
  <2>2. q \in Seq(Names) /\ Len(q) \in 0..Len(r) /\ q = SubSeq(r, 1, Len(q)) /\ Len(r) \in Nat
    BY <2>1, OnTheWay
  <2>3. Len(s) \in 0..Len(q)
    BY <1>1, <2>2, OnTheWay
  <2>4. ASSUME NEW m \in Len(s)..Len(q) PROVE ~Ignored(source.tree, SubSeq(q, 1, m))
    <3>1. m \in Len(s)..Len(r) /\ m \in 0..Len(q)
      BY <2>2, <2>3
    <3>2. SubSeq(SubSeq(r, 1, Len(q)), 1, m) = SubSeq(r, 1, m)
      BY <2>1, <2>2, <3>1, PrefixOfPrefix
    <3> QED BY <2>1, <2>2, <3>1, <3>2
  <2>5. q \in DOMAIN source.tree /\ (q # r => IsDir(q))
    BY <2>1 DEF Reachable, Searchable, UpTo, IsDir
  <2> QED BY <1>1, <2>4, <2>5 DEF Walked
<1>2. CASE p \in Walked(source.tree, s)
  <2>1. p \in Seq(Names) /\ s \in UpTo(p) /\ p \in DOMAIN source.tree
    BY <1>2, WalkedFacts
  <2>2. \A q \in Above(p) : q \in UpTo(p) /\ q # p
    <3>1. \A q \in Above(p) : Len(q) < Len(p) /\ Len(q) \in Nat
      BY <2>1, NextOnTheWay
    <3>2. Len(p) \in Nat
      BY <2>1
    <3> QED BY <3>1, <3>2 DEF UpTo
  <2>3. ~Ignored(source.tree, s)
    <3>1. s \in Walked(source.tree, s)
      BY <1>0, <1>1, <1>2, <2>1
    <3> QED BY <3>1, WalkedFacts
  <2> QED BY <1>1, <1>2, <2>1, <2>2, <2>3
<1>3. CASE p \in IgnoredBelow(source.tree, s) /\ Ignored(source.tree, s)
  <2>1. p = s
    BY <1>3 DEF IgnoredBelow
  <2>2. \A q \in Above(p) : s \notin UpTo(q)
    <3> SUFFICES ASSUME NEW q \in Above(p), s \in UpTo(q) PROVE FALSE
      OBVIOUS
    <3>1. q \in Seq(Names) /\ Len(q) < Len(p) /\ Len(q) \in Nat
      BY <1>0, <2>1, NextOnTheWay
    <3>2. Len(s) \in 0..Len(q)
      BY <3>1, OnTheWay
    <3> QED BY <2>1, <3>1, <3>2
  <2> QED BY <1>0, <1>3, <2>1, <2>2
<1>4. CASE p \in IgnoredBelow(source.tree, s) /\ ~Ignored(source.tree, s)
  <2>1. /\ p \in DOMAIN source.tree /\ p \notin UpTo(s)
        /\ Front(p) \in Walked(source.tree, s)
    BY <1>4 DEF IgnoredBelow
  <2>2. p \in Seq(Names) /\ p # <<>>
    <3>1. p \in Seq(Names)
      BY <2>1, SourceFacts
    <3>2. 0 \in 0..Len(s) /\ SubSeq(s, 1, 0) = <<>>
      BY <1>0
    <3>3. <<>> \in UpTo(s)
      BY <1>0, <3>2, AboveIsPrefix
    <3> QED BY <2>1, <3>1, <3>3
  <2>3. /\ Front(p) \in Seq(Names) /\ Last(p) \in Names /\ p = Append(Front(p), Last(p))
    <3> DEFINE front == Front(p)
               again == Append(front, Last(p))
    <3>1. /\ Len(p) \in Nat \ {0} /\ Last(p) = p[Len(p)] /\ Last(p) \in Names
          /\ front \in Seq(Names) /\ Len(front) = Len(p) - 1
          /\ \A k \in 1..(Len(p) - 1) : front[k] = p[k]
      BY <2>2, LastOf
    <3> HIDE DEF front
    <3>2. /\ again \in Seq(Names) /\ Len(again) = Len(front) + 1
          /\ again[Len(front) + 1] = Last(p) /\ \A k \in 1..Len(front) : again[k] = front[k]
      BY <3>1, AppendProperties
    <3> HIDE DEF again
    <3>3. Len(again) = Len(p) /\ \A k \in 1..Len(p) : again[k] = p[k]
      BY <3>1, <3>2
    <3>4. again = p
      BY <2>2, <3>2, <3>3, SeqEqual
    <3> QED BY <3>1, <3>4 DEF again, front
  <2>4. s \in UpTo(Front(p)) /\ Front(p) \in UpTo(p)
    BY <2>1, <2>3, WalkedFacts, LongerPath
  <2>5. s \in UpTo(p)
    BY <2>2, <2>4, WayOfWay
  <2>6. IsDir(Front(p))
    BY <2>1, <2>2, SourceAssumption DEF IsDir
  <2>7. ASSUME NEW q \in Above(p), s \in UpTo(q)
        PROVE  q \in Walked(source.tree, s) /\ IsDir(q)
    <3>1. q \in UpTo(p) /\ Len(q) < Len(p) /\ Len(q) \in Nat
      BY <2>2, <2>7, NextOnTheWay
    <3>2. Len(p) = Len(Front(p)) + 1 /\ Len(Front(p)) \in Nat
      BY <2>3, LongerPath
    <3>3. Len(q) <= Len(Front(p))
      BY <3>1, <3>2
    <3>4. q \in UpTo(Front(p))
      BY <2>3, <3>1, <3>3, LongerPath
    <3> QED BY <1>1, <2>1, <2>6, <2>7, <3>4
  <2> QED BY <1>4, <2>1, <2>2, <2>5, <2>7
<1> QED BY <1>2, <1>3, <1>4 DEF ToMeet

\* What comes of a path that is looked at: a warning, a file, or an open directory.
LEMMA VisitOutcome ==
    ASSUME BuildTypes, NEW abs \in NonRoot, NEW rel \in NonRoot, NEW below \in Seq(Frames),
           Visit(abs, rel, below), warnings \in Seq(NonRoot)
    PROVE  /\ UNCHANGED <<fs, source, changes, built>>
           /\ warnings' \in Seq(NonRoot)
           /\ DOMAIN entries = 1..Len(entries) /\ Len(entries) \in Nat
           /\ DOMAIN below = 1..Len(below) /\ Len(below) \in Nat
           /\ \/ /\ Ignored(fs, abs) /\ entries' = entries /\ stack' = below /\ step' = "walk"
                 /\ Warned' = Warned \cup {abs}
              \/ /\ ~Ignored(fs, abs) /\ Warned' = Warned
                 /\ DOMAIN entries' = 1..(Len(entries) + 1)
                 /\ entries'[Len(entries) + 1].abs = abs
                 /\ entries'[Len(entries) + 1].rel = rel
                 /\ \A j \in 1..Len(entries) : entries'[j] = entries[j]
                 /\ \/ fs[abs].kind # "dir" /\ stack' = below /\ step' = "walk"
                    \/ /\ fs[abs].kind = "dir" /\ step' = "list"
                       /\ Len(stack') = Len(below) + 1 /\ DOMAIN stack' = 1..(Len(below) + 1)
                       /\ stack'[Len(below) + 1].abs = abs
                       /\ stack'[Len(below) + 1].rel = rel
                       /\ stack'[Len(below) + 1].names = {}
                       /\ \A i \in 1..Len(below) : stack'[i] = below[i]
<1> DEFINE dir == fs[abs].kind = "dir"
           f == [abs |-> abs, rel |-> rel, names |-> {}]
           e == [rel |-> rel, abs |-> abs, dir |-> dir]
<1>1. /\ DOMAIN entries = 1..Len(entries) /\ Len(entries) \in Nat
      /\ DOMAIN below = 1..Len(below) /\ Len(below) \in Nat
      /\ UNCHANGED <<fs, source, changes, built>>
  BY DEF BuildTypes, Visit
<1>2. CASE Ignored(fs, abs)
  <2>1. /\ entries' = entries /\ stack' = below /\ step' = "walk"
        /\ warnings' = Append(warnings, abs)
    BY <1>2 DEF Visit
  <2>2. /\ warnings' \in Seq(NonRoot) /\ DOMAIN warnings' = 1..(Len(warnings) + 1)
        /\ DOMAIN warnings = 1..Len(warnings) /\ Len(warnings) \in Nat
        /\ warnings'[Len(warnings) + 1] = abs
        /\ \A k \in 1..Len(warnings) : warnings'[k] = warnings[k]
    BY <2>1, AppendProperties
  <2>3. Warned' = Warned \cup {abs}
    <3>1. \A k \in DOMAIN warnings' :
             k = Len(warnings) + 1 \/ (k \in DOMAIN warnings /\ warnings'[k] = warnings[k])
      BY <2>2
    <3>2. Len(warnings) + 1 \in DOMAIN warnings' /\ DOMAIN warnings \subseteq DOMAIN warnings'
      BY <2>2
    <3> QED BY <2>2, <3>1, <3>2 DEF Warned
  <2> QED BY <1>1, <1>2, <2>1, <2>2, <2>3
<1>3. CASE ~Ignored(fs, abs)
  <2>1. /\ entries' = Append(entries, e) /\ warnings' = warnings
        /\ dir => stack' = Append(below, f) /\ step' = "list"
        /\ ~dir => stack' = below /\ step' = "walk"
    BY <1>3 DEF Visit, Entered
  <2>2. /\ e \in Listed /\ f \in Frames /\ e.rel = rel /\ e.abs = abs
        /\ f.rel = rel /\ f.abs = abs /\ f.names = {}
    BY DEF Listed, Frames
  <2> HIDE DEF e, f
  <2>3. /\ DOMAIN entries' = 1..(Len(entries) + 1)
        /\ entries'[Len(entries) + 1] = e
        /\ \A k \in 1..Len(entries) : entries'[k] = entries[k]
    BY <2>1, <2>2, OneMoreListed
  <2>4. dir => /\ Len(stack') = Len(below) + 1 /\ DOMAIN stack' = 1..(Len(below) + 1)
               /\ stack'[Len(below) + 1] = f
               /\ \A i \in 1..Len(below) : stack'[i] = below[i]
    BY <2>1, <2>2, OneMoreOpen
  <2>5. Warned' = Warned /\ warnings' \in Seq(NonRoot)
    BY <2>1 DEF Warned
  <2> QED BY <1>1, <1>3, <2>1, <2>2, <2>3, <2>4, <2>5
<1> QED BY <1>2, <1>3

\* Open directories that are to visit the child on the way to p.
Awaits(below, p) ==
    \E i \in DOMAIN below :
        below[i].abs \in Above(p) /\ p[Len(below[i].abs) + 1] \in below[i].names

\* A path that the walk of the b-th selected path looks at.
IsNext(b, s, abs, rel, below) ==
    /\ b \in DOMAIN source.selection /\ s = source.selection[b] /\ Begun' = b
    /\ abs \in NonRoot /\ rel \in NonRoot /\ below \in Seq(Frames)
    /\ Visit(abs, rel, below)
    /\ s \in UpTo(abs)
    /\ Ignored(fs, abs) => abs \in IgnoredBelow(source.tree, s)
    /\ ~Ignored(fs, abs) =>
          /\ abs \in Walked(source.tree, s) /\ rel = Relative(s, abs)
          /\ fs[abs].kind = "dir" <=> IsDir(abs)
    /\ \A i \in DOMAIN below : \A name \in below[i].names :
          Beside(abs, Append(below[i].abs, name))

LEMMA VisitOpens ==
    ASSUME BuildTypes, warnings \in Seq(NonRoot),
           NEW b, NEW s, NEW abs, NEW rel, NEW below, IsNext(b, s, abs, rel, below),
           \A i \in DOMAIN below :
              /\ below[i].abs \in Walked(source.tree, s) /\ IsDir(below[i].abs)
              /\ below[i].rel = Relative(s, below[i].abs)
              /\ \A name \in below[i].names : Append(below[i].abs, name) \in DOMAIN source.tree,
           \A l \in DOMAIN below : \A i \in 1..(l - 1) : \A name \in below[i].names :
              Beside(below[l].abs, Append(below[i].abs, name))
    PROVE  OpenInv'
<1>0. /\ b \in DOMAIN source.selection /\ s = source.selection[b] /\ Begun' = b
      /\ abs \in NonRoot /\ rel \in NonRoot /\ below \in Seq(Frames) /\ Visit(abs, rel, below)
      /\ DOMAIN below = 1..Len(below) /\ Len(below) \in Nat /\ source' = source
      /\ ~Ignored(fs, abs) =>
            /\ abs \in Walked(source.tree, s) /\ rel = Relative(s, abs)
            /\ fs[abs].kind = "dir" <=> IsDir(abs)
      /\ \A i \in DOMAIN below : \A name \in below[i].names :
            Beside(abs, Append(below[i].abs, name))
  BY DEF IsNext, Visit
<1>1. Chosen' = s
  BY <1>0 DEF Chosen
<1>2. SUFFICES
        /\ \A i \in DOMAIN stack' :
              /\ stack'[i].abs \in Walked(source.tree, s) /\ IsDir(stack'[i].abs)
              /\ stack'[i].rel = Relative(s, stack'[i].abs)
              /\ \A name \in stack'[i].names : Append(stack'[i].abs, name) \in DOMAIN source.tree
        /\ \A l \in DOMAIN stack' : \A i \in 1..(l - 1) : \A name \in stack'[i].names :
              Beside(stack'[l].abs, Append(stack'[i].abs, name))
  BY <1>0, <1>1 DEF OpenInv, IsDir
<1>3. CASE stack' = below
  BY <1>3
<1>4. CASE stack' # below
  <2>1. /\ ~Ignored(fs, abs) /\ fs[abs].kind = "dir"
        /\ DOMAIN stack' = 1..(Len(below) + 1)
        /\ stack'[Len(below) + 1].abs = abs /\ stack'[Len(below) + 1].rel = rel
        /\ stack'[Len(below) + 1].names = {}
        /\ \A i \in 1..Len(below) : stack'[i] = below[i]
    BY <1>0, <1>4, VisitOutcome
  <2>2. \A i \in DOMAIN stack' :
           i = Len(below) + 1 \/ (i \in DOMAIN below /\ stack'[i] = below[i])
    BY <1>0, <2>1
  <2>3. ASSUME NEW l \in DOMAIN stack', NEW i \in 1..(l - 1)
        PROVE  i \in DOMAIN below /\ stack'[i] = below[i]
    BY <1>0, <2>1, <2>3
  <2>4. ASSUME NEW i \in DOMAIN stack'
        PROVE  /\ stack'[i].abs \in Walked(source.tree, s) /\ IsDir(stack'[i].abs)
               /\ stack'[i].rel = Relative(s, stack'[i].abs)
               /\ \A name \in stack'[i].names :
                     Append(stack'[i].abs, name) \in DOMAIN source.tree
    BY <1>0, <2>1, <2>2
  <2>5. ASSUME NEW l \in DOMAIN stack', NEW i \in 1..(l - 1), NEW name \in stack'[i].names
        PROVE  Beside(stack'[l].abs, Append(stack'[i].abs, name))
    BY <1>0, <2>1, <2>2, <2>3, <2>5
  <2> QED BY <2>4, <2>5
<1> QED BY <1>3, <1>4

LEMMA VisitWarns ==
    ASSUME BuildTypes, WarnedInv, Begun \in Nat, Begun <= Begun', Len(source.selection) \in Nat,
           NEW b, NEW s, NEW abs, NEW rel, NEW below, IsNext(b, s, abs, rel, below),
           source.selection \in Seq(NonRoot)
    PROVE  WarnedInv'
<1>0. /\ b \in DOMAIN source.selection /\ s = source.selection[b] /\ Begun' = b
      /\ abs \in NonRoot /\ rel \in NonRoot /\ below \in Seq(Frames) /\ Visit(abs, rel, below)
      /\ Ignored(fs, abs) => abs \in IgnoredBelow(source.tree, s)
      /\ warnings \in Seq(NonRoot)
  BY DEF IsNext, WarnedInv
<1>1. /\ source' = source /\ warnings' \in Seq(NonRoot)
      /\ (Ignored(fs, abs) /\ Warned' = Warned \cup {abs}) \/ Warned' = Warned
  BY <1>0, VisitOutcome
<1>2. b \in 1..b /\ 1..Begun \subseteq 1..b
  BY <1>0
<1>3. \A p \in Warned' : \E k \in 1..b : p \in IgnoredBelow(source.tree, source.selection[k])
  BY <1>0, <1>1, <1>2 DEF WarnedInv
<1> QED BY <1>0, <1>1, <1>3 DEF WarnedInv

LEMMA VisitInOrder ==
    ASSUME BuildTypes, source \in Sources, warnings \in Seq(NonRoot), Begun \in Nat,
           NEW b \in Nat, Begun <= b,
           NEW s \in NonRoot, NEW abs, NEW rel, NEW below, IsNext(b, s, abs, rel, below),
           NEW owner, owner \in [DOMAIN entries -> 1..Begun],
           \A j \in DOMAIN entries :
              /\ entries[j].abs \in Walked(source.tree, source.selection[owner[j]])
              /\ entries[j].rel = Relative(source.selection[owner[j]], entries[j].abs),
           \A i, j \in DOMAIN entries :
              i < j => Earlier(owner[i], entries[i].abs, owner[j], entries[j].abs),
           \A j \in DOMAIN entries : Earlier(owner[j], entries[j].abs, b, abs),
           \A j \in DOMAIN entries : owner[j] = b =>
              \A i \in DOMAIN below : \A name \in below[i].names :
                 Precedes(entries[j].abs, Append(below[i].abs, name)),
           \A k \in 1..b : \A p : ToMeet(source.selection[k], p) =>
              Handled(owner, k, p) \/ (k = b /\ (abs \in UpTo(p) \/ Awaits(below, p)))
    PROVE  \E o : InOrder(o)'
<1>0. /\ s = source.selection[b] /\ Begun' = b
      /\ abs \in NonRoot /\ rel \in NonRoot /\ below \in Seq(Frames) /\ Visit(abs, rel, below)
      /\ s \in UpTo(abs) /\ abs \in Seq(Names)
      /\ Ignored(fs, abs) => abs \in IgnoredBelow(source.tree, s)
      /\ ~Ignored(fs, abs) =>
            /\ abs \in Walked(source.tree, s) /\ rel = Relative(s, abs)
            /\ fs[abs].kind = "dir" <=> IsDir(abs)
  BY DEF IsNext, NonRoot
<1>1. \A i \in DOMAIN below : \A name \in below[i].names :
         /\ name \in Names /\ below[i].abs \in Seq(Names)
         /\ Precedes(abs, Append(below[i].abs, name))
  <2> SUFFICES ASSUME NEW i \in DOMAIN below, NEW name \in below[i].names
               PROVE  /\ name \in Names /\ below[i].abs \in Seq(Names)
                      /\ Precedes(abs, Append(below[i].abs, name))
    OBVIOUS
  <2>1. below[i] \in Frames
    BY <1>0
  <2>2. name \in Names /\ below[i].abs \in Seq(Names)
    BY <2>1 DEF Frames, NonRoot
  <2>3. Append(below[i].abs, name) \in Seq(Names)
    BY <2>2, FrontOfAppend
  <2>4. Beside(abs, Append(below[i].abs, name))
    BY DEF IsNext
  <2> QED BY <1>0, <2>2, <2>3, <2>4, PrecedesFacts
<1>2. \A p \in IgnoredBelow(source.tree, s) : Ignored(source.tree, p) /\ p \notin Walked(source.tree, s)
  <2>1. \A p \in IgnoredBelow(source.tree, s) : Ignored(source.tree, p)
    BY DEF IgnoredBelow
  <2> QED BY <2>1, WalkedFacts
<1>3. /\ source' = source /\ DOMAIN entries = 1..Len(entries) /\ Len(entries) \in Nat
      /\ DOMAIN below = 1..Len(below) /\ Len(below) \in Nat
  BY <1>0, VisitOutcome
<1>4. ASSUME NEW p, ToMeet(s, p), abs \in UpTo(p), p # abs
      PROVE  abs \in Above(p) /\ abs \in Walked(source.tree, s) /\ IsDir(abs)
  <2>1. abs \in Above(p)
    BY <1>4 DEF UpTo
  <2> QED BY <1>0, <1>4, <2>1, ToMeetFacts
<1>5. \A k \in 1..Begun : k \in 1..b
  OBVIOUS
<1>6. CASE Ignored(fs, abs)
  <2>1. /\ entries' = entries /\ stack' = below /\ step' = "walk"
        /\ Warned' = Warned \cup {abs}
    BY <1>0, <1>6, VisitOutcome
  <2>2. owner \in [DOMAIN entries' -> 1..b]
    BY <1>5, <2>1
  <2>3. ASSUME NEW k \in 1..b, NEW p, ToMeet(source.selection[k], p)
        PROVE  Handled(owner, k, p)' \/ (k = b /\ LeftToDo(p)')
    <3>1. CASE Handled(owner, k, p)
      BY <1>3, <2>1, <3>1 DEF Handled
    <3>2. CASE k = b /\ abs \in UpTo(p)
      <4>1. p = abs
        BY <1>0, <1>2, <1>4, <1>6, <2>3, <3>2
      <4>2. p \notin Walked(source.tree, s) /\ p \in Warned'
        BY <1>0, <1>2, <1>6, <2>1, <4>1
      <4> QED BY <1>0, <1>3, <3>2, <4>2 DEF Handled
    <3>3. CASE k = b /\ Awaits(below, p)
      BY <2>1, <3>3 DEF Awaits, LeftToDo, Ahead
    <3> QED BY <2>3, <3>1, <3>2, <3>3
  <2>4. ASSUME NEW j \in DOMAIN entries', owner[j] = b, NEW i \in DOMAIN stack', NEW name \in Names,
               Ahead(i, name)'
        PROVE  Precedes(entries'[j].abs, Append(stack'[i].abs, name))
    BY <2>1, <2>4 DEF Ahead
  <2>5. InOrder(owner)'
    BY <1>0, <1>3, <2>1, <2>2, <2>3, <2>4 DEF InOrder, ToMeet
  <2> QED BY <2>5
<1>7. CASE ~Ignored(fs, abs)
  <2> DEFINE n == Len(entries) + 1
             o == [j \in DOMAIN entries' |-> IF j = n THEN b ELSE owner[j]]
  <2>1. /\ Warned' = Warned /\ DOMAIN entries' = 1..n
        /\ entries'[n].abs = abs /\ entries'[n].rel = rel
        /\ \A j \in 1..Len(entries) : entries'[j] = entries[j]
        /\ \/ fs[abs].kind # "dir" /\ stack' = below /\ step' = "walk"
           \/ /\ fs[abs].kind = "dir" /\ step' = "list"
              /\ Len(stack') = Len(below) + 1 /\ DOMAIN stack' = 1..(Len(below) + 1)
              /\ stack'[Len(below) + 1].abs = abs
              /\ \A i \in 1..Len(below) : stack'[i] = below[i]
    BY <1>0, <1>7, VisitOutcome
  <2>2. PICK own : own = o
    OBVIOUS
  <2>3. /\ own[n] = b /\ n \in DOMAIN entries'
        /\ \A j \in DOMAIN entries :
              /\ j \in DOMAIN entries' /\ j # n /\ own[j] = owner[j] /\ entries'[j] = entries[j]
              /\ j \in Nat /\ j < n
        /\ \A j \in DOMAIN entries' : j = n \/ j \in DOMAIN entries
    BY <1>3, <2>1, <2>2
  <2>4. own \in [DOMAIN entries' -> 1..b]
    <3>1. b \in 1..b
      BY SourceFacts DEF IsNext
    <3>2. \A j \in DOMAIN entries' : own[j] \in 1..b
      BY <1>5, <2>3, <3>1
    <3> QED BY <2>2, <3>2
  <2> HIDE DEF n, o
  <2>5. ASSUME NEW j \in DOMAIN entries'
        PROVE  /\ entries'[j].abs \in Walked(source.tree, source.selection[own[j]])
               /\ entries'[j].rel = Relative(source.selection[own[j]], entries'[j].abs)
    BY <1>0, <1>7, <2>1, <2>3, <2>5
  <2>6. ASSUME NEW i \in DOMAIN entries', NEW j \in DOMAIN entries', i < j
        PROVE  Earlier(own[i], entries'[i].abs, own[j], entries'[j].abs)
    <3>1. i \in DOMAIN entries
      <4>1. CASE i = n
        <5>1. j \in DOMAIN entries
          <6>1. i \in Nat /\ ~(i < i)
            BY <1>3, <2>1, <2>6
          <6> QED BY <2>3, <2>6, <4>1, <6>1
        <5>2. j < i /\ i \in Nat /\ j \in Nat
          BY <1>3, <2>1, <2>3, <2>6, <4>1, <5>1
        <5> QED BY <2>6, <5>2
      <4> QED BY <2>3, <4>1
    <3> QED BY <2>1, <2>3, <2>6, <3>1
  <2>7. ASSUME NEW j \in DOMAIN entries, owner[j] = b
        PROVE  Precedes(entries[j].abs, abs) /\ entries[j].abs \in Seq(Names)
    <3>1. Earlier(b, entries[j].abs, b, abs)
      BY <2>7
    <3>2. entries[j].abs \in Walked(source.tree, s)
      BY <1>0, <2>7
    <3> QED BY <3>1, <3>2, WalkedFacts DEF Earlier
  <2>8. ASSUME NEW j \in DOMAIN entries', own[j] = b, NEW i \in DOMAIN below,
               NEW name \in below[i].names
        PROVE  Precedes(entries'[j].abs, Append(below[i].abs, name))
    BY <1>1, <2>1, <2>3, <2>8
  <2>9. ASSUME NEW j \in DOMAIN entries', own[j] = b, NEW name \in Names
        PROVE  Precedes(entries'[j].abs, Append(abs, name))
    BY <1>0, <2>1, <2>3, <2>7, <2>9, PrecedesFacts
  <2>10. ASSUME NEW j \in DOMAIN entries', own[j] = b, NEW i \in DOMAIN stack', NEW name \in Names,
               Ahead(i, name)'
        PROVE  Precedes(entries'[j].abs, Append(stack'[i].abs, name))
    <3>1. CASE stack' = below /\ step' = "walk"
      BY <2>8, <2>10, <3>1 DEF Ahead
    <3>2. CASE ~(stack' = below /\ step' = "walk")
      <4>1. CASE i = Len(below) + 1
        BY <2>1, <2>9, <2>10, <3>2, <4>1
      <4>2. CASE i # Len(below) + 1
        <5>1. i \in DOMAIN below /\ stack'[i] = below[i] /\ i # Len(stack')
          BY <1>3, <2>1, <2>10, <3>2, <4>2
        <5>2. name \in below[i].names
          BY <2>10, <5>1 DEF Ahead
        <5> QED BY <2>8, <2>10, <5>1, <5>2
      <4> QED BY <4>1, <4>2
    <3> QED BY <3>1, <3>2
  <2>11. ASSUME NEW k \in 1..b, NEW p, ToMeet(source.selection[k], p)
        PROVE  Handled(own, k, p)' \/ (k = b /\ LeftToDo(p)')
    <3>1. CASE Handled(owner, k, p)
      BY <1>3, <2>1, <2>3, <3>1 DEF Handled
    <3>2. CASE k = b /\ abs \in UpTo(p)
      <4>1. CASE p = abs
        <5>1. p \notin IgnoredBelow(source.tree, s)
          BY <1>0, <1>2, <1>7, <4>1
        <5> QED BY <1>0, <1>3, <2>1, <2>3, <3>2, <4>1, <5>1 DEF Handled
      <4>2. CASE p # abs
        <5>1. abs \in Above(p) /\ fs[abs].kind = "dir"
          BY <1>0, <1>4, <1>7, <2>11, <3>2, <4>2
        <5>2. /\ Len(below) + 1 \in DOMAIN stack' /\ Len(below) + 1 = Len(stack')
              /\ stack'[Len(below) + 1].abs = abs /\ step' = "list"
          BY <1>3, <2>1, <5>1
        <5> QED BY <3>2, <5>1, <5>2 DEF LeftToDo, Ahead
      <4> QED BY <4>1, <4>2
    <3>3. CASE k = b /\ Awaits(below, p)
      <4>1. \A i \in DOMAIN below : i \in DOMAIN stack' /\ stack'[i] = below[i]
        BY <1>3, <2>1
      <4> QED BY <3>3, <4>1 DEF Awaits, LeftToDo, Ahead
    <3> QED BY <2>11, <3>1, <3>2, <3>3
  <2>12. InOrder(own)'
    BY <1>0, <1>3, <2>4, <2>5, <2>6, <2>10, <2>11 DEF InOrder, ToMeet
  <2> QED BY <2>12
<1> QED BY <1>6, <1>7

LEMMA SelectedInOrder ==
    ASSUME BuildTypes, AccountedInv, TreeIsAsFound, Undisturbed, WarnedInv,
           NEW owner, InOrder(owner), VisitSelected
    PROVE  OpenInv' /\ WarnedInv' /\ \E o : InOrder(o)'
<1> DEFINE none == <<>>
           rel == <<Last(Head(todo))>>
<1>1. /\ stack = <<>> /\ Len(todo) \in Nat \ {0} /\ Head(todo) = todo[1]
      /\ todo' = Tail(todo) /\ Len(Tail(todo)) = Len(todo) - 1
      /\ Head(todo) \in NonRoot /\ rel \in NonRoot /\ Visit(Head(todo), rel, none)
  BY SelectedVisited
<1>2. /\ source \in Sources /\ source.selection \in Seq(NonRoot) /\ source' = source
      /\ Begun \in Nat /\ Len(source.selection) \in Nat /\ Len(todo) <= Len(source.selection)
  BY <1>1, BegunFacts DEF Visit, AccountedInv
<1>3. PICK b \in Nat : b = Begun + 1
  BY <1>2
<1>4. Begun' = b /\ b \in DOMAIN source.selection /\ Begun < b /\ Begun <= b
  BY <1>1, <1>2, <1>3 DEF Begun
<1>5. PICK s \in NonRoot : s = Head(todo)
  BY <1>1
<1>6. s = source.selection[b]
  <2>1. 1 \in 1..Len(todo)
    BY <1>1
  <2> QED BY <1>1, <1>3, <1>5, <2>1 DEF AccountedInv
<1>7. s \in Seq(Names) /\ Tmp \notin UpTo(s) /\ s \in UpTo(s)
  BY <1>2, <1>4, <1>6, PathsAssumption DEF NonRoot, UpTo
<1>8. /\ Ignored(fs, s) <=> Ignored(source.tree, s)
      /\ ~Ignored(fs, s) => (fs[s].kind = "dir" <=> IsDir(s))
  BY <1>7, SeenAsFound DEF Undisturbed, Calm, Ignored, Reachable, IsDir
<1>9. Ignored(fs, s) => s \in IgnoredBelow(source.tree, s)
  BY <1>8 DEF IgnoredBelow
<1>10. ~Ignored(fs, s) => s \in Walked(source.tree, s) /\ rel = Relative(s, s)
  BY <1>2, <1>5, <1>8, WalkBegins, RelativeFacts
<1>11. none \in Seq(Frames) /\ DOMAIN none = {}
  OBVIOUS
<1> HIDE DEF rel, none
<1>12. IsNext(b, s, s, rel, none)
  BY <1>1, <1>4, <1>5, <1>6, <1>7, <1>8, <1>9, <1>10, <1>11 DEF IsNext
<1>13. warnings \in Seq(NonRoot)
  BY DEF WarnedInv
<1>14. OpenInv'
  <2>1. \A i \in DOMAIN none :
           /\ none[i].abs \in Walked(source.tree, s) /\ IsDir(none[i].abs)
           /\ none[i].rel = Relative(s, none[i].abs)
           /\ \A name \in none[i].names : Append(none[i].abs, name) \in DOMAIN source.tree
    BY <1>11
  <2>2. \A l \in DOMAIN none : \A i \in 1..(l - 1) : \A name \in none[i].names :
           Beside(none[l].abs, Append(none[i].abs, name))
    BY <1>11
  <2> QED BY <1>12, <1>13, <2>1, <2>2, VisitOpens
<1>15. WarnedInv'
  BY <1>2, <1>4, <1>12, VisitWarns
<1>16. \E o : InOrder(o)'
  <2>1. owner \in [DOMAIN entries -> 1..Begun]
    BY DEF InOrder
  <2>2. \A j \in DOMAIN entries :
           /\ entries[j].abs \in Walked(source.tree, source.selection[owner[j]])
           /\ entries[j].rel = Relative(source.selection[owner[j]], entries[j].abs)
    BY DEF InOrder
  <2>3. \A i, j \in DOMAIN entries :
           i < j => Earlier(owner[i], entries[i].abs, owner[j], entries[j].abs)
    BY DEF InOrder
  <2>4. \A j \in DOMAIN entries : owner[j] < b /\ owner[j] # b
    <3>1. \A m, n \in Nat : \A k \in 1..m : m < n => k < n /\ k # n
      OBVIOUS
    <3> QED BY <1>2, <1>4, <2>1, <3>1
  <2>5. \A j \in DOMAIN entries : Earlier(owner[j], entries[j].abs, b, s)
    BY <2>4 DEF Earlier
  <2>6. ASSUME NEW k \in 1..b, NEW p, ToMeet(source.selection[k], p)
        PROVE  Handled(owner, k, p) \/ (k = b /\ (s \in UpTo(p) \/ Awaits(none, p)))
    <3>1. CASE k = b
      BY <1>2, <1>6, <2>6, <3>1, ToMeetFacts
    <3>2. CASE k # b
      <4>1. k \in 1..Begun
        BY <1>2, <1>3, <2>6, <3>2
      <4>2. ~LeftToDo(p)
        BY <1>1 DEF LeftToDo
      <4> QED BY <2>6, <4>1, <4>2 DEF InOrder
    <3> QED BY <3>1, <3>2
  <2>7. \A j \in DOMAIN entries : owner[j] = b =>
           \A i \in DOMAIN none : \A name \in none[i].names :
              Precedes(entries[j].abs, Append(none[i].abs, name))
    BY <2>4
  <2> QED BY <1>2, <1>4, <1>12, <1>13, <2>1, <2>2, <2>3, <2>5, <2>6, <2>7, VisitInOrder
<1> QED BY <1>14, <1>15, <1>16

LEMMA ChildInOrder ==
    ASSUME BuildTypes, AccountedInv, TreeIsAsFound, Undisturbed, OpenInv, WarnedInv,
           NEW owner, InOrder(owner), VisitChild
    PROVE  OpenInv' /\ WarnedInv' /\ \E o : InOrder(o)'
<1>1. PICK name \in Last(stack).names :
         /\ name \in Names /\ IsFirst(name, Last(stack).names)
         /\ Append(Last(stack).abs, name) \in NonRoot
         /\ Append(Last(stack).rel, name) \in NonRoot
         /\ Without(name) \in Seq(Frames)
         /\ Visit(Append(Last(stack).abs, name), Append(Last(stack).rel, name), Without(name))
  BY ChildVisited
<1>2. step = "walk" /\ stack # <<>> /\ todo' = todo
  BY ChildVisited
<1>3. PICK below : below = Without(name)
  OBVIOUS
<1>4. /\ below \in Seq(Frames) /\ DOMAIN below = 1..Len(stack) /\ Len(stack) \in DOMAIN stack
      /\ below[Len(stack)].abs = Last(stack).abs
      /\ below[Len(stack)].rel = Last(stack).rel
      /\ below[Len(stack)].names = Last(stack).names \ {name}
      /\ \A k \in DOMAIN stack : k # Len(stack) => below[k] = stack[k]
  BY <1>2, <1>3, WithoutFacts
<1>5. DOMAIN stack = 1..Len(stack) /\ Last(stack) = stack[Len(stack)] /\ Len(stack) \in Nat
  BY <1>2, TopFrame DEF BuildTypes
<1>6. /\ source \in Sources /\ source.selection \in Seq(NonRoot) /\ source' = source
      /\ Begun \in Nat /\ Len(source.selection) \in Nat /\ Begun' = Begun
  BY <1>1, <1>2, BegunFacts DEF Visit, Begun
<1>7. PICK b \in Nat : b = Begun
  BY <1>6
<1>8. b \in DOMAIN source.selection /\ Begun' = b
  BY <1>4, <1>6, <1>7 DEF OpenInv
<1>9. PICK s \in NonRoot : s = source.selection[b]
  BY <1>6, <1>8
<1>10. PICK top \in Walked(source.tree, s) :
          top = Last(stack).abs /\ IsDir(top) /\ Last(stack).rel = Relative(s, top)
  BY <1>4, <1>5, <1>7, <1>9 DEF OpenInv, Chosen
<1> DEFINE abs == Append(top, name)
           rel == Append(Last(stack).rel, name)
<1>11. /\ top \in Seq(Names) /\ s \in UpTo(top) /\ ~Ignored(source.tree, top)
       /\ Tmp \notin UpTo(abs)
  BY <1>1, <1>6, <1>8, <1>9, WalkedFacts, LooksElsewhere DEF Undisturbed
<1>12. /\ abs \in Seq(Names) /\ top \in UpTo(abs) /\ abs \notin UpTo(top) /\ Front(abs) = top
       /\ abs \in NonRoot /\ rel \in NonRoot /\ Visit(abs, rel, below)
       /\ abs \in DOMAIN source.tree
  <2>1. abs \in Seq(Names) /\ top \in UpTo(abs) /\ abs \notin UpTo(top) /\ Front(abs) = top
    BY <1>1, <1>11, LongerPath, FrontOfAppend
  <2>2. abs \in DOMAIN source.tree
    BY <1>1, <1>4, <1>5, <1>10 DEF OpenInv
  <2> QED BY <1>1, <1>3, <1>10, <2>1, <2>2
<1>13. rel = Relative(s, abs)
  BY <1>1, <1>10, <1>11, RelativeFacts
<1>14. ~Ignored(source.tree, abs) => abs \in Walked(source.tree, s)
  BY <1>1, <1>6, WalkGoesOn
<1> HIDE DEF rel
<1>15. s \in UpTo(abs) /\ abs \notin UpTo(s)
  BY <1>11, <1>12, WayOfWay
<1>16. ASSUME NEW i \in DOMAIN below, NEW n \in below[i].names
       PROVE  /\ i \in DOMAIN stack /\ n \in stack[i].names /\ n \in Names
              /\ below[i].abs = stack[i].abs /\ below[i].abs \in Seq(Names)
              /\ Beside(abs, Append(below[i].abs, n))
  <2>1. i \in DOMAIN stack /\ n \in stack[i].names /\ below[i].abs = stack[i].abs
    BY <1>4, <1>5, <1>16
  <2>2. stack[i] \in Frames
    BY <2>1 DEF BuildTypes
  <2>3. n \in Names /\ stack[i].abs \in Seq(Names)
    BY <2>1, <2>2 DEF Frames, NonRoot
  <2>4. CASE i = Len(stack)
    <3>1. n \in Last(stack).names \ {name} /\ below[i].abs = top
      BY <1>4, <1>10, <1>16, <2>4
    <3>2. name < n
      BY <1>1, <3>1 DEF IsFirst
    <3>3. Beside(Append(top, name), Append(top, n))
      BY <1>1, <1>11, <2>3, <3>2, SiblingsBeside
    <3> QED BY <2>1, <2>3, <3>1, <3>3
  <2>5. CASE i # Len(stack)
    <3>1. i \in 1..(Len(stack) - 1)
      BY <1>5, <2>1, <2>5
    <3>2. Beside(top, Append(stack[i].abs, n))
      BY <1>4, <1>5, <1>10, <2>1, <3>1 DEF OpenInv
    <3>3. Append(stack[i].abs, n) \in Seq(Names)
      BY <2>3, FrontOfAppend
    <3>4. Beside(abs, Append(stack[i].abs, n))
      BY <1>1, <1>11, <3>2, <3>3, BesideGrows
    <3> QED BY <2>1, <2>3, <3>4
  <2> QED BY <2>4, <2>5
<1> HIDE DEF abs
<1>17. /\ Ignored(fs, abs) <=> Ignored(source.tree, abs)
       /\ ~Ignored(fs, abs) => (fs[abs].kind = "dir" <=> IsDir(abs))
  BY <1>11, <1>12, SeenAsFound DEF Undisturbed, Calm, Ignored, Reachable, IsDir
<1>18. Ignored(fs, abs) => abs \in IgnoredBelow(source.tree, s)
  <2>1. ~Ignored(source.tree, s)
    BY <1>6, <1>11, ToMeetFacts DEF ToMeet
  <2> QED BY <1>12, <1>15, <1>17, <2>1 DEF IgnoredBelow
<1>19. IsNext(b, s, abs, rel, below)
  BY <1>4, <1>8, <1>9, <1>12, <1>13, <1>14, <1>15, <1>16, <1>17, <1>18 DEF IsNext
<1>20. warnings \in Seq(NonRoot)
  BY DEF WarnedInv
<1>21. OpenInv'
  <2>1. ASSUME NEW i \in DOMAIN below
        PROVE  /\ below[i].abs \in Walked(source.tree, s) /\ IsDir(below[i].abs)
               /\ below[i].rel = Relative(s, below[i].abs)
               /\ \A n \in below[i].names : Append(below[i].abs, n) \in DOMAIN source.tree
    <3>1. i \in DOMAIN stack /\ below[i].abs = stack[i].abs /\ below[i].rel = stack[i].rel
      BY <1>4, <1>5, <2>1
    <3>2. /\ stack[i].abs \in Walked(source.tree, s) /\ IsDir(stack[i].abs)
          /\ stack[i].rel = Relative(s, stack[i].abs)
          /\ \A n \in stack[i].names : Append(stack[i].abs, n) \in DOMAIN source.tree
      BY <1>7, <1>9, <3>1 DEF OpenInv, Chosen
    <3> QED BY <1>16, <3>1, <3>2
  <2>2. ASSUME NEW l \in DOMAIN below, NEW i \in 1..(l - 1), NEW n \in below[i].names
        PROVE  Beside(below[l].abs, Append(below[i].abs, n))
    <3>1. l \in DOMAIN stack /\ i \in DOMAIN below
      BY <1>4, <1>5, <2>2
    <3>2. below[l].abs = stack[l].abs /\ below[i].abs = stack[i].abs /\ n \in stack[i].names
      BY <1>4, <1>5, <1>16, <2>2, <3>1
    <3> QED BY <2>2, <3>1, <3>2 DEF OpenInv
  <2> QED BY <1>19, <1>20, <2>1, <2>2, VisitOpens
<1>22. WarnedInv'
  BY <1>6, <1>19, VisitWarns
<1>23. \E o : InOrder(o)'
  <2>1. owner \in [DOMAIN entries -> 1..Begun]
    BY DEF InOrder
  <2>2. \A j \in DOMAIN entries :
           /\ entries[j].abs \in Walked(source.tree, source.selection[owner[j]])
           /\ entries[j].rel = Relative(source.selection[owner[j]], entries[j].abs)
    BY DEF InOrder
  <2>3. \A i, j \in DOMAIN entries :
           i < j => Earlier(owner[i], entries[i].abs, owner[j], entries[j].abs)
    BY DEF InOrder
  <2>4. ASSUME NEW j \in DOMAIN entries PROVE Earlier(owner[j], entries[j].abs, b, abs)
    <3>1. owner[j] < b \/ owner[j] = b
      <4>1. \A m \in Nat : \A k \in 1..m : k < m \/ k = m
        OBVIOUS
      <4>2. owner[j] \in 1..b
        BY <1>7, <2>1
      <4> QED BY <4>1, <4>2
    <3>2. ASSUME owner[j] = b PROVE Precedes(entries[j].abs, Append(stack[Len(stack)].abs, name))
      <4>1. Ahead(Len(stack), name)
        BY <1>1, <1>5 DEF Ahead
      <4> QED BY <1>1, <1>4, <1>7, <3>2, <4>1 DEF InOrder
    <3> QED BY <1>5, <1>10, <3>1, <3>2 DEF Earlier, abs
  <2>5. ASSUME NEW j \in DOMAIN entries, owner[j] = b, NEW i \in DOMAIN below, NEW n \in below[i].names
        PROVE  Precedes(entries[j].abs, Append(below[i].abs, n))
    <3>1. i \in DOMAIN stack /\ n \in Names /\ below[i].abs = stack[i].abs /\ Ahead(i, n)
      BY <1>16, <2>5 DEF Ahead
    <3> QED BY <1>7, <2>5, <3>1 DEF InOrder
  <2>6. ASSUME NEW k \in 1..b, NEW p, ToMeet(source.selection[k], p)
        PROVE  Handled(owner, k, p) \/ (k = b /\ (abs \in UpTo(p) \/ Awaits(below, p)))
    <3>1. Handled(owner, k, p) \/ (k = b /\ LeftToDo(p))
      BY <1>7, <2>6 DEF InOrder
    <3>2. ASSUME k = b, LeftToDo(p) PROVE abs \in UpTo(p) \/ Awaits(below, p)
      <4>1. PICK i \in DOMAIN stack :
               stack[i].abs \in Above(p) /\ p[Len(stack[i].abs) + 1] \in stack[i].names
        BY <1>2, <3>2 DEF LeftToDo, Ahead
      <4>2. p \in Seq(Names)
        BY <1>6, <1>9, <2>6, <3>2, ToMeetFacts
      <4>3. CASE i = Len(stack) /\ p[Len(stack[i].abs) + 1] = name
        BY <1>5, <1>10, <4>1, <4>2, <4>3, NextOnTheWay DEF abs
      <4>4. CASE ~(i = Len(stack) /\ p[Len(stack[i].abs) + 1] = name)
        <5>1. /\ i \in DOMAIN below /\ below[i].abs = stack[i].abs
              /\ p[Len(stack[i].abs) + 1] \in below[i].names
          BY <1>4, <1>5, <4>1, <4>4
        <5> QED BY <4>1, <5>1 DEF Awaits
      <4> QED BY <4>3, <4>4
    <3> QED BY <3>1, <3>2
  <2>7. Begun <= b
    BY <1>7
  <2> QED BY <1>6, <1>19, <1>20, <2>1, <2>2, <2>3, <2>4, <2>5, <2>6, <2>7, VisitInOrder
<1> QED BY <1>21, <1>22, <1>23


\* A step that only takes from what the open directories have still to visit.
LEMMA SameOrder ==
    ASSUME BuildTypes, OpenInv, WarnedInv, NEW owner, InOrder(owner),
           UNCHANGED <<source, todo, entries, warnings>>,
           \A l \in DOMAIN stack' : \A i \in 1..(l - 1) : i \in DOMAIN stack',
           \A i \in DOMAIN stack' :
              /\ i \in DOMAIN stack
              /\ stack'[i].abs = stack[i].abs /\ stack'[i].rel = stack[i].rel
              /\ i # Len(stack) => stack'[i].names = stack[i].names
              /\ \A name \in stack'[i].names : Append(stack'[i].abs, name) \in DOMAIN source.tree
              /\ \A name \in Names : Ahead(i, name)' => Ahead(i, name),
           \A p : Begun \in 1..Begun /\ ToMeet(Chosen, p) /\ LeftToDo(p) => LeftToDo(p)'
    PROVE  OpenInv' /\ WarnedInv' /\ \E o : InOrder(o)'
<1>1. Begun' = Begun /\ Chosen' = Chosen /\ Warned' = Warned
  BY DEF Begun, Chosen, Warned
<1>2. stack \in Seq(Frames) /\ DOMAIN stack = 1..Len(stack) /\ Len(stack) \in Nat
  BY DEF BuildTypes
<1>3. OpenInv'
  <2>1. ASSUME NEW l \in DOMAIN stack', NEW i \in 1..(l - 1), NEW name \in stack'[i].names
        PROVE  Beside(stack'[l].abs, Append(stack'[i].abs, name))
    <3>1. l \in DOMAIN stack /\ i \in DOMAIN stack /\ i # Len(stack)
      BY <1>2, <2>1
    <3>2. i \in DOMAIN stack'
      BY <2>1
    <3>3. stack'[i].names = stack[i].names /\ stack'[i].abs = stack[i].abs
      BY <3>1, <3>2
    <3>4. stack'[l].abs = stack[l].abs
      OBVIOUS
    <3> QED BY <2>1, <3>1, <3>3, <3>4 DEF OpenInv
  <2>2. ASSUME NEW i \in DOMAIN stack'
        PROVE  /\ Begun \in DOMAIN source.selection
               /\ stack'[i].abs \in Walked(source.tree, Chosen) /\ IsDir(stack'[i].abs)
               /\ stack'[i].rel = Relative(Chosen, stack'[i].abs)
               /\ \A name \in stack'[i].names : Append(stack'[i].abs, name) \in DOMAIN source.tree
    BY <2>2 DEF OpenInv
  <2> QED BY <1>1, <2>1, <2>2 DEF OpenInv, IsDir
<1>4. WarnedInv'
  BY <1>1 DEF WarnedInv
<1>5. ASSUME NEW k \in 1..Begun, NEW p, ToMeet(source.selection[k], p)
      PROVE  Handled(owner, k, p)' \/ (k = Begun /\ LeftToDo(p)')
  <2>1. Handled(owner, k, p) \/ (k = Begun /\ LeftToDo(p))
    BY <1>5 DEF InOrder
  <2>2. Handled(owner, k, p) => Handled(owner, k, p)'
    BY <1>1 DEF Handled
  <2> QED BY <1>5, <2>1, <2>2 DEF Chosen
<1>6. ASSUME NEW j \in DOMAIN entries, owner[j] = Begun, NEW i \in DOMAIN stack', NEW name \in Names,
             Ahead(i, name)'
      PROVE  Precedes(entries[j].abs, Append(stack'[i].abs, name))
  BY <1>6 DEF InOrder
<1>7. InOrder(owner)'
  BY <1>1, <1>5, <1>6 DEF InOrder, ToMeet
<1> QED BY <1>3, <1>4, <1>7

LEMMA ListInOrder ==
    ASSUME BuildTypes, AccountedInv, TreeIsAsFound, Undisturbed, OpenInv, WarnedInv,
           NEW owner, InOrder(owner), List, built' # "Io"
    PROVE  OpenInv' /\ WarnedInv' /\ \E o : InOrder(o)'
<1>1. /\ UNCHANGED <<source, todo, entries, warnings>> /\ step = "list" /\ step' = "walk"
      /\ stack # <<>> /\ DOMAIN stack = 1..Len(stack) /\ Len(stack) \in Nat \ {0}
      /\ Last(stack) = stack[Len(stack)] /\ DOMAIN stack' = DOMAIN stack
      /\ stack'[Len(stack)].abs = Last(stack).abs
      /\ stack'[Len(stack)].rel = Last(stack).rel
      /\ stack'[Len(stack)].names = ChildNames(fs, Last(stack).abs)
      /\ \A k \in DOMAIN stack : k # Len(stack) => stack'[k] = stack[k]
  BY ListFacts DEF List
<1>2. /\ source \in Sources /\ source.selection \in Seq(NonRoot) /\ Begun \in Nat
      /\ Len(stack) \in DOMAIN stack
  BY <1>1, BegunFacts
<1>3. PICK b \in DOMAIN source.selection : b = Begun
  BY <1>2 DEF OpenInv
<1>4. PICK s \in NonRoot : s = source.selection[b]
  BY <1>2
<1>5. PICK top \in Walked(source.tree, s) : top = Last(stack).abs
  BY <1>1, <1>2, <1>3, <1>4 DEF OpenInv, Chosen
<1>6. top \in Seq(Names) /\ s \in UpTo(top)
  BY <1>2, WalkedFacts
<1>7. ASSUME NEW name \in Names
      PROVE  name \in ChildNames(fs, top) <=> Append(top, name) \in DOMAIN source.tree
  <2>1. Append(top, name) \in Seq(Names) /\ Tmp \notin UpTo(Append(top, name))
    BY <1>4, <1>6, LongerPath, LooksElsewhere DEF Undisturbed
  <2>2. Append(top, name) \in DOMAIN fs <=> Append(top, name) \in DOMAIN source.tree
    BY <2>1, SeenAsFound DEF Undisturbed, Calm
  <2> QED BY <2>2 DEF ChildNames
<1>8. ASSUME NEW i \in DOMAIN stack'
      PROVE  /\ i \in DOMAIN stack
             /\ stack'[i].abs = stack[i].abs /\ stack'[i].rel = stack[i].rel
             /\ i # Len(stack) => stack'[i].names = stack[i].names
             /\ \A name \in stack'[i].names : Append(stack'[i].abs, name) \in DOMAIN source.tree
             /\ \A name \in Names : Ahead(i, name)' => Ahead(i, name)
  <2>1. CASE i = Len(stack)
    <3>1. \A name \in stack'[i].names : name \in Names
      BY <1>1, <2>1 DEF ChildNames
    <3> QED BY <1>1, <1>5, <1>7, <2>1, <3>1 DEF Ahead
  <2>2. CASE i # Len(stack)
    BY <1>1, <1>8, <2>2 DEF OpenInv, Ahead
  <2> QED BY <2>1, <2>2
<1>9. ASSUME NEW p, ToMeet(Chosen, p), LeftToDo(p) PROVE LeftToDo(p)'
  <2>1. ToMeet(s, p)
    BY <1>3, <1>4, <1>9 DEF Chosen
  <2>2. p \in Seq(Names)
    BY <1>2, <2>1, ToMeetFacts
  <2>3. PICK i \in DOMAIN stack :
           stack[i].abs \in Above(p) /\ Ahead(i, p[Len(stack[i].abs) + 1])
    BY <1>9 DEF LeftToDo
  <2>4. CASE i # Len(stack)
    BY <1>1, <2>3, <2>4 DEF LeftToDo, Ahead
  <2>5. CASE i = Len(stack)
    <3>1. top \in Above(p)
      BY <1>1, <1>5, <2>3, <2>5
    <3>2. PICK name \in Names : name = p[Len(top) + 1] /\ Append(top, name) \in UpTo(p)
      BY <2>2, <3>1, NextOnTheWay
    <3>3. Append(top, name) \in DOMAIN source.tree
      <4>1. CASE Append(top, name) = p
        <5>1. p # s
          <6>1. p \notin UpTo(top)
            BY <1>6, <4>1, LongerPath
          <6> QED BY <1>6, <6>1
        <5> QED BY <1>2, <2>1, <4>1, <5>1, ToMeetFacts
      <4>2. CASE Append(top, name) # p
        <5>1. Append(top, name) \in Above(p)
          BY <3>2, <4>2 DEF UpTo
        <5>2. s \in UpTo(Append(top, name))
          <6>1. Append(top, name) \in Seq(Names) /\ top \in UpTo(Append(top, name))
            BY <1>6, LongerPath
          <6> QED BY <1>6, <6>1, WayOfWay
        <5>3. Append(top, name) \in Walked(source.tree, s)
          BY <1>2, <2>1, <5>1, <5>2, ToMeetFacts
        <5> QED BY <5>3 DEF Walked
      <4> QED BY <4>1, <4>2
    <3>4. name \in ChildNames(fs, top)
      BY <1>7, <3>3
    <3>5. stack'[i].abs = top /\ name \in stack'[i].names /\ i \in DOMAIN stack'
      BY <1>1, <1>5, <2>5, <3>4
    <3> QED BY <3>1, <3>2, <3>5 DEF LeftToDo, Ahead
  <2> QED BY <2>4, <2>5
<1>10. \A l \in DOMAIN stack' : \A i \in 1..(l - 1) : i \in DOMAIN stack'
  BY <1>1
<1> QED BY <1>1, <1>8, <1>9, <1>10, SameOrder

LEMMA LeaveInOrder ==
    ASSUME BuildTypes, OpenInv, WarnedInv, NEW owner, InOrder(owner), Leave
    PROVE  OpenInv' /\ WarnedInv' /\ \E o : InOrder(o)'
<1>1. /\ UNCHANGED <<source, todo, entries, warnings, step>> /\ step = "walk"
      /\ Last(stack) = stack[Len(stack)] /\ Last(stack).names = {}
      /\ DOMAIN stack = 1..Len(stack) /\ DOMAIN stack' = 1..(Len(stack) - 1)
      /\ Len(stack) \in Nat \ {0}
      /\ \A k \in DOMAIN stack' : k \in DOMAIN stack /\ stack'[k] = stack[k]
  BY LeaveFacts DEF Leave
<1>2. ASSUME NEW i \in DOMAIN stack'
      PROVE  /\ i \in DOMAIN stack /\ stack'[i] = stack[i]
             /\ \A name \in stack'[i].names : Append(stack'[i].abs, name) \in DOMAIN source.tree
             /\ \A name \in Names : Ahead(i, name)' => Ahead(i, name)
  BY <1>1, <1>2 DEF OpenInv, Ahead
<1>3. ASSUME NEW p, LeftToDo(p) PROVE LeftToDo(p)'
  <2>1. PICK i \in DOMAIN stack :
           stack[i].abs \in Above(p) /\ p[Len(stack[i].abs) + 1] \in stack[i].names
    BY <1>1, <1>3 DEF LeftToDo, Ahead
  <2>2. i # Len(stack)
    BY <1>1, <2>1
  <2>3. i \in DOMAIN stack'
    BY <1>1, <2>1, <2>2
  <2> QED BY <1>1, <2>1, <2>3 DEF LeftToDo, Ahead
<1>4. \A l \in DOMAIN stack' : \A i \in 1..(l - 1) : i \in DOMAIN stack'
  BY <1>1
<1> QED BY <1>1, <1>2, <1>3, <1>4, SameOrder

LEMMA OrderKept ==
    ASSUME BuildTypes, WrittenInv, AccountedInv, TreeIsAsFound, OrderInv, [PathsNext]_pathsVars
    PROVE  OrderInv'
<1>1. ASSUME UNCHANGED <<source, todo, stack, entries, warnings>>, Undisturbed' => Undisturbed,
             step' = "list" <=> step = "list"
      PROVE  OrderInv'
  <2> SUFFICES ASSUME Undisturbed' PROVE OpenInv' /\ WarnedInv' /\ \E o : InOrder(o)'
    BY DEF OrderInv
  <2>1. OpenInv /\ WarnedInv /\ \E owner : InOrder(owner)
    BY <1>1 DEF OrderInv
  <2>2. PICK owner : InOrder(owner)
    BY <2>1
  <2>3. Begun' = Begun /\ Chosen' = Chosen /\ Warned' = Warned
    BY <1>1 DEF Begun, Chosen, Warned
  <2>4. OpenInv'
    BY <1>1, <2>1, <2>3 DEF OpenInv, IsDir
  <2>5. WarnedInv'
    BY <1>1, <2>1, <2>3 DEF WarnedInv
  <2>6. \A i : \A name : Ahead(i, name)' <=> Ahead(i, name)
    BY <1>1 DEF Ahead
  <2>7. \A p : LeftToDo(p)' <=> LeftToDo(p)
    BY <1>1, <2>6 DEF LeftToDo
  <2>8. \A k, p : Handled(owner, k, p)' <=> Handled(owner, k, p)
    BY <1>1, <2>3 DEF Handled
  <2>9. InOrder(owner)'
    BY <1>1, <2>2, <2>3, <2>6, <2>7, <2>8 DEF InOrder, ToMeet
  <2> QED BY <2>4, <2>5, <2>9
<1>2. CASE Walking
  <2>1. UNCHANGED <<source, changes>> /\ (built' = built \/ built' = "Io")
    BY <1>2 DEF Walking, VisitSelected, VisitChild, List, Leave, Visit, Failing
  <2> SUFFICES ASSUME Undisturbed' PROVE OpenInv' /\ WarnedInv' /\ \E o : InOrder(o)'
    BY DEF OrderInv
  <2>2. Undisturbed /\ built' # "Io"
    BY <2>1 DEF Undisturbed, Calm, OutputIsElsewhere
  <2>3. PICK owner : OpenInv /\ WarnedInv /\ InOrder(owner)
    BY <2>2 DEF OrderInv
  <2> QED BY <1>2, <2>2, <2>3, SelectedInOrder, ChildInOrder, ListInOrder, LeaveInOrder DEF Walking
<1>3. CASE Writing
  <2>1. UNCHANGED <<source, todo, stack, entries, warnings, changes>>
    BY <1>3 DEF Writing, WriteCount, WriteHead, WriteBody, WriteEnds, WriterFails
  <2>2. "list" \notin {step, step'} /\ built = "none"
    BY <1>3 DEF Writing, WriteCount, WriteHead, WriteBody, WriteEnds, WriterFails, Failing,
                WrittenInv
  <2>3. Undisturbed' => Undisturbed
    BY <2>1, <2>2 DEF Undisturbed, Calm, OutputIsElsewhere
  <2> QED BY <1>1, <2>1, <2>2, <2>3
<1>4. CASE (TreeChanges(NewTmp) \/ TreeChanges(NoTmp)) /\ UNCHANGED changes
  <2>1. UNCHANGED <<source, todo, stack, entries, warnings, changes, step, built>>
    BY <1>4 DEF TreeChanges
  <2> QED BY <1>1, <2>1 DEF Undisturbed, Calm, OutputIsElsewhere
<1>5. CASE UNCHANGED buildVars
  BY <1>1, <1>5 DEF buildVars, Undisturbed, Calm, OutputIsElsewhere
<1>6. CASE OthersChange
  <2>1. changes' # 0
    BY <1>6 DEF OthersChange, BuildTypes
  <2> QED BY <2>1 DEF OrderInv, Undisturbed, Calm
<1> QED BY <1>2, <1>3, <1>4, <1>5, <1>6, StepKinds


-----------------------------------------------------------------------------
(* Building: all of it.                                                    *)

BuildInv ==
    /\ BuildTypes /\ WrittenInv /\ ParentsInv /\ BuildTree /\ ContentInv /\ AccountedInv
    /\ TreeIsAsFound /\ FoundInv /\ UniqueInv /\ WholeInv /\ OrderInv

LEMMA StartsRight ==
    ASSUME NEW s \in Sources, BuildStart(s)
    PROVE  BuildInv
<1>1. /\ source = s /\ fs = s.tree /\ todo = s.selection
      /\ stack = <<>> /\ entries = <<>> /\ written = <<>>
      /\ permissions = NewFileMode /\ step = "walk" /\ built = "none" /\ changes = 0
  BY DEF BuildStart
<1>2. s.selection \in Seq(NonRoot) /\ GoodNodes(s.tree)
  BY SourceAssumption DEF NonRoot, GoodNodes
<1>3. BuildTypes
  <2>1. GoodNodes(fs)
    BY <1>1, <1>2
  <2>2. <<>> \in Seq(Frames) /\ <<>> \in Seq(Listed) /\ <<>> \in Seq(EntryRecords)
    OBVIOUS
  <2> QED BY <1>1, <1>2, <2>1, <2>2, NewNodes DEF BuildTypes
<1>4. WrittenInv
  BY <1>1 DEF WrittenInv
<1>5. ParentsInv
  BY <1>1 DEF ParentsInv
<1>6. BuildTree
  BY <1>1 DEF BuildTree, Untouched
<1>7. ContentInv
  BY <1>1 DEF ContentInv
<1>8. AccountedInv
  <2>1. Len(s.selection) \in Nat
    BY <1>2
  <2>2. Begun = 0
    BY <1>1, <2>1 DEF Begun
  <2> QED BY <1>1, <2>1, <2>2 DEF AccountedInv
<1>9. TreeIsAsFound /\ FoundInv /\ UniqueInv /\ WholeInv
  BY <1>1 DEF TreeIsAsFound, FoundInv, UniqueInv, WholeInv
<1>10. OrderInv
  <2>1. /\ Begun = 0 /\ warnings = <<>> /\ Warned = {}
    <3>1. Len(s.selection) \in Nat /\ warnings = <<>>
      BY <1>2 DEF BuildStart
    <3> QED BY <1>1, <3>1 DEF Begun, Warned
  <2>2. OpenInv /\ WarnedInv
    BY <1>1, <2>1 DEF OpenInv, WarnedInv
  <2>3. PICK owner : owner = [j \in {} |-> 1]
    OBVIOUS
  <2>4. /\ DOMAIN entries = {} /\ owner \in [DOMAIN entries -> 1..Begun]
        /\ \A k \in 1..Begun : FALSE
    BY <1>1, <2>1, <2>3
  <2>5. InOrder(owner)
    BY <2>4 DEF InOrder
  <2> QED BY <2>2, <2>5 DEF OrderInv
<1> QED BY <1>3, <1>4, <1>5, <1>6, <1>7, <1>8, <1>9, <1>10 DEF BuildInv

LEMMA BuildInvKept ==
    ASSUME BuildInv, [PathsNext]_pathsVars
    PROVE  BuildInv'
  BY BuildTypesKept, WrittenKept, ParentsKept, BuildTreeKept, ContentKept, AccountedKept,
     TreeIsAsFoundKept, FoundKept, UniqueKept, WholeKept,
     OrderKept DEF BuildInv

LEMMA UntouchedArchived ==
    ASSUME BuildInv
    PROVE  UntouchedIsArchived
<1> SUFFICES ASSUME built = "Ok", NEW k \in DOMAIN source.selection,
                    NEW p \in Walked(source.tree, source.selection[k]),
                    Untouched(p), changes <= 1, fs[p].kind = "file"
             PROVE  \E j \in DOMAIN written :
                       /\ written[j].path = Relative(source.selection[k], p)
                       /\ written[j].content = fs[p].content
  BY DEF UntouchedIsArchived
<1>1. /\ todo = <<>> /\ stack = <<>> /\ Len(written) = Len(entries)
      /\ written \in Seq(EntryRecords) /\ entries \in Seq(Listed)
  BY DEF BuildInv, WrittenInv, BuildTypes
<1>2. Begun = Len(source.selection) /\ k \in 1..Begun
  <2>1. source.selection \in Seq(NonRoot)
    BY SourceFacts DEF BuildInv, BuildTypes
  <2> QED BY <1>1, <2>1 DEF Begun
<1>3. fs[p] = source.tree[p]
  BY DEF Untouched, UpTo
<1>4. Accounted(source.selection[k], p)
  BY <1>2, <1>3 DEF BuildInv, AccountedInv, Wanted
<1>5. PICK j \in DOMAIN entries :
         entries[j] = [rel |-> Relative(source.selection[k], p), abs |-> p, dir |-> IsDir(p)]
  BY <1>1, <1>4 DEF Accounted, InList
<1>6. /\ j \in DOMAIN written /\ ~entries[j].dir /\ entries[j].abs = p
      /\ entries[j].rel = Relative(source.selection[k], p)
  <2>1. ~IsDir(p)
    BY <1>3 DEF IsDir
  <2>2. DOMAIN written = DOMAIN entries
    BY <1>1
  <2> QED BY <1>5, <2>1, <2>2
<1>7. written[j].path = Relative(source.selection[k], p)
  BY <1>6 DEF BuildInv, WrittenInv
<1>8. written[j].content = fs[p].content
  BY <1>3, <1>6 DEF BuildInv, ContentInv
<1> QED BY <1>6, <1>7, <1>8

LEMMA BuildInvMeans == BuildInv => WalkIsKept
  BY UntouchedArchived, ParentsFirst DEF BuildInv, WalkIsKept

\* Those of items that come before x; and the places of items in a list, counted so.
PreviousOf(items, x) == {o \in items : ComesBefore(o, x)}

LEMMA Places ==
    ASSUME NEW n \in Nat, NEW items, NEW f \in [1..n -> items],
           \A item \in items : \E j \in 1..n : f[j] = item,
           \A i, j \in 1..n : ComesBefore(f[i], f[j]) <=> i < j
    PROVE  /\ Cardinality(items) = n
           /\ \A j \in 1..n : Cardinality(PreviousOf(items, f[j])) + 1 = j
<1>1. \A i, j \in 1..n : f[i] = f[j] => i = j
  <2> SUFFICES ASSUME NEW i \in 1..n, NEW j \in 1..n, f[i] = f[j], i # j PROVE FALSE
    OBVIOUS
  <2>1. i < j \/ j < i
    OBVIOUS
  <2>2. ComesBefore(f[i], f[j]) \/ ComesBefore(f[j], f[i])
    BY <2>1
  <2>3. ComesBefore(f[i], f[i])
    BY <2>2
  <2>4. i < i
    BY <2>3
  <2> QED BY <2>4
<1>2. ASSUME NEW m \in 0..n PROVE Cardinality({f[j] : j \in 1..m}) = m
  <2> DEFINE first == {f[j] : j \in 1..m}
             g == [j \in 1..m |-> f[j]]
  <2>1. \A j \in 1..m : j \in 1..n
    OBVIOUS
  <2>2. g \in [1..m -> first]
    OBVIOUS
  <2>3. \A i, j \in DOMAIN g : g[i] = g[j] => i = j
    BY <1>1, <2>1
  <2>4. \A x \in first : \E j \in 1..m : g[j] = x
    OBVIOUS
  <2> HIDE DEF first, g
  <2>5. g \in Bijection(1..m, first)
    BY <2>2, <2>3, <2>4 DEF Bijection, Injection, Surjection, IsInjective
  <2>6. ExistsBijection(1..m, first)
    BY <2>5 DEF ExistsBijection
  <2>7. IsFiniteSet(1..m) /\ Cardinality(1..m) = m
    <3>1. /\ IsFiniteSet(1..m)
          /\ Cardinality(1..m) = IF 1 > m THEN 0 ELSE m - 1 + 1
      BY FS_Interval
    <3>2. (IF 1 > m THEN 0 ELSE m - 1 + 1) = m
      OBVIOUS
    <3> QED BY <3>1, <3>2
  <2>8. Cardinality(first) = m
    BY <2>6, <2>7, FS_Bijection
  <2> QED BY <2>8 DEF first
<1>3. items = {f[j] : j \in 1..n}
  OBVIOUS
<1>4. Cardinality(items) = n
  <2>1. n \in 0..n
    OBVIOUS
  <2> QED BY <1>2, <1>3, <2>1
<1>5. ASSUME NEW j \in 1..n PROVE Cardinality(PreviousOf(items, f[j])) + 1 = j
  <2>1. {o \in items : ComesBefore(o, f[j])} = {f[i] : i \in 1..(j - 1)}
    <3>1. ASSUME NEW o \in items, ComesBefore(o, f[j]) PROVE o \in {f[i] : i \in 1..(j - 1)}
      <4>1. PICK i \in 1..n : f[i] = o
        OBVIOUS
      <4>2. i < j
        BY <3>1, <4>1
      <4>3. i \in 1..(j - 1)
        BY <4>2
      <4> QED BY <4>1, <4>3
    <3>2. ASSUME NEW i \in 1..(j - 1) PROVE f[i] \in items /\ ComesBefore(f[i], f[j])
      <4>1. i \in 1..n /\ i < j
        OBVIOUS
      <4> QED BY <4>1
    <3> QED BY <3>1, <3>2
  <2>2. j - 1 \in 0..n
    OBVIOUS
  <2>3. Cardinality({f[i] : i \in 1..(j - 1)}) = j - 1
    BY <1>2, <2>2
  <2>4. j - 1 + 1 = j
    OBVIOUS
  <2> QED BY <2>1, <2>3, <2>4 DEF PreviousOf
<1> QED BY <1>4, <1>5

LEMMA EntryIsFor ==
    ASSUME NEW j, WrittenAsFound(j), entries[j] \in Listed,
           NEW k, entries[j].rel = Relative(source.selection[k], entries[j].abs)
    PROVE  written[j] = EntryFor(source.tree, source.selection, <<k, entries[j].abs>>)
<1> DEFINE node == NodeOf(j)
           dir == node.kind = "dir"
           short == [rel |-> Relative(source.selection[k], entries[j].abs), dir |-> dir]
           size == IF dir THEN 0 ELSE StoredLen[node.content]
<1>1. entries[j].dir <=> dir
  BY DEF WrittenAsFound
<1>2. short.rel = entries[j].rel /\ (short.dir <=> dir)
  OBVIOUS
<1>3. AsWritten(short, node.mode, node.content, size) = AsWritten(entries[j], node.mode, node.content, size)
  BY <1>1, <1>2 DEF AsWritten
<1>4. written[j] = AsWritten(entries[j], node.mode, node.content, size)
  BY <1>1 DEF WrittenAsFound
<1>5. EntryFor(source.tree, source.selection, <<k, entries[j].abs>>)
         = AsWritten(short, node.mode, node.content, size)
  BY DEF EntryFor, NodeOf
<1> QED BY <1>3, <1>4, <1>5

LEMMA SelectionIsArchived ==
    ASSUME BuildInv, Calm, built = "Ok"
    PROVE  /\ IsArchiveOf(written, source.tree, source.selection)
           /\ Warned = UNION {IgnoredBelow(source.tree, source.selection[k]) :
                                k \in DOMAIN source.selection}
<1>1. /\ BuildTypes /\ WrittenInv /\ AccountedInv /\ OrderInv /\ WholeInv
  BY DEF BuildInv
<1>2. /\ todo = <<>> /\ stack = <<>> /\ Len(written) = Len(entries)
      /\ DOMAIN written = DOMAIN entries /\ DOMAIN entries = 1..Len(entries) /\ Len(entries) \in Nat
      /\ \A j \in DOMAIN entries : entries[j] \in Listed
      /\ source \in Sources /\ source.selection \in Seq(NonRoot)
  BY <1>1, SourceFacts DEF WrittenInv, BuildTypes
<1>3. Begun = Len(source.selection) /\ 1..Begun = DOMAIN source.selection
  BY <1>2 DEF Begun
<1>4. PICK owner : WarnedInv /\ InOrder(owner)
  BY <1>1 DEF OrderInv, Undisturbed
<1>5. ASSUME NEW k \in DOMAIN source.selection, NEW p, ToMeet(source.selection[k], p)
      PROVE  Handled(owner, k, p)
  <2>1. ~LeftToDo(p)
    BY <1>2 DEF LeftToDo
  <2> QED BY <1>3, <1>4, <1>5, <2>1 DEF InOrder
<1> DEFINE n == Len(entries)
           items == Items(source.tree, source.selection)
           f == [j \in 1..n |-> <<owner[j], entries[j].abs>>]
<1>6. ASSUME NEW j \in 1..n
      PROVE  /\ owner[j] \in DOMAIN source.selection /\ owner[j] \in Nat
             /\ entries[j].abs \in Walked(source.tree, source.selection[owner[j]])
             /\ entries[j].abs \in Seq(Names)
  <2>1. /\ owner[j] \in DOMAIN source.selection
        /\ entries[j].abs \in Walked(source.tree, source.selection[owner[j]])
    BY <1>2, <1>3, <1>4, <1>6 DEF InOrder
  <2>2. owner[j] \in Nat
    BY <1>2, <2>1
  <2>3. entries[j].abs \in Seq(Names)
    BY <1>2, <1>6 DEF Listed, NonRoot
  <2> QED BY <2>1, <2>2, <2>3
<1>7. f \in [1..n -> items]
  <2>1. ASSUME NEW j \in 1..n PROVE <<owner[j], entries[j].abs>> \in items
    BY <1>6, <2>1 DEF Items
  <2> QED BY <2>1
<1>8. ASSUME NEW item \in items PROVE \E j \in 1..n : f[j] = item
  <2>1. PICK k \in DOMAIN source.selection :
           \E p \in Walked(source.tree, source.selection[k]) : item = <<k, p>>
    BY <1>8 DEF Items
  <2>2. PICK p \in Walked(source.tree, source.selection[k]) : item = <<k, p>>
    BY <2>1
  <2>3. PICK j \in DOMAIN entries : owner[j] = k /\ entries[j].abs = p
    BY <1>5, <2>2 DEF ToMeet, Handled
  <2> QED BY <1>2, <2>2, <2>3
<1>9. ASSUME NEW i \in 1..n, NEW j \in 1..n
      PROVE  ComesBefore(f[i], f[j]) <=>
                Earlier(owner[i], entries[i].abs, owner[j], entries[j].abs)
  BY DEF ComesBefore, Earlier
<1>10. ASSUME NEW i \in 1..n, NEW j \in 1..n PROVE ComesBefore(f[i], f[j]) <=> i < j
  <2>1. ASSUME NEW a \in 1..n, NEW b \in 1..n, a < b
        PROVE  Earlier(owner[a], entries[a].abs, owner[b], entries[b].abs)
    BY <1>2, <1>4, <2>1 DEF InOrder
  <2>2. ASSUME Earlier(owner[i], entries[i].abs, owner[j], entries[j].abs), ~(i < j) PROVE FALSE
    <3>1. owner[i] \in Nat /\ owner[j] \in Nat
      BY <1>6
    <3>2. CASE i = j
      <4>1. Precedes(entries[i].abs, entries[i].abs)
        BY <2>2, <3>1, <3>2 DEF Earlier
      <4> QED BY <1>6, <4>1, PrecedesOnce
    <3>3. CASE j < i
      <4>1. Earlier(owner[j], entries[j].abs, owner[i], entries[i].abs)
        BY <2>1, <3>3
      <4>2. Precedes(entries[i].abs, entries[j].abs) /\ Precedes(entries[j].abs, entries[i].abs)
        BY <2>2, <3>1, <4>1 DEF Earlier
      <4> QED BY <1>6, <4>2, PrecedesOnce
    <3>4. i = j \/ j < i
      BY <2>2
    <3> QED BY <3>2, <3>3, <3>4
  <2> QED BY <1>9, <2>1, <2>2
<1>11. ASSUME NEW j \in 1..n PROVE written[j] = EntryFor(source.tree, source.selection, f[j])
  <2>1. WrittenAsFound(j)
    BY <1>1, <1>2, <1>11 DEF WholeInv
  <2>2. entries[j].rel = Relative(source.selection[owner[j]], entries[j].abs)
    BY <1>2, <1>4, <1>11 DEF InOrder
  <2>3. entries[j] \in Listed
    BY <1>2, <1>11
  <2> QED BY <2>1, <2>2, <2>3, EntryIsFor
<1>12. IsArchiveOf(written, source.tree, source.selection)
  <2>0. n \in Nat
    BY <1>2
  <2> HIDE DEF n, items, f
  <2>1. /\ Cardinality(items) = n
        /\ \A j \in 1..n : Cardinality(PreviousOf(items, f[j])) + 1 = j
    <3>1. \A item \in items : \E j \in 1..n : f[j] = item
      BY <1>8
    <3>2. \A i, j \in 1..n : ComesBefore(f[i], f[j]) <=> i < j
      BY <1>10
    <3>3. PICK m, S, g : m = n /\ S = items /\ g = f
      OBVIOUS
    <3>4. /\ m \in Nat /\ g \in [1..m -> S]
          /\ \A item \in S : \E j \in 1..m : g[j] = item
          /\ \A i, j \in 1..m : ComesBefore(g[i], g[j]) <=> i < j
      BY <1>7, <2>0, <3>1, <3>2, <3>3
    <3>5. /\ Cardinality(S) = m
          /\ \A j \in 1..m : Cardinality(PreviousOf(S, g[j])) + 1 = j
      BY <3>4, Places
    <3> QED BY <3>3, <3>5
  <2>2. ASSUME NEW item \in items
        PROVE  written[Cardinality({o \in items : ComesBefore(o, item)}) + 1]
                  = EntryFor(source.tree, source.selection, item)
    <3>1. PICK j \in 1..n : f[j] = item
      BY <1>8
    <3>2. Cardinality({o \in items : ComesBefore(o, item)}) + 1 = j
      BY <2>1, <3>1 DEF PreviousOf
    <3> QED BY <1>11, <3>1, <3>2
  <2>3. Len(written) = Cardinality(items)
    BY <1>2, <2>1 DEF n
  <2> QED BY <2>2, <2>3 DEF IsArchiveOf, items
<1>13. Warned = UNION {IgnoredBelow(source.tree, source.selection[k]) :
                         k \in DOMAIN source.selection}
  <2>1. \A p \in Warned : \E k \in DOMAIN source.selection :
           p \in IgnoredBelow(source.tree, source.selection[k])
    BY <1>3, <1>4 DEF WarnedInv
  <2>2. ASSUME NEW k \in DOMAIN source.selection,
               NEW p \in IgnoredBelow(source.tree, source.selection[k])
        PROVE  p \in Warned
    BY <1>5, <2>2 DEF ToMeet, Handled
  <2> QED BY <2>1, <2>2
<1> QED BY <1>12, <1>13

\* An entry of the archive that stands for an original, a file or a directory.
IsEntryOf(w, o) ==
    /\ o.node.kind \in {"file", "dir"}
    /\ w.path = o.path /\ w.perms = o.node.mode /\ w.content = o.node.content
    /\ w.type = IF o.node.kind = "dir" THEN 1 ELSE 0
    /\ w.size = IF o.node.kind = "dir" THEN 0 ELSE StoredLen[o.node.content]
    /\ w.utf8 /\ w.fields = 4 /\ w.blocks = w.size

\* Each original is an entry of an archive that is complete, and each entry is one
\* of the originals.
HoldsOriginals(list) ==
    /\ \A o \in Originals : \E j \in DOMAIN list : IsEntryOf(list[j], o)
    /\ \A j \in DOMAIN list : \E o \in Originals : IsEntryOf(list[j], o)

LEMMA EntryOfOriginal ==
    ASSUME NEW j, WrittenAsFound(j), NEW o,
           o = [path |-> entries[j].rel, node |-> source.tree[entries[j].abs]]
    PROVE  IsEntryOf(written[j], o)
<1>1. o.path = entries[j].rel /\ o.node = NodeOf(j)
  BY DEF NodeOf
<1>2. entries[j].dir <=> o.node.kind = "dir"
  BY <1>1 DEF WrittenAsFound
<1> QED BY <1>1, <1>2 DEF WrittenAsFound, AsWritten, IsEntryOf

LEMMA OriginalsAreArchived ==
    ASSUME BuildInv, Calm, built = "Ok"
    PROVE  HoldsOriginals(written)
<1>1. /\ todo = <<>> /\ stack = <<>> /\ DOMAIN written = DOMAIN entries
      /\ source \in Sources /\ source.selection \in Seq(NonRoot)
  BY SourceFacts DEF BuildInv, WrittenInv, BuildTypes
<1>2. \A j \in DOMAIN written : WrittenAsFound(j)
  BY DEF BuildInv, WholeInv
<1>3. ASSUME NEW o \in Originals PROVE \E j \in DOMAIN written : IsEntryOf(written[j], o)
  <2>1. PICK k \in DOMAIN source.selection : \E p \in Walked(source.tree, source.selection[k]) :
           o = [path |-> Relative(source.selection[k], p), node |-> source.tree[p]]
    BY DEF Originals
  <2>2. PICK s \in NonRoot : s = source.selection[k]
    BY <1>1
  <2>3. PICK p \in Walked(source.tree, s) :
           o = [path |-> Relative(s, p), node |-> source.tree[p]]
    BY <2>1, <2>2
  <2>4. Untouched(p)
    <3>1. p \in Seq(Names) /\ p \in DOMAIN source.tree /\ Reachable(source.tree, p)
      BY <1>1, WalkedFacts
    <3>2. UpTo(p) \subseteq DOMAIN source.tree
      BY <3>1 DEF Reachable, Searchable, UpTo
    <3> QED BY <3>1, <3>2 DEF BuildInv, BuildTree, Calm
  <2>5. k \in 1..Begun
    BY <1>1 DEF Begun
  <2>6. Accounted(s, p)
    BY <2>2, <2>4, <2>5 DEF BuildInv, AccountedInv, Wanted, Calm
  <2>7. PICK j \in DOMAIN entries :
           entries[j] = [rel |-> Relative(s, p), abs |-> p, dir |-> IsDir(p)]
    BY <1>1, <2>6 DEF Accounted, InList
  <2>8. entries[j].rel = Relative(s, p) /\ entries[j].abs = p
    BY <2>7
  <2> QED BY <1>1, <1>2, <2>3, <2>8, EntryOfOriginal
<1>4. ASSUME NEW j \in DOMAIN written PROVE \E o \in Originals : IsEntryOf(written[j], o)
  <2> DEFINE o == [path |-> entries[j].rel, node |-> source.tree[entries[j].abs]]
  <2>1. IsEntryOf(written[j], o)
    BY <1>2, <1>4, EntryOfOriginal
  <2>2. o \in Originals
    BY <1>1, <1>4 DEF BuildInv, FoundInv, OnAWalk, Originals
  <2> QED BY <2>1, <2>2
<1> QED BY <1>3, <1>4 DEF HoldsOriginals

\* An archive that extraction can make entry by entry, from nothing.
SoundEntry(e) ==
    /\ e.fields = 4 /\ e.utf8 /\ e.type \in {0, 1} /\ e.blocks = e.size
    /\ e.path \in NonRoot
    /\ e.type = 0 => e.content \in Contents \ Garbage
    /\ e.type = 1 => e.content = NoContent /\ {"w", "x"} \subseteq e.perms

Orderly(list) ==
    /\ \A k \in DOMAIN list :
          /\ SoundEntry(list[k])
          /\ Len(list[k].path) > 1 =>
                \E j \in 1..(k - 1) : list[j].type = 1 /\ list[j].path = Front(list[k].path)
    /\ \A k, l \in DOMAIN list : list[k].path = list[l].path => k = l

LEMMA ArchiveIsOrderly ==
    ASSUME BuildInv, Restorable, built = "Ok"
    PROVE  Orderly(written)
<1>1. Calm /\ NamesDiffer
  BY DEF Restorable, Calm, NamesDiffer
<1>2. /\ DOMAIN written = DOMAIN entries /\ \A j \in DOMAIN written : written[j].path = entries[j].rel
      /\ \A j \in DOMAIN written : written[j].type = 0 => written[j].content \in Contents
      /\ entries \in Seq(Listed)
  BY DEF BuildInv, WrittenInv, BuildTypes
<1>3. ASSUME NEW k \in DOMAIN written, Len(written[k].path) > 1
      PROVE  \E j \in 1..(k - 1) :
                written[j].type = 1 /\ written[j].path = Front(written[k].path)
  BY <1>3, ParentsFirst DEF BuildInv, ParentsComeFirst
<1>4. \A k, l \in DOMAIN written : written[k].path = written[l].path => k = l
  BY <1>1, <1>2 DEF BuildInv, UniqueInv
<1>5. ASSUME NEW k \in DOMAIN written PROVE SoundEntry(written[k])
  <2>1. PICK o \in Originals : IsEntryOf(written[k], o)
    BY <1>1, <1>5, OriginalsAreArchived DEF HoldsOriginals
  <2>2. PICK p \in DOMAIN source.tree : o.node = source.tree[p]
    BY DEF Originals, Walked
  <2>3. o.node.content \notin Garbage /\ (o.node.kind = "dir" => o.node.content = NoContent)
    BY <2>2, SourceAssumption, RoundTripAssumption DEF BuildInv, BuildTypes
  <2>4. o.node.kind = "dir" => {"w", "x"} \subseteq o.node.mode
    BY DEF Restorable
  <2>5. written[k].path \in NonRoot
    <3>1. entries[k] \in Listed
      BY <1>2, <1>5
    <3> QED BY <1>2, <1>5, <3>1 DEF Listed
  <2>6. /\ written[k].type = 0 => written[k].content \in Contents \ Garbage
        /\ written[k].type = 1 => written[k].content = NoContent /\ {"w", "x"} \subseteq written[k].perms
    BY <1>2, <1>5, <2>1, <2>3, <2>4 DEF IsEntryOf
  <2> QED BY <2>1, <2>5, <2>6 DEF SoundEntry, IsEntryOf
<1> QED BY <1>3, <1>4, <1>5 DEF Orderly

-----------------------------------------------------------------------------
(* The stages of encrypt_paths.                                            *)

Over == stage \in {"drop", "done", "killed"}

\* The output is left alone until the archive is complete and the answer is Ok.
StageInv ==
    /\ stage \in {"create", "build", "encrypt", "drop", "done", "killed"}
    /\ output # Before => output = Sealed(written) /\ built = "Ok"
    /\ reply = "Ok" <=> output # Before
    /\ ~Over => output = Before /\ reply = "none"
    /\ stage = "encrypt" => built = "Ok"
    /\ stage \in {"drop", "done"} => reply # "none"
    /\ ClearArchiveIsGone

LEMMA SealedIsNew == \A list : Sealed(list) # Before
  BY DEF Sealed, Before

LEMMA StageInvKept ==
    ASSUME BuildInv, StageInv, [PathsNext]_pathsVars
    PROVE  StageInv'
<1> USE DEF StageInv, Over
<1>1. CASE CreateTmp
  BY <1>1 DEF CreateTmp, Returning, ClearArchiveIsGone
<1>2. CASE Build(BuildProceeds) \/ Build(WriterFails) \/ Build(OthersChange)
  BY <1>2 DEF Build, ClearArchiveIsGone
<1>3. CASE BuildReturned
  BY <1>3 DEF BuildReturned, Returning, buildVars, ClearArchiveIsGone
<1>4. CASE Encrypt
  BY <1>4, SealedIsNew DEF Encrypt, Returning, buildVars, ClearArchiveIsGone
<1>5. CASE Drop
  <2>1. Tmp \notin DOMAIN fs' \/ undeleted'
    <3>1. Tmp \notin DOMAIN Changed(fs, NoTmp)
      BY ChangedFacts DEF NoTmp, UpTo
    <3> QED BY <1>5, <3>1 DEF Drop, NoTmp
  <2> QED BY <1>5, <2>1 DEF Drop, ClearArchiveIsGone
<1>6. CASE Kill
  BY <1>6 DEF Kill, buildVars, ClearArchiveIsGone
<1>7. CASE UNCHANGED pathsVars
  BY <1>7 DEF pathsVars, buildVars, ClearArchiveIsGone
<1> QED BY <1>1, <1>2, <1>3, <1>4, <1>5, <1>6, <1>7 DEF PathsNext, PathsProceed

\* Nothing to build, or what has been built and sealed so far.
PathsInv ==
    \/ BuildInv /\ StageInv
    \/ /\ stage = "elsewhere" /\ output = Before /\ reply = "none"
       /\ built = "none" /\ written = <<>>

LEMMA PathsInvKept ==
    ASSUME PathsInv, [PathsNext]_pathsVars
    PROVE  PathsInv'
<1>1. CASE BuildInv /\ StageInv
  BY <1>1, BuildInvKept, StageInvKept DEF PathsInv
<1>2. CASE stage = "elsewhere"
  <2>1. UNCHANGED pathsVars
    BY <1>2 DEF PathsNext, PathsProceed, CreateTmp, Build, BuildReturned, Encrypt, Drop, Kill
  <2> QED BY <1>2, <2>1
          DEF PathsInv, StageInv, pathsVars, buildVars
<1> QED BY <1>1, <1>2 DEF PathsInv

LEMMA PathsInvMeans ==
    ASSUME PathsInv
    PROVE  WalkIsKept /\ OutputIsWhole /\ ClearArchiveIsGone
<1>1. CASE BuildInv /\ StageInv
  <2>1. WalkIsKept /\ ClearArchiveIsGone
    BY <1>1, BuildInvMeans DEF StageInv
  <2>2. ASSUME output # Before
        PROVE  /\ Len(output.entries) = Len(entries)
               /\ \A k \in DOMAIN entries : output.entries[k].path = entries[k].rel
    <3>1. output.entries = written /\ built = "Ok"
      BY <1>1, <2>2 DEF StageInv, Sealed
    <3>2. Len(written) = Len(entries) /\ DOMAIN written = DOMAIN entries
      BY <1>1, <3>1 DEF BuildInv, BuildTypes, WrittenInv
    <3> QED BY <1>1, <3>1, <3>2 DEF BuildInv, WrittenInv
  <2> QED BY <1>1, <2>1, <2>2 DEF StageInv, OutputIsWhole
<1>2. CASE /\ stage = "elsewhere" /\ output = Before /\ reply = "none"
           /\ built = "none" /\ written = <<>>
  BY <1>2 DEF WalkIsKept, UntouchedIsArchived, ParentsComeFirst, OutputIsWhole,
              ClearArchiveIsGone
<1> QED BY <1>1, <1>2 DEF PathsInv

-----------------------------------------------------------------------------
(* Extraction of an orderly archive to an empty directory.                 *)

FromNothing ==
    before = Empty /\ archive.count = Len(archive.entries) /\ Orderly(archive.entries)

PathOf(k) == archive.entries[k].path

ModesFor(e) ==
    {SanitizeMode(e.perms, e.type = 1), IF e.type = 1 THEN NewDirMode ELSE NewFileMode}

IsMade(node, e) ==
    /\ node.kind = IF e.type = 1 THEN "dir" ELSE "file"
    /\ node.content = e.content
    /\ node.mode \in ModesFor(e)

\* What the first n entries stand for, and nothing else, and each directory can
\* be gone through.
HoldsFirst(t, n) ==
    /\ DOMAIN t = {<<>>} \cup {PathOf(k) : k \in 1..n}
    /\ t[<<>>] = Dir(NewDirMode)
    /\ \A k \in 1..n : IsMade(t[PathOf(k)], archive.entries[k])
    /\ \A p \in DOMAIN t : Searchable(t, p)

RestoreInv ==
    FromNothing =>
        /\ result = "Ok" => index = archive.count
        /\ result # "Io" => HoldsFirst(tree, index)

LEMMA PathAbove ==
    ASSUME NEW p \in NonRoot
    PROVE  /\ p \in Seq(Names) /\ Len(p) \in Nat \ {0}
           /\ Front(p) \in Seq(Names) /\ Len(Front(p)) = Len(p) - 1
           /\ Above(p) = UpTo(Front(p)) /\ Front(p) \in Above(p) /\ p \notin Above(p)
           /\ Len(p) = 1 => Front(p) = <<>>
<1>1. /\ p \in Seq(Names) /\ Len(p) \in Nat \ {0}
      /\ Front(p) \in Seq(Names) /\ Len(Front(p)) = Len(p) - 1
  BY LastOf DEF NonRoot
<1> DEFINE q == Front(p)
<1>2. q = SubSeq(p, 1, Len(p) - 1) /\ Len(p) - 1 \in 0..Len(p) /\ Len(p) - 1 \in 0..(Len(p) - 1)
  BY <1>1 DEF Front
<1>3. q \in Above(p)
  BY <1>2 DEF Above
<1> HIDE DEF q
<1>4. \A n \in 0..Len(q) : SubSeq(q, 1, n) = SubSeq(p, 1, n)
  <2>1. Len(q) = Len(p) - 1
    BY <1>1 DEF q
  <2> QED BY <1>1, <1>2, <2>1, PrefixOfPrefix
<1>5. ASSUME NEW r \in Above(p) PROVE r \in UpTo(q)
  <2>1. PICK n \in 0..(Len(p) - 1) : r = SubSeq(p, 1, n)
    BY <1>5 DEF Above
  <2>2. n \in 0..Len(q)
    BY <1>1, <2>1 DEF q
  <2> QED BY <1>1, <1>4, <2>1, <2>2, AboveIsPrefix DEF q
<1>6. ASSUME NEW r \in UpTo(q) PROVE r \in Above(p)
  <2>1. Len(r) \in 0..Len(q) /\ r = SubSeq(q, 1, Len(r))
    BY <1>1, OnTheWay DEF q
  <2>2. r = SubSeq(p, 1, Len(r)) /\ Len(r) \in 0..(Len(p) - 1)
    BY <1>1, <1>4, <2>1 DEF q
  <2> QED BY <2>2 DEF Above
<1>7. p \notin Above(p)
  <2>1. \A r \in UpTo(q) : Len(r) \in 0..Len(q)
    BY <1>1, OnTheWay DEF q
  <2>2. Len(p) \notin 0..Len(q)
    BY <1>1 DEF q
  <2> QED BY <1>5, <2>1, <2>2
<1>8. Len(p) = 1 => q = <<>>
  BY <1>1, EmptySeq DEF q
<1> QED BY <1>1, <1>3, <1>5, <1>6, <1>7, <1>8 DEF q

\* The place of the next entry is free, and its directory lets it be made.
LEMMA NextPlace ==
    ASSUME SoundArchive(archive), FromNothing, NEW n \in Nat, n + 1 \in DOMAIN archive.entries,
           NEW t, HoldsFirst(t, n), NEW p, p = PathOf(n + 1)
    PROVE  /\ p \in NonRoot /\ p \notin DOMAIN t
           /\ Front(p) \in DOMAIN t /\ Writable(t, Front(p))
           /\ Above(p) \subseteq DOMAIN t
           /\ \A q \in Above(p) : t[q].kind = "dir" /\ "x" \in t[q].mode
<1>1. archive.entries \in Seq(EntryRecords) /\ Len(archive.entries) \in Nat
  BY DEF SoundArchive
<1>2. \A k \in 1..n : k \in DOMAIN archive.entries /\ k # n + 1
  BY <1>1
<1>3. p \in NonRoot
  BY DEF FromNothing, Orderly, SoundEntry, PathOf
<1>4. p \notin DOMAIN t
  <2>1. \A k \in 1..n : PathOf(k) # p
    BY <1>2 DEF FromNothing, Orderly, PathOf
  <2>2. p # <<>>
    BY <1>3 DEF NonRoot
  <2> QED BY <2>1, <2>2 DEF HoldsFirst
<1>5. /\ p \in Seq(Names) /\ Len(p) \in Nat \ {0} /\ Front(p) \in Seq(Names)
      /\ Above(p) = UpTo(Front(p)) /\ (Len(p) = 1 => Front(p) = <<>>)
  BY <1>3, PathAbove
<1>6. Front(p) \in DOMAIN t /\ t[Front(p)].kind = "dir" /\ {"w", "x"} \subseteq t[Front(p)].mode
  <2>1. CASE Len(p) = 1
    <3>1. Front(p) = <<>> /\ t[<<>>] = Dir(NewDirMode) /\ <<>> \in DOMAIN t
      BY <1>5, <2>1 DEF HoldsFirst
    <3> QED BY <3>1 DEF Dir, NewDirMode
  <2>2. CASE Len(p) # 1
    <3>1. Len(p) > 1
      <4>1. \A m \in Nat \ {0} : m # 1 => m > 1
        OBVIOUS
      <4> QED BY <1>5, <2>2, <4>1
    <3>2. PICK j \in 1..(n + 1 - 1) :
             archive.entries[j].type = 1 /\ archive.entries[j].path = Front(p)
      BY <3>1 DEF FromNothing, Orderly, PathOf
    <3>3. j \in 1..n /\ j \in DOMAIN archive.entries
      BY <1>2, <3>2
    <3>4. Front(p) \in DOMAIN t /\ IsMade(t[Front(p)], archive.entries[j])
      BY <3>2, <3>3 DEF HoldsFirst, PathOf
    <3>5. {"w", "x"} \subseteq archive.entries[j].perms
      BY <3>2, <3>3 DEF FromNothing, Orderly, SoundEntry
    <3>6. \A mode \in ModesFor(archive.entries[j]) : {"w", "x"} \subseteq mode
      BY <3>2, <3>5 DEF ModesFor, SanitizeMode, NewDirMode
    <3> QED BY <3>2, <3>4, <3>6 DEF IsMade
  <2> QED BY <2>1, <2>2
<1>7. Searchable(t, Front(p))
  BY <1>6 DEF HoldsFirst
<1>8. Writable(t, Front(p))
  BY <1>6, <1>7 DEF Writable, Reachable
<1>9. \A q \in Above(p) : q \in DOMAIN t /\ t[q].kind = "dir" /\ "x" \in t[q].mode
  BY <1>5, <1>6, <1>7 DEF UpTo, Searchable
<1> QED BY <1>3, <1>4, <1>6, <1>8, <1>9

\* The tree once the next entry has been made.
LEMMA NextMade ==
    ASSUME SoundArchive(archive), FromNothing, NEW n \in Nat, n + 1 \in DOMAIN archive.entries,
           NEW t, HoldsFirst(t, n), NEW made,
           DOMAIN made = DOMAIN t \cup {PathOf(n + 1)},
           \A q \in DOMAIN t : made[q] = t[q],
           IsMade(made[PathOf(n + 1)], archive.entries[n + 1])
    PROVE  HoldsFirst(made, n + 1)
<1> DEFINE p == PathOf(n + 1)
<1>1. /\ p \in NonRoot /\ p \notin DOMAIN t /\ Above(p) \subseteq DOMAIN t
      /\ \A q \in Above(p) : t[q].kind = "dir" /\ "x" \in t[q].mode
  BY NextPlace
<1>2. \A k \in 1..(n + 1) : k \in 1..n \/ k = n + 1
  OBVIOUS
<1>3. \A k \in 1..n : k \in 1..(n + 1)
  OBVIOUS
<1>4. n + 1 \in 1..(n + 1)
  OBVIOUS
<1>5. DOMAIN made = {<<>>} \cup {PathOf(k) : k \in 1..(n + 1)}
  BY <1>2, <1>3, <1>4 DEF HoldsFirst
<1>6. made[<<>>] = Dir(NewDirMode)
  BY DEF HoldsFirst
<1>7. \A k \in 1..(n + 1) : IsMade(made[PathOf(k)], archive.entries[k])
  BY <1>2 DEF HoldsFirst
<1>8. ASSUME NEW q \in DOMAIN made PROVE Searchable(made, q)
  <2>1. CASE q = p
    BY <1>1, <2>1 DEF Searchable
  <2>2. CASE q \in DOMAIN t
    BY <2>2 DEF HoldsFirst, Searchable
  <2> QED BY <2>1, <2>2
<1> QED BY <1>5, <1>6, <1>7, <1>8 DEF HoldsFirst

\* Whenever something is made of an entry, its place is free and what the
\* entries before it stand for is there.
LEMMA CurrentPlace ==
    ASSUME ExtractInv, RestoreInv, FromNothing, pc \in Working
    PROVE  /\ SoundArchive(archive) /\ index \in Nat /\ index + 1 \in DOMAIN archive.entries
           /\ Current = archive.entries[index + 1] /\ Current.path = PathOf(index + 1)
           /\ Current \in EntryRecords /\ SoundEntry(Current)
           /\ GoodTree(tree) /\ HoldsFirst(tree, index)
           /\ Current.path \in NonRoot /\ Current.path \in Seq(Names)
           /\ Current.path \notin DOMAIN tree
           /\ Above(Current.path) \subseteq DOMAIN tree
           /\ Front(Current.path) \in DOMAIN tree /\ Writable(tree, Front(Current.path))
<1>1. /\ index \in Nat /\ index + 1 \in 1..Len(archive.entries)
      /\ Current = archive.entries[index + 1] /\ Current \in EntryRecords
  BY CurrentEntry DEF ExtractInv
<1>2. SoundArchive(archive) /\ archive.entries \in Seq(EntryRecords) /\ GoodTree(tree)
  BY DEF ExtractInv, EInv, PlaceInv, SoundArchive, TreeInv
<1>3. index + 1 \in DOMAIN archive.entries
  BY <1>1, <1>2
<1>4. HoldsFirst(tree, index)
  BY DEF RestoreInv, ExtractInv, EInv, ExtractTypeOK, Working
<1> DEFINE p == Current.path
<1>5. p = PathOf(index + 1)
  BY <1>1 DEF PathOf
<1>6. SoundEntry(Current)
  BY <1>1, <1>3 DEF FromNothing, Orderly
<1> HIDE DEF p
<1>7. /\ p \in NonRoot /\ p \notin DOMAIN tree /\ Above(p) \subseteq DOMAIN tree
      /\ Front(p) \in DOMAIN tree /\ Writable(tree, Front(p))
  BY <1>1, <1>2, <1>3, <1>4, <1>5, NextPlace
<1>8. p \in Seq(Names)
  BY <1>7, PathAbove
<1> QED BY <1>1, <1>2, <1>3, <1>4, <1>5, <1>6, <1>7, <1>8 DEF p

\* So it can always be made.
LEMMA NeverRefused ==
    ASSUME ExtractInv, RestoreInv, FromNothing
    PROVE  ~CannotMake
<1> SUFFICES ASSUME pc \in {"dir", "parent", "file"} PROVE ~CannotMake
  BY DEF CannotMake
<1> DEFINE p == Current.path
<1>1. p \in NonRoot /\ p \notin DOMAIN tree /\ Writable(tree, Front(p))
  BY CurrentPlace DEF Working
<1> HIDE DEF p
<1>2. /\ p \in Seq(Names) /\ Len(p) \in Nat \ {0} /\ Len(Front(p)) = Len(p) - 1
      /\ Front(p) \in Above(p)
  BY <1>1, PathAbove
<1>3. CanMakeDirs(tree, p)
  <2>1. \A m \in (Len(Front(p)) + 1)..Len(p) : m = Len(p)
    BY <1>2
  <2>2. SubSeq(p, 1, Len(p)) = p
    BY <1>2, SubSeqFull
  <2> QED BY <1>1, <1>2, <2>1, <2>2 DEF CanMakeDirs
<1>4. CanMakeDirs(tree, Front(p))
  BY <1>1 DEF CanMakeDirs, Writable
<1>5. CanWriteFile(tree, p)
  BY <1>1 DEF CanWriteFile, NonRoot
<1> QED BY <1>3, <1>4, <1>5 DEF CannotMake, p

LEMMA DirRestored ==
    ASSUME ExtractInv, RestoreInv, FromNothing, MakeDir
    PROVE  HoldsFirst(tree', index + 1)
<1> DEFINE p == Current.path
           made == MakeDirs(tree, p)
           mode == SanitizeMode(Current.perms, TRUE)
<1>1. pc = "dir" /\ CanMakeDirs(tree, p) /\ (tree' = SetMode(made, p, mode) \/ tree' = made)
  BY DEF MakeDir
<1>2. /\ SoundArchive(archive) /\ index \in Nat /\ index + 1 \in DOMAIN archive.entries
      /\ Current = archive.entries[index + 1] /\ p = PathOf(index + 1)
      /\ Current \in EntryRecords /\ SoundEntry(Current)
      /\ GoodTree(tree) /\ HoldsFirst(tree, index)
      /\ p \in Seq(Names) /\ p \notin DOMAIN tree /\ Above(p) \subseteq DOMAIN tree
  BY <1>1, CurrentPlace DEF Working
<1>3. Current.type = 1 /\ Current.content = NoContent
  BY <1>1, <1>2, CurrentEntry DEF ExtractInv, Working, SoundEntry
<1>4. mode \in SUBSET ModeBits /\ mode \in ModesFor(Current) /\ NewDirMode \in ModesFor(Current)
  BY <1>2, <1>3 DEF SanitizeMode, EntryRecords, ModesFor
<1> HIDE DEF p, mode
<1>5. /\ DOMAIN made = DOMAIN tree \cup {p}
      /\ \A q \in DOMAIN tree : made[q] = tree[q]
      /\ made[p] = Dir(NewDirMode)
  <2>1. DOMAIN tree \cup UpTo(p) = DOMAIN tree \cup {p} /\ p \in UpTo(p)
    BY <1>2 DEF UpTo
  <2>2. /\ DOMAIN made = DOMAIN tree \cup UpTo(p)
        /\ \A q \in DOMAIN tree : made[q] = tree[q]
        /\ \A q \in UpTo(p) : q \notin DOMAIN tree => made[q] = Dir(NewDirMode)
    BY MakeDirsKeeps
  <2> QED BY <1>2, <2>1, <2>2
<1>6. GoodTree(made)
  BY <1>1, <1>2, MakeDirsGood
<1> HIDE DEF made
<1>7. IsMade(made[p], Current)
  BY <1>3, <1>4, <1>5 DEF Dir, IsMade
<1>8. CASE tree' = made
  BY <1>2, <1>5, <1>7, <1>8, NextMade
<1>9. CASE tree' = SetMode(made, p, mode)
  <2>1. p \in DOMAIN made
    BY <1>5
  <2>2. /\ DOMAIN tree' = DOMAIN made
        /\ \A q \in DOMAIN made \ {p} : tree'[q] = made[q]
        /\ tree'[p].kind = made[p].kind /\ tree'[p].mode = mode
    BY <1>4, <1>6, <1>9, <2>1, SetModeKeeps
  <2>3. tree'[p].content = made[p].content
    BY <1>6, <1>9, <2>1, SetModeKeepsContent
  <2>4. IsMade(tree'[p], Current)
    BY <1>4, <1>7, <2>2, <2>3 DEF IsMade
  <2>5. \A q \in DOMAIN tree : tree'[q] = tree[q]
    BY <1>2, <1>5, <2>2
  <2> QED BY <1>2, <1>5, <2>2, <2>4, <2>5, NextMade
<1> QED BY <1>1, <1>8, <1>9

LEMMA FileRestored ==
    ASSUME ExtractInv, RestoreInv, FromNothing, MakeFile
    PROVE  HoldsFirst(tree', index + 1)
<1> DEFINE p == Current.path
           made == WriteFile(tree, p, Current.content)
           mode == SanitizeMode(Current.perms, FALSE)
<1>1. pc = "file" /\ (tree' = SetMode(made, p, mode) \/ tree' = made)
  BY DEF MakeFile
<1>2. /\ SoundArchive(archive) /\ index \in Nat /\ index + 1 \in DOMAIN archive.entries
      /\ Current = archive.entries[index + 1] /\ p = PathOf(index + 1)
      /\ Current \in EntryRecords
      /\ HoldsFirst(tree, index) /\ p \notin DOMAIN tree
  BY <1>1, CurrentPlace DEF Working
<1>3. Current.type = 0
  BY <1>1, CurrentEntry DEF ExtractInv, Working
<1>4. mode \in ModesFor(Current) /\ NewFileMode \in ModesFor(Current)
  <2>1. (Current.type = 1) = FALSE
    BY <1>3
  <2> QED BY <2>1 DEF ModesFor
<1>5. /\ DOMAIN made = DOMAIN tree \cup {p}
      /\ \A q \in DOMAIN tree : made[q] = tree[q]
      /\ made[p] = File(Current.content, NewFileMode)
  BY <1>2 DEF WriteFile
<1>6. SetMode(made, p, mode) =
          [made EXCEPT ![p] = [File(Current.content, NewFileMode) EXCEPT !.mode = mode]]
  BY <1>5 DEF SetMode
<1> HIDE DEF p, mode, made
<1>7. /\ IsMade(File(Current.content, NewFileMode), Current)
      /\ IsMade([File(Current.content, NewFileMode) EXCEPT !.mode = mode], Current)
  BY <1>3, <1>4 DEF File, IsMade
<1>8. /\ DOMAIN tree' = DOMAIN tree \cup {p}
      /\ \A q \in DOMAIN tree : tree'[q] = tree[q]
      /\ IsMade(tree'[p], Current)
  BY <1>1, <1>2, <1>5, <1>6, <1>7
<1> QED BY <1>2, <1>8, NextMade

LEMMA ParentRestored ==
    ASSUME ExtractInv, RestoreInv, FromNothing, MakeParent
    PROVE  HoldsFirst(tree', index)
<1> DEFINE d == Front(Current.path)
<1>1. pc = "parent" /\ tree' = MakeDirs(tree, d)
  BY DEF MakeParent
<1>2. HoldsFirst(tree, index) /\ d \in DOMAIN tree /\ Writable(tree, d)
  BY <1>1, CurrentPlace DEF Working
<1> HIDE DEF d
<1>3. UpTo(d) \subseteq DOMAIN tree
  BY <1>2 DEF Writable, Reachable, Searchable, UpTo
<1>4. DOMAIN tree' = DOMAIN tree /\ \A q \in DOMAIN tree : tree'[q] = tree[q]
  BY <1>1, <1>3, MakeDirsKeeps
<1>5. \A q \in DOMAIN tree : Searchable(tree', q)
  BY <1>2, <1>4 DEF HoldsFirst, Searchable
<1>6. \A k \in 1..index : PathOf(k) \in DOMAIN tree
  BY <1>2 DEF HoldsFirst
<1> QED BY <1>2, <1>4, <1>5, <1>6 DEF HoldsFirst

LEMMA RestoreKept ==
    ASSUME ExtractInv, RestoreInv, [ExtractNext]_extractVars
    PROVE  RestoreInv'
<1>1. UNCHANGED <<archive, before>>
  BY ArchiveStays
<1>2. /\ FromNothing' <=> FromNothing
      /\ \A t, n : HoldsFirst(t, n)' <=> HoldsFirst(t, n)
  BY <1>1 DEF FromNothing, HoldsFirst, PathOf
<1> SUFFICES ASSUME FromNothing
             PROVE  /\ result' = "Ok" => index' = archive.count
                    /\ result' # "Io" => HoldsFirst(tree', index')
  <2>1. \A t, n : (HoldsFirst(t, n) <=> HoldsFirst(t, n)')
    BY <1>2
  <2> QED BY <1>1, <1>2 DEF RestoreInv, FromNothing, HoldsFirst, PathOf
<1>3. /\ result = "none" <=> pc # "done"
      /\ result = "Ok" => index = archive.count
      /\ result # "Io" => HoldsFirst(tree, index)
  BY DEF RestoreInv, ExtractInv, EInv, ExtractTypeOK
<1>4. CASE MakeDir \/ MakeFile
  <2>1. result' = "none" /\ index' = index + 1
    BY <1>3, <1>4 DEF MakeDir, MakeFile, NextEntry
  <2> QED BY <1>4, <2>1, DirRestored, FileRestored
<1>5. CASE MakeParent
  <2>1. result' = "none" /\ index' = index
    BY <1>3, <1>5 DEF MakeParent, Going
  <2> QED BY <1>5, <2>1, ParentRestored
<1>6. CASE LoopEnds
  BY <1>3, <1>6 DEF LoopEnds, Ending
<1>7. CASE CountRefused \/ HeadRefused \/ BlockMissing \/ UnpackFails \/ MakeRefused
  BY <1>3, <1>7 DEF CountRefused, HeadRefused, HeadError, InLoop, BlockMissing, UnpackFails,
                    MakeRefused, CannotMake, Ending
<1>8. CASE CountRead \/ HeadAccepted \/ ReadBlock \/ ContentRead \/ Unpack
  BY <1>3, <1>8 DEF CountRead, HeadAccepted, InLoop, ReadBlock, ContentRead, Unpack, Going
<1>9. CASE IoFails
  BY <1>9 DEF IoFails
<1>10. CASE UNCHANGED extractVars
  BY <1>3, <1>10 DEF extractVars
<1> QED BY <1>4, <1>5, <1>6, <1>7, <1>8, <1>9, <1>10 DEF ExtractNext, ExtractProceeds

-----------------------------------------------------------------------------
(* Both ends together.                                                     *)

\* Extraction has not begun: there is no archive yet.
Waiting ==
    /\ pc = "waiting" /\ result = "none"
    /\ archive.count = NoCount /\ archive.entries = <<>>
    /\ before = Empty /\ tree = Empty
    /\ index = 0 /\ total = 0 /\ held = 0 /\ reserved = 0

EndsInv == PathsInv /\ (Waiting \/ ExtractInv)

LEMMA EmptyIsGood == GoodTree(Empty)
<1>1. DOMAIN Empty = {<<>>} /\ Empty[<<>>] \in Nodes /\ <<>> \in Seq(Names)
  BY NewNodes DEF Empty
<1> QED BY <1>1 DEF GoodTree

LEMMA WaitingMeans ==
    ASSUME Waiting
    PROVE  HostileIsContained /\ BudgetKept /\ AnswerIsExact
<1> USE DEF Waiting
<1>1. StaysInside
  BY EmptyIsGood DEF StaysInside, GoodTree
<1>2. ModesAreSafe /\ MemoryFollowsInput
  BY DEF ModesAreSafe, MemoryFollowsInput
<1>3. BudgetKept
  <2>1. SoundArchive(archive)
    BY DEF SoundArchive
  <2>2. SumTo[0] = 0
    BY <2>1, SumFacts
  <2>3. Extracted = {}
    BY DEF Extracted, Empty, Dir
  <2> QED BY <2>2, <2>3, LimitAssumption DEF BudgetKept
<1>4. AnswerIsExact
  BY DEF AnswerIsExact, AnswerIsDeserved, OkMeansAll
<1> QED BY <1>1, <1>2, <1>3, <1>4 DEF HostileIsContained

\* What is handed over is an archive that extraction may begin with.
LEMMA HandOverBegins ==
    ASSUME PathsInv, Waiting, HandOver
    PROVE  ExtractBegins'
<1>1. BuildInv /\ StageInv
  BY DEF HandOver, PathsInv
<1>2. output.entries = written /\ written \in Seq(EntryRecords)
  BY <1>1 DEF HandOver, StageInv, Sealed, BuildInv, BuildTypes
<1>3. SoundArchive(archive)'
  <2>1. archive'.entries = written /\ archive'.count = Len(written)
    BY <1>2 DEF HandOver
  <2>2. \A k \in DOMAIN written : written[k].type = 0 => written[k].content \in Contents
    BY <1>1 DEF BuildInv, WrittenInv
  <2> QED BY <1>2, <2>1, <2>2 DEF SoundArchive
<1>4. before' = Empty /\ GoodTree(before')
  BY EmptyIsGood DEF HandOver, Waiting
<1> QED BY <1>3, <1>4 DEF HandOver, Waiting, ExtractBegins, GoodTree

LEMMA EndsInit == RoundTripInit => EndsInv
<1>1. CASE HomeMade
  <2>1. Waiting
    BY <1>1 DEF HomeMade, Waiting
  <2>2. BuildInv
    BY <1>1, StartsRight DEF HomeMade, PathsInit
  <2>3. StageInv
    BY <1>1 DEF HomeMade, PathsInit, StageInv, Over, ClearArchiveIsGone
  <2> QED BY <2>1, <2>2, <2>3 DEF EndsInv, PathsInv
<1>2. CASE FromElsewhere
  <2>1. ExtractInv
    BY <1>2, InitBegins, BeginsRight DEF FromElsewhere
  <2>2. PathsInv
    BY <1>2 DEF FromElsewhere, BuildStart, PathsInv
  <2> QED BY <2>1, <2>2 DEF EndsInv
<1> QED BY <1>1, <1>2 DEF RoundTripInit

LEMMA EndsKept ==
    ASSUME EndsInv, [RoundTripNext]_allVars,
           ExtractBegins' => ExtractInv'
    PROVE  EndsInv'
<1>1. CASE Encrypting(PathsNext) \/ UNCHANGED allVars
  <2>1. [PathsNext]_pathsVars /\ UNCHANGED extractVars
    BY <1>1 DEF Encrypting, allVars
  <2>2. PathsInv'
    BY <2>1, PathsInvKept DEF EndsInv
  <2>3. CASE Waiting
    BY <2>1, <2>2, <2>3 DEF EndsInv, Waiting, extractVars
  <2>4. CASE ExtractInv
    BY <2>1, <2>2, <2>4, ExtractInvKept DEF EndsInv
  <2> QED BY <2>3, <2>4 DEF EndsInv
<1>2. CASE HandOver
  <2>1. [PathsNext]_pathsVars
    BY <1>2 DEF HandOver
  <2>2. PathsInv'
    BY <2>1, PathsInvKept DEF EndsInv
  <2>3. Waiting
    <3>1. ~ExtractInv
      BY <1>2 DEF HandOver, ExtractInv, EInv, ExtractTypeOK
    <3> QED BY <3>1 DEF EndsInv
  <2>4. ExtractInv'
    BY <1>2, <2>3, HandOverBegins DEF EndsInv
  <2> QED BY <2>2, <2>4 DEF EndsInv
<1>3. CASE Extracting(ExtractNext)
  <2>1. UNCHANGED pathsVars /\ ExtractInv /\ ExtractNext
    BY <1>3 DEF Extracting, EndsInv, Waiting
  <2>2. PathsInv'
    BY <2>1, PathsInvKept DEF EndsInv
  <2> QED BY <2>1, <2>2, ExtractInvKept DEF EndsInv
<1> QED BY <1>1, <1>2, <1>3 DEF RoundTripNext

LEMMA EndsInvHolds == RoundTripSpec => []EndsInv
<1>1. (ExtractBegins => ExtractInv)'
  BY BeginsRight, PTL
<1>2. EndsInv /\ [RoundTripNext]_allVars => EndsInv'
  BY <1>1, EndsKept
<1> QED BY <1>2, EndsInit, PTL DEF RoundTripSpec

-----------------------------------------------------------------------------
(* There and back: what is extracted of an archive that was made here.     *)

\* What is extracted is what was archived, unless it comes from elsewhere.
LinkInv ==
    stage # "elsewhere" =>
        \/ pc = "waiting"
        \/ /\ stage = "done" /\ reply = "Ok" /\ before = Empty
           /\ archive = [count |-> Len(written), entries |-> written]

RestoredInv == EndsInv /\ LinkInv /\ RestoreInv

LEMMA BeginsEmpty == ExtractBegins => RestoreInv
<1> SUFFICES ASSUME ExtractBegins, FromNothing PROVE HoldsFirst(tree, index)
  BY DEF ExtractBegins, RestoreInv
<1>1. index = 0 /\ tree = Empty
  BY DEF ExtractBegins, FromNothing
<1>2. \A k \in 1..0 : FALSE
  OBVIOUS
<1>3. DOMAIN Empty = {<<>>} /\ Empty[<<>>] = Dir(NewDirMode)
  BY DEF Empty
<1>4. Above(<<>>) = {}
  BY EmptySeq, \A n \in 0..(0 - 1) : FALSE DEF Above
<1> QED BY <1>1, <1>2, <1>3, <1>4 DEF HoldsFirst, Searchable

LEMMA WaitingHasNothing == Waiting => RestoreInv
  BY LimitAssumption DEF Waiting, RestoreInv, FromNothing

LEMMA RestoredInit == RoundTripInit => RestoredInv
<1>1. CASE HomeMade
  BY <1>1, EndsInit, WaitingHasNothing
     DEF RoundTripInit, RestoredInv, LinkInv, HomeMade, Waiting
<1>2. CASE FromElsewhere
  BY <1>2, EndsInit, InitBegins, BeginsEmpty
     DEF RoundTripInit, RestoredInv, LinkInv, FromElsewhere
<1> QED BY <1>1, <1>2 DEF RoundTripInit

LEMMA RestoredKept ==
    ASSUME RestoredInv, [RoundTripNext]_allVars, EndsInv',
           ExtractBegins' => RestoreInv', Waiting' => RestoreInv'
    PROVE  RestoredInv'
<1>1. CASE HandOver
  <2>1. PathsInv /\ Waiting
    <3>1. ~ExtractInv
      BY <1>1 DEF HandOver, ExtractInv, EInv, ExtractTypeOK
    <3> QED BY <3>1 DEF RestoredInv, EndsInv
  <2>2. RestoreInv'
    BY <1>1, <2>1, HandOverBegins
  <2>3. StageInv
    BY <1>1, <2>1 DEF HandOver, PathsInv
  <2>4. output.entries = written
    BY <1>1, <2>3 DEF HandOver, StageInv, Sealed
  <2>5. LinkInv'
    BY <1>1, <2>1, <2>4 DEF HandOver, Waiting, LinkInv, pathsVars, buildVars
  <2> QED BY <2>2, <2>5 DEF RestoredInv
<1>2. CASE Extracting(ExtractNext)
  <2>1. UNCHANGED pathsVars /\ ExtractInv /\ ExtractNext /\ pc # "waiting"
    BY <1>2 DEF Extracting, RestoredInv, EndsInv, Waiting
  <2>2. UNCHANGED <<archive, before>>
    BY <2>1, ArchiveStays
  <2>3. RestoreInv'
    BY <2>1, RestoreKept DEF RestoredInv
  <2>4. LinkInv'
    BY <2>1, <2>2 DEF RestoredInv, LinkInv, pathsVars, buildVars
  <2> QED BY <2>3, <2>4 DEF RestoredInv
<1>3. CASE Encrypting(PathsNext)
  <2>1. UNCHANGED extractVars /\ stage \notin {"elsewhere", "done"}
    BY <1>3 DEF Encrypting, PathsNext, PathsProceed, CreateTmp, Build, BuildReturned, Encrypt,
                Drop, Kill
  <2>2. Waiting
    <3>1. ~ExtractInv
      BY <2>1 DEF RestoredInv, LinkInv, ExtractInv, EInv, ExtractTypeOK
    <3> QED BY <3>1 DEF RestoredInv, EndsInv
  <2>3. Waiting'
    BY <2>1, <2>2 DEF Waiting, extractVars
  <2> QED BY <2>3 DEF RestoredInv, LinkInv, Waiting
<1>4. CASE UNCHANGED allVars
  <2>1. UNCHANGED pathsVars /\ UNCHANGED extractVars
    BY <1>4 DEF allVars
  <2>2. LinkInv'
    BY <2>1 DEF RestoredInv, LinkInv, pathsVars, buildVars, extractVars
  <2>3. CASE Waiting
    <3>1. Waiting'
      BY <2>1, <2>3 DEF Waiting, extractVars
    <3> QED BY <2>2, <3>1 DEF RestoredInv
  <2>4. CASE ExtractInv
    BY <2>1, <2>2, <2>4, RestoreKept DEF RestoredInv
  <2> QED BY <2>3, <2>4 DEF RestoredInv, EndsInv
<1> QED BY <1>1, <1>2, <1>3, <1>4 DEF RoundTripNext

LEMMA RestoredInvHolds == RoundTripSpec => []RestoredInv
<1>1. (ExtractBegins => RestoreInv)' /\ (Waiting => RestoreInv)'
  BY BeginsEmpty, WaitingHasNothing, PTL
<1>2. RestoredInv /\ [RoundTripNext]_allVars /\ EndsInv' => RestoredInv'
  BY <1>1, RestoredKept
<1> QED BY <1>2, RestoredInit, EndsInvHolds, PTL DEF RoundTripSpec

\* Such an archive has no defect; it may only be too large.
LEMMA OrderlyVerdict ==
    ASSUME SoundArchive(archive), FromNothing
    PROVE  Verdict \in {"Ok", "LimitExceeded"}
<1>1. /\ archive.count = Len(archive.entries) /\ archive.entries \in Seq(EntryRecords)
      /\ archive.count \in Nat /\ archive.count # NoCount
  BY LimitAssumption DEF SoundArchive, FromNothing
<1>2. ASSUME NEW k \in EntriesUsed PROVE EntryError(k) \in {"none", "LimitExceeded"}
  <2>1. k \in DOMAIN archive.entries /\ ~(k > Len(archive.entries))
    BY <1>1, <1>2 DEF EntriesUsed
  <2>2. PICK e \in EntryRecords : e = archive.entries[k]
    BY <1>1, <2>1
  <2>3. SoundEntry(e)
    BY <2>1, <2>2 DEF FromNothing, Orderly
  <2>4. SafePath(e.path)
    BY <2>3 DEF SoundEntry, SafePath, NonRoot
  <2>5. HeadError(e) \in {"none", "LimitExceeded"}
    BY <2>3, <2>4 DEF SoundEntry, HeadError
  <2>6. ~(e.blocks < e.size) /\ (e.type # 1 => e.content \notin Garbage)
    BY <2>2, <2>3 DEF SoundEntry, EntryRecords
  <2> QED BY <2>1, <2>2, <2>5, <2>6 DEF EntryError
<1> DEFINE bad == {k \in EntriesUsed : EntryError(k) # "none"}
<1>3. bad \subseteq Nat /\ \A k \in bad : EntryError(k) = "LimitExceeded"
  BY <1>1, <1>2 DEF EntriesUsed
<1> HIDE DEF bad
<1>4. bad # {} => EntryError(Min(bad)) = "LimitExceeded"
  <2> SUFFICES ASSUME bad # {} PROVE EntryError(Min(bad)) = "LimitExceeded"
    OBVIOUS
  <2>1. PICK m \in bad : \A k \in bad : m <= k
    BY <1>3, LeastElement
  <2> QED BY <1>3, <2>1, MinIs
<1> QED BY <1>1, <1>4 DEF Verdict, bad

LEMMA OriginalsAreBack ==
    ASSUME archive = [count |-> Len(written), entries |-> written],
           written \in Seq(EntryRecords), HoldsOriginals(written),
           HoldsFirst(tree, Len(written))
    PROVE  /\ DOMAIN tree = {<<>>} \cup {o.path : o \in Originals}
           /\ \A o \in Originals :
                 LET made == tree[o.path]
                     dir == o.node.kind = "dir"
                 IN  /\ made.kind = o.node.kind /\ made.content = o.node.content
                     /\ made.mode \in {SanitizeMode(o.node.mode, dir),
                                       IF dir THEN NewDirMode ELSE NewFileMode}
<1>1. /\ DOMAIN written = 1..Len(written)
      /\ \A k \in DOMAIN written : PathOf(k) = written[k].path /\ archive.entries[k] = written[k]
  BY DEF PathOf
<1>2. {PathOf(k) : k \in 1..Len(written)} = {o.path : o \in Originals}
  <2>1. ASSUME NEW k \in DOMAIN written PROVE PathOf(k) \in {o.path : o \in Originals}
    <3>1. PICK o \in Originals : IsEntryOf(written[k], o)
      BY <2>1 DEF HoldsOriginals
    <3> QED BY <1>1, <3>1 DEF IsEntryOf
  <2>2. ASSUME NEW o \in Originals PROVE o.path \in {PathOf(k) : k \in DOMAIN written}
    <3>1. PICK k \in DOMAIN written : IsEntryOf(written[k], o)
      BY <2>2 DEF HoldsOriginals
    <3> QED BY <1>1, <3>1 DEF IsEntryOf
  <2> QED BY <1>1, <2>1, <2>2
<1>3. ASSUME NEW o \in Originals
      PROVE  /\ tree[o.path].kind = o.node.kind /\ tree[o.path].content = o.node.content
             /\ tree[o.path].mode \in {SanitizeMode(o.node.mode, o.node.kind = "dir"),
                                       IF o.node.kind = "dir" THEN NewDirMode ELSE NewFileMode}
  <2>1. PICK k \in DOMAIN written : IsEntryOf(written[k], o)
    BY <1>3 DEF HoldsOriginals
  <2>2. IsMade(tree[o.path], written[k])
    BY <1>1, <2>1 DEF HoldsFirst, IsEntryOf
  <2>3. CASE o.node.kind = "dir"
    <3>1. written[k].type = 1 /\ (written[k].type = 1) = TRUE /\ (o.node.kind = "dir") = TRUE
      BY <2>1, <2>3 DEF IsEntryOf
    <3> QED BY <2>1, <2>2, <2>3, <3>1 DEF IsEntryOf, IsMade, ModesFor
  <2>4. CASE o.node.kind = "file"
    <3>1. written[k].type = 0 /\ (written[k].type = 1) = FALSE /\ (o.node.kind = "dir") = FALSE
      BY <2>1, <2>4 DEF IsEntryOf
    <3> QED BY <2>1, <2>2, <2>4, <3>1 DEF IsEntryOf, IsMade, ModesFor
  <2> QED BY <2>1, <2>3, <2>4 DEF IsEntryOf
<1> QED BY <1>2, <1>3 DEF HoldsFirst

LEMMA RestoredMeans ==
    ASSUME RestoredInv
    PROVE  OriginalsRestored
<1> SUFFICES ASSUME Restorable
             PROVE  /\ ~CannotMake
                    /\ result \in {"none", "Ok", "Io", "LimitExceeded"}
                    /\ result = "Ok" =>
                          /\ archive = [count |-> Len(written), entries |-> written]
                          /\ written \in Seq(EntryRecords) /\ HoldsOriginals(written)
                          /\ HoldsFirst(tree, Len(written))
  BY OriginalsAreBack DEF OriginalsRestored
<1>1. stage # "elsewhere"
  BY DEF Restorable
<1>2. CASE Waiting
  BY <1>2 DEF Waiting, CannotMake
<1>3. CASE ExtractInv
  <2>1. /\ stage = "done" /\ reply = "Ok" /\ before = Empty
        /\ archive = [count |-> Len(written), entries |-> written]
    BY <1>1, <1>3 DEF RestoredInv, LinkInv, ExtractInv, EInv, ExtractTypeOK
  <2>2. BuildInv /\ built = "Ok"
    BY <1>1, <2>1 DEF RestoredInv, EndsInv, PathsInv, StageInv
  <2>3. HoldsOriginals(written) /\ Orderly(written)
    BY <2>2, OriginalsAreArchived, ArchiveIsOrderly DEF Restorable, Calm
  <2>4. FromNothing /\ archive.count = Len(written) /\ written \in Seq(EntryRecords)
    BY <2>1, <2>2, <2>3 DEF FromNothing, BuildInv, BuildTypes
  <2>5. ~CannotMake
    BY <1>3, <2>4, NeverRefused DEF RestoredInv
  <2>6. SoundArchive(archive)
    BY <1>3 DEF ExtractInv, EInv, PlaceInv
  <2>7. Verdict \in {"Ok", "LimitExceeded"}
    BY <2>4, <2>6, OrderlyVerdict
  <2>8. result \in {"none", "Io", Verdict}
    BY <1>3 DEF ExtractInv, VerdictInv, AnswerIsDeserved
  <2>9. result = "Ok" => HoldsFirst(tree, Len(written))
    BY <2>4 DEF RestoredInv, RestoreInv
  <2> QED BY <2>1, <2>3, <2>4, <2>5, <2>7, <2>8, <2>9
<1> QED BY <1>2, <1>3 DEF RestoredInv, EndsInv

-----------------------------------------------------------------------------
(* What holds of every archive, made here or not.                          *)

\* build_archive: whatever others do while the selection is walked, an archive
\* that was declared complete has every file that they left alone, with its
\* content, and lists a directory before what is in it.
THEOREM WalkIsAlwaysKept == RoundTripSpec => []WalkIsKept
  BY EndsInvHolds, PathsInvMeans, PTL DEF EndsInv

\* encrypt_paths: Ok is answered exactly if the output holds the entries of the
\* whole list that the walk has made.
THEOREM OutputIsAlwaysWhole == RoundTripSpec => []OutputIsWhole
  BY EndsInvHolds, PathsInvMeans, PTL DEF EndsInv

\* encrypt_paths: when it returns, the archive in clear is gone, unless the
\* system has refused to remove it.
THEOREM ClearArchiveIsAlwaysGone == RoundTripSpec => []ClearArchiveIsGone
  BY EndsInvHolds, PathsInvMeans, PTL DEF EndsInv

\* What extraction promises of any archive it promises of those made here.
THEOREM BothEndsAreSafe ==
    RoundTripSpec => [](HostileIsContained /\ BudgetKept /\ AnswerIsExact)
<1>1. EndsInv => HostileIsContained /\ BudgetKept /\ AnswerIsExact
  BY WaitingMeans, ExtractInvMeans DEF EndsInv
<1> QED BY <1>1, EndsInvHolds, PTL

\* pipeline.rs: while nobody changes the tree, an archive that was sealed holds
\* each of the selected files and directories, and nothing but these, with
\* content and mode.
THEOREM OutputHoldsTheOriginals ==
    RoundTripSpec => [](output # Before /\ Calm => HoldsOriginals(output.entries))
<1>1. EndsInv => (output # Before /\ Calm => HoldsOriginals(output.entries))
  <2> SUFFICES ASSUME EndsInv, output # Before, Calm PROVE HoldsOriginals(output.entries)
    OBVIOUS
  <2>1. BuildInv /\ StageInv
    BY DEF EndsInv, PathsInv
  <2>2. built = "Ok" /\ output.entries = written
    BY <2>1 DEF StageInv, Sealed
  <2> QED BY <2>1, <2>2, OriginalsAreArchived
<1> QED BY <1>1, EndsInvHolds, PTL

\* pipeline.rs:55: the output is the selection.  While nobody changes the tree, it
\* has one entry for each file and directory on the walk of each selected path, in
\* the announced order, with path, content and mode; and there is a warning for
\* each thing left out, and for nothing else.
THEOREM OutputIsAlwaysTheSelection == RoundTripSpec => []OutputIsTheSelection
<1>1. EndsInv => OutputIsTheSelection
  <2> SUFFICES ASSUME EndsInv PROVE OutputIsTheSelection
    OBVIOUS
  <2>1. OutputIsWhole /\ (output # Before => BuildInv /\ StageInv)
    <3>1. PathsInv
      BY DEF EndsInv
    <3> QED BY <3>1, PathsInvMeans DEF PathsInv
  <2>2. ASSUME output # Before, changes = 0, OutputIsElsewhere
        PROVE  /\ IsArchiveOf(output.entries, source.tree, source.selection)
               /\ Warned = UNION {IgnoredBelow(source.tree, source.selection[k]) :
                                    k \in DOMAIN source.selection}
    <3>1. built = "Ok" /\ output.entries = written
      BY <2>1, <2>2 DEF StageInv, Sealed
    <3> QED BY <2>1, <2>2, <3>1, SelectionIsArchived DEF Calm
  <2> QED BY <2>1, <2>2 DEF OutputIsTheSelection
<1> QED BY <1>1, EndsInvHolds, PTL

\* What encrypt_paths has sealed, extract_archive restores in an empty directory:
\* all the originals and nothing else, never refused because of what it has
\* made before.
THEOREM OriginalsAreAlwaysRestored == RoundTripSpec => []OriginalsRestored
  BY RestoredMeans, RestoredInvHolds, PTL

\* encrypt_paths replaces its output as AtomicReplace promises.
THEOREM PathsReplaceAtomically == RoundTripSpec => ReplacesAtomically
<1>1. RoundTripInit => Output!Init
  BY DEF RoundTripInit, HomeMade, PathsInit, FromElsewhere, Output!Init, PathsAnswer
<1>2. EndsInv /\ [RoundTripNext]_allVars => [Output!Next]_(Output!replaceVars)
  <2> SUFFICES ASSUME EndsInv, [RoundTripNext]_allVars
               PROVE  [Output!Next]_(Output!replaceVars)
    OBVIOUS
  <2>1. CASE UNCHANGED pathsVars
    BY <2>1 DEF pathsVars, buildVars, PathsAnswer, Output!replaceVars
  <2>2. CASE PathsNext
    <3>1. StageInv
      BY <2>2 DEF EndsInv, PathsInv, PathsNext, PathsProceed, CreateTmp, Build, BuildReturned,
                  Encrypt, Drop, Kill
    <3>2. CASE CreateTmp \/ BuildReturned
      <4>1. output = Before /\ output' = output
        BY <3>1, <3>2 DEF StageInv, Over, CreateTmp, BuildReturned
      <4>2. PathsAnswer = "pending" /\ PathsAnswer' = "pending"
        BY <3>2 DEF CreateTmp, BuildReturned, Returning, PathsAnswer
      <4> QED BY <4>1, <4>2 DEF Output!Progress, Output!Next
    <3>3. CASE Build(BuildProceeds) \/ Build(WriterFails) \/ Build(OthersChange)
      <4>1. output = Before /\ output' = output
        BY <3>1, <3>3 DEF StageInv, Over, Build
      <4>2. PathsAnswer = "pending" /\ PathsAnswer' = "pending"
        BY <3>3 DEF Build, PathsAnswer
      <4> QED BY <4>1, <4>2 DEF Output!Progress, Output!Next
    <3>4. CASE Encrypt
      <4>1. output = Before /\ written' = written
        BY <3>1, <3>4 DEF StageInv, Over, Encrypt, buildVars
      <4>2. PathsAnswer = "pending" /\ PathsAnswer' = "pending"
        BY <3>4 DEF Encrypt, Returning, PathsAnswer
      <4>3. output' = output \/ (output' = Sealed(written) /\ output' # Before)
        BY <3>4, SealedIsNew DEF Encrypt
      <4> QED BY <4>1, <4>2, <4>3
              DEF Output!Progress, Output!Replace, Output!Next, IsSealed
    <3>5. CASE Drop
      <4>1. written' = written /\ output' = output /\ reply' = reply
        BY <3>5 DEF Drop
      <4>2. PathsAnswer = "pending"
        BY <3>5 DEF Drop, PathsAnswer
      <4>3. PathsAnswer' = IF reply = "Ok" THEN "Ok" ELSE "failed"
        BY <3>5, <4>1 DEF Drop, PathsAnswer
      <4>4. reply = "Ok" <=> output # Before
        BY <3>1 DEF StageInv
      <4> QED BY <4>1, <4>2, <4>3, <4>4 DEF Output!Succeed, Output!Fail, Output!Next
    <3>6. CASE Kill
      <4>1. written' = written /\ output' = output
        BY <3>6 DEF Kill, buildVars
      <4>2. PathsAnswer = "pending" /\ PathsAnswer' = "never"
        BY <3>6 DEF Kill, PathsAnswer
      <4> QED BY <4>1, <4>2 DEF Output!Stop, Output!Next
    <3> QED BY <2>2, <3>2, <3>3, <3>4, <3>5, <3>6 DEF PathsNext, PathsProceed
  <2> QED BY <2>1, <2>2 DEF RoundTripNext, Encrypting, HandOver, Extracting, allVars
<1> QED BY <1>1, <1>2, EndsInvHolds, PTL DEF RoundTripSpec, ReplacesAtomically, Output!Spec
=============================================================================
