------------------------- MODULE MCArchiveRoundTrip -------------------------
(***************************************************************************)
(* Selections of a tree with two levels of directories, a link, a name     *)
(* that is not UTF-8 and the directory of the output, which others change  *)
(* once; selections that come back and selections that do not; and         *)
(* archives from elsewhere: sound, at a limit or one past it, cut short in *)
(* each field, or with an entry that nobody here would write.              *)
(***************************************************************************)
EXTENDS ArchiveRoundTrip, TLC

CONSTANTS a, b, c, broken, cut, up, slash

MCNames == {1, 2, 3, 4, 9}
MCContents == {a, b, c, broken, cut}
MCRawLen == a :> 0 @@ b :> 2 @@ c :> 3 @@ broken :> 3 @@ cut :> 1
MCStoredLen == a :> 0 @@ b :> 2 @@ c :> 3 @@ broken :> 1 @@ cut :> 1

AnyMode == {"r", "w", "x", "special", "other_write"}
Link == [kind |-> "link", content |-> c, mode |-> NewFileMode]
Fifo == [kind |-> "fifo", content |-> NoContent, mode |-> NewFileMode]
Root == <<>> :> Dir(NewDirMode)

Tree ==
    Root @@ <<1>> :> Dir(AnyMode) @@ <<1, 1>> :> File(b, {"r", "w", "x"})
    @@ <<1, 2>> :> Dir(NewDirMode) @@ <<1, 2, 1>> :> File(a, {"r", "other_write"})
    @@ <<1, 3>> :> Link @@ <<1, 9>> :> File(a, NewFileMode)
    @@ <<2>> :> File(c, NewFileMode)
    @@ <<3>> :> Dir(NewDirMode) @@ <<3, 1>> :> File(b, NewFileMode)

\* The root itself is never selected.  The second selection meets the limit on
\* the extracted size, the third exceeds it, the fourth holds the output, the
\* fifth has one name twice, the seventh one path twice.
MCSources ==
    {[tree |-> Tree, selection |-> s] :
        s \in {<<<<1>>>>, <<<<2>>, <<1>>>>, <<<<1>>, <<2>>, <<3, 1>>>>, <<<<3>>>>,
               <<<<1, 1>>, <<3, 1>>>>, <<<<1, 2>>, <<4>>>>, <<<<1, 2>>, <<1>>, <<1, 2>>>>, <<>>}}
    \cup {[tree |-> Root @@ <<1>> :> Dir({"r", "x"}) @@ <<1, 1>> :> File(a, {"r"}),
           selection |-> <<<<1>>>>],
          [tree |-> Root @@ <<1>> :> Dir(NewDirMode) @@ <<1, 1>> :> Dir(NewDirMode)
                    @@ <<1, 1, 1>> :> Dir(NewDirMode) @@ <<1, 1, 1, 1>> :> File(a, {"r"}),
           selection |-> <<<<1>>>>]}

MCChanges ==
    [path : {<<1>>, <<1, 1>>, <<1, 2>>, <<1, 2, 1>>},
     node : {Absent, File(a, {}), Link, Fifo, Dir({"r"}), [Link EXCEPT !.content = NoContent]}]

OutputDir == <<3>>

FileEntry(path, content) ==
    [path |-> path, utf8 |-> TRUE, type |-> 0, perms |-> AnyMode, fields |-> 4,
     size |-> StoredLen[content], blocks |-> StoredLen[content], content |-> content]
DirEntry(path, mode) ==
    [path |-> path, utf8 |-> TRUE, type |-> 1, perms |-> mode, fields |-> 4,
     size |-> 0, blocks |-> 0, content |-> NoContent]

Good ==
    {DirEntry(<<1>>, AnyMode), DirEntry(<<1>>, {"r"}), DirEntry(<<1, 2>>, AnyMode)}
    \cup {FileEntry(p, x) : p \in {<<1>>, <<1, 1>>, <<2>>}, x \in {a, b, c}}

Odd ==
    {[FileEntry(<<2>>, b) EXCEPT !.fields = n] : n \in 0..3}
    \cup {[FileEntry(<<2>>, b) EXCEPT !.blocks = 1], [FileEntry(<<2>>, b) EXCEPT !.size = 4],
          [FileEntry(<<2>>, b) EXCEPT !.size = 5], [FileEntry(<<2>>, b) EXCEPT !.utf8 = FALSE],
          [FileEntry(<<2>>, b) EXCEPT !.type = 2], [FileEntry(<<>>, b) EXCEPT !.blocks = 0],
          FileEntry(<<up, 1>>, b), FileEntry(<<slash, 1>>, a), FileEntry(<<1, up, 2>>, a),
          FileEntry(<<2>>, broken), [DirEntry(<<2>>, AnyMode) EXCEPT !.fields = 2]}

Lists ==
    {<<>>} \cup {<<e>> : e \in Good \cup Odd} \cup {<<e, f>> : e \in Good, f \in Good \cup Odd}
    \cup {<<FileEntry(<<2>>, b), e, f>> : e \in Good, f \in {FileEntry(<<1, 1>>, x) : x \in {a, b, c}}}

MCArchives ==
    {[count |-> Len(l), entries |-> l] : l \in Lists}
    \cup {[count |-> n, entries |-> <<FileEntry(<<2>>, b)>>] : n \in {NoCount, 0, 2, 6, 7}}

MCTrees ==
    {Root, Root @@ <<2>> :> File(c, NewFileMode) @@ <<1>> :> File(b, {"r", "special"})}
=============================================================================
