------------------------- MODULE DecryptToDirProofs -------------------------
(***************************************************************************)
(* What decrypt_to_dir guarantees of the destination, for every archive,   *)
(* every number of items and however often others use the destination:     *)
(* what it may hold, what is never lost, what the answer says, and that    *)
(* it is published as PublishDirectory promises.                           *)
(***************************************************************************)
EXTENDS DecryptToDir, TLAPS

-----------------------------------------------------------------------------
(* The inductive invariant.                                                *)

BeforeEnd == {"create", "decrypt", "make dir", "extract", "exists"}
Extracted == {"exists", "rename", "list", "merge"}
Running == BeforeEnd \cup Extracted
Ending == {"drop dir", "drop archive", "done"}

\* Only a directory has entries, and none of them is a part of an item; a
\* whole one has been moved there.
DestinationInv ==
    /\ destKind # "dir" => at = Nowhere
    /\ \A i \in Items : at[i] # "part" /\ (at[i] = "whole" => i \in moved)

\* What is in the temporary directory is of this archive; from the end of the
\* extraction on it is whole, until it is moved.
ExtractedInv ==
    /\ \A i \in Items \ items : tmpDir[i] = "nothing"
    /\ pc \in Extracted \ {"merge"} => \A i \in items : tmpDir[i] = "whole"
    /\ pc = "merge" => \A i \in todo : tmpDir[i] = "whole"

\* What has been moved, and what the answer says of it.
MovedInv ==
    /\ pc \in Running => answer = "none"
    /\ pc \in Running \ {"merge"} => moved = {}
    /\ pc = "merge" => moved = items \ todo
    /\ pc \in Ending =>
          /\ answer = "Ok" => moved = items
          /\ answer = "Format" => moved = {}
          /\ answer = "Archive" /\ moved # {} => todo = items \ moved

\* Which temporaries there can be.
TemporaryInv ==
    /\ pc = "create" => temps = {}
    /\ pc \in {"make dir", "extract"} \cup Extracted => "inner" \notin temps
    /\ pc = "drop dir" => temps \subseteq {"archive", "dir"} \cup undeleted
    /\ pc = "drop archive" => temps \subseteq {"archive"} \cup undeleted
    /\ pc = "done" => temps \subseteq undeleted

IInv == TypeOK /\ DestinationInv /\ ExtractedInv /\ MovedInv /\ TemporaryInv

LEMMA InitInv == Init => IInv
<1> SUFFICES ASSUME Init PROVE IInv
  OBVIOUS
<1>1. TypeOK
  <2>1. at \in [Items -> Holdings]
    BY DEF Init, Holdings
  <2>2. tmpDir \in [Items -> {"nothing", "part", "whole"}]
    BY DEF Init, Nowhere
  <2>3. meddling \in 0..MaxMeddling
    BY ItemAssumption DEF Init
  <2> QED BY <2>1, <2>2, <2>3 DEF Init, TypeOK
<1>2. DestinationInv
  BY DEF Init, DestinationInv, Theirs
<1>3. ExtractedInv
  BY DEF Init, ExtractedInv, Extracted, Nowhere
<1>4. MovedInv
  BY DEF Init, MovedInv, Running, BeforeEnd, Extracted, Ending
<1>5. TemporaryInv
  BY DEF Init, TemporaryInv, Extracted
<1> QED BY <1>1, <1>2, <1>3, <1>4, <1>5 DEF IInv

-----------------------------------------------------------------------------
(* Every step keeps it.                                                     *)

LEMMA TypeKept ==
    ASSUME IInv, [Next]_vars
    PROVE  TypeOK'
<1> USE DEF IInv, TypeOK, vars, destVars
<1>1. CASE CreateArchive \/ DecryptBegins
  BY <1>1 DEF CreateArchive, DecryptBegins, Failing
<1>2. CASE DecryptEnds
  BY <1>2 DEF DecryptEnds, Failing
<1>3. CASE DecryptFails \/ MakeDir
  BY <1>3 DEF DecryptFails, MakeDir, Failing
<1>4. CASE \E i \in items : ExtractPart(i)
  BY <1>4 DEF ExtractPart
<1>5. CASE ExtractEnds \/ ExtractFails
  BY <1>5 DEF ExtractEnds, ExtractFails, Failing
<1>6. CASE LookForDestination \/ List
  BY <1>6 DEF LookForDestination, List, Failing
<1>7. CASE RenameAll
  BY <1>7 DEF RenameAll, Renamed, CanRenameAll, Failing, Nowhere, Holdings, Theirs
<1>8. CASE \E i \in items : Merge(i)
  BY <1>8 DEF Merge, CanMove, Failing, Nowhere, Holdings, Theirs
<1>9. CASE MergeEnds
  BY <1>9 DEF MergeEnds
<1>10. CASE DropDir \/ DropArchive
  BY <1>10 DEF DropDir, DropArchive, Dropped, Nowhere, Holdings, Theirs
<1>11. CASE Meddle
  <2>1. meddling' \in 0..MaxMeddling
    <3>1. meddling \in 0..MaxMeddling /\ meddling < MaxMeddling /\ meddling' = meddling + 1
      BY <1>11 DEF Meddle
    <3>2. MaxMeddling \in Nat
      BY ItemAssumption
    <3> HIDE DEF IInv, TypeOK
    <3> QED BY <3>1, <3>2
  <2>2. CASE at' = Nowhere
    <3>1. at' \in [Items -> Holdings]
      BY <2>2 DEF Nowhere, Holdings
    <3>2. destKind' \in {"absent", "dir", "file", "dangling"}
      BY <1>11 DEF Meddle
    <3> QED BY <1>11, <2>1, <3>1, <3>2 DEF Meddle
  <2>3. ASSUME NEW i \in Items, NEW what \in {"nothing"} \cup Theirs,
               at' = [at EXCEPT ![i] = what], UNCHANGED destKind
        PROVE  TypeOK'
    <3>1. what \in Holdings
      BY DEF Holdings
    <3>2. at' \in [Items -> Holdings]
      BY <2>3, <3>1
    <3> QED BY <1>11, <2>1, <2>3, <3>2 DEF Meddle
  <2> QED BY <1>11, <2>2, <2>3 DEF Meddle
<1>12. CASE Killed
  BY <1>12 DEF Killed
<1>13. CASE UNCHANGED vars
  BY <1>13
<1> QED BY <1>1, <1>2, <1>3, <1>4, <1>5, <1>6, <1>7, <1>8, <1>9, <1>10, <1>11, <1>12, <1>13 DEF Next, Proceed

LEMMA DestinationKept ==
    ASSUME IInv, [Next]_vars
    PROVE  DestinationInv'
<1> USE DEF IInv, TypeOK, vars, destVars, DestinationInv
<1>1. CASE CreateArchive \/ DecryptBegins
  BY <1>1 DEF CreateArchive, DecryptBegins, Failing
<1>2. CASE DecryptEnds
  BY <1>2 DEF DecryptEnds, Failing
<1>3. CASE DecryptFails \/ MakeDir
  BY <1>3 DEF DecryptFails, MakeDir, Failing
<1>4. CASE \E i \in items : ExtractPart(i)
  BY <1>4 DEF ExtractPart
<1>5. CASE ExtractEnds \/ ExtractFails
  BY <1>5 DEF ExtractEnds, ExtractFails, Failing
<1>6. CASE LookForDestination \/ List
  BY <1>6 DEF LookForDestination, List, Failing
<1>7. CASE RenameAll
  BY <1>7 DEF RenameAll, Renamed, CanRenameAll, Failing, Nowhere, Holdings, Theirs, Extracted, ExtractedInv, MovedInv, Running, BeforeEnd
<1>8. ASSUME NEW i \in items, Merge(i) PROVE DestinationInv'
  <2>1. CASE Failing("Archive") /\ UNCHANGED <<todo, tmpDir, at, moved>>
    BY <1>8, <2>1 DEF Merge
  <2>2. CASE CanMove(i) /\ at' = [at EXCEPT ![i] = tmpDir[i]] /\ moved' = moved \cup {i}
    <3>1. tmpDir[i] = "whole" /\ destKind' = "dir"
      BY <1>8, <2>2 DEF Merge, CanMove, ExtractedInv
    <3>2. \A j \in Items : at'[j] = IF j = i THEN "whole" ELSE at[j]
      BY <2>2, <3>1
    <3> QED BY <2>2, <3>1, <3>2
  <2> QED BY <1>8, <2>1, <2>2 DEF Merge
<1>9. CASE MergeEnds
  BY <1>9 DEF MergeEnds
<1>10. CASE DropDir \/ DropArchive
  BY <1>10 DEF DropDir, DropArchive, Dropped
<1>11. CASE Meddle
  BY <1>11 DEF Meddle, Nowhere, Holdings, Theirs, Extracted, ExtractedInv, MovedInv, Running, BeforeEnd
<1>12. CASE Killed
  BY <1>12 DEF Killed
<1>13. CASE UNCHANGED vars
  BY <1>13
<1> QED BY <1>1, <1>2, <1>3, <1>4, <1>5, <1>6, <1>7, <1>8, <1>9, <1>10, <1>11, <1>12, <1>13 DEF Next, Proceed

LEMMA ExtractedKept ==
    ASSUME IInv, [Next]_vars
    PROVE  ExtractedInv'
<1> USE DEF IInv, TypeOK, vars, destVars, ExtractedInv
<1>1. CASE CreateArchive \/ DecryptBegins
  BY <1>1 DEF CreateArchive, DecryptBegins, Failing, Nowhere, Extracted, MovedInv
<1>2. CASE DecryptEnds
  BY <1>2 DEF DecryptEnds, Failing, Nowhere, Extracted, MovedInv
<1>3. CASE DecryptFails \/ MakeDir
  BY <1>3 DEF DecryptFails, MakeDir, Failing, Nowhere, Extracted, MovedInv
<1>4. CASE \E i \in items : ExtractPart(i)
  BY <1>4 DEF ExtractPart
<1>5. CASE ExtractEnds \/ ExtractFails
  BY <1>5 DEF ExtractEnds, ExtractFails, Failing, Nowhere, Extracted, MovedInv
<1>6. CASE LookForDestination \/ List
  BY <1>6 DEF LookForDestination, List, Failing, Nowhere, Extracted, MovedInv
<1>7. CASE RenameAll
  BY <1>7 DEF RenameAll, Renamed, CanRenameAll, Failing, Nowhere, Extracted, MovedInv
<1>8. CASE \E i \in items : Merge(i)
  BY <1>8 DEF Merge, CanMove, Failing, Nowhere, Extracted, MovedInv
<1>9. CASE MergeEnds
  BY <1>9 DEF MergeEnds, Nowhere, Extracted, MovedInv
<1>10. CASE DropDir \/ DropArchive
  BY <1>10 DEF DropDir, DropArchive, Dropped, Nowhere, Extracted, MovedInv
<1>11. CASE Meddle
  BY <1>11 DEF Meddle
<1>12. CASE Killed
  BY <1>12 DEF Killed, Nowhere, Extracted, MovedInv
<1>13. CASE UNCHANGED vars
  BY <1>13
<1> QED BY <1>1, <1>2, <1>3, <1>4, <1>5, <1>6, <1>7, <1>8, <1>9, <1>10, <1>11, <1>12, <1>13 DEF Next, Proceed

LEMMA MovedKept ==
    ASSUME IInv, [Next]_vars
    PROVE  MovedInv'
<1> USE DEF IInv, TypeOK, vars, destVars, MovedInv
<1>1. CASE CreateArchive \/ DecryptBegins
  BY <1>1 DEF CreateArchive, DecryptBegins, Failing, Running, BeforeEnd, Extracted, Ending, ExtractedInv
<1>2. CASE DecryptEnds
  BY <1>2 DEF DecryptEnds, Failing, Running, BeforeEnd, Extracted, Ending, ExtractedInv
<1>3. CASE DecryptFails \/ MakeDir
  BY <1>3 DEF DecryptFails, MakeDir, Failing, Running, BeforeEnd, Extracted, Ending, ExtractedInv
<1>4. CASE \E i \in items : ExtractPart(i)
  BY <1>4 DEF ExtractPart
<1>5. CASE ExtractEnds \/ ExtractFails
  BY <1>5 DEF ExtractEnds, ExtractFails, Failing, Running, BeforeEnd, Extracted, Ending, ExtractedInv
<1>6. CASE LookForDestination \/ List
  BY <1>6 DEF LookForDestination, List, Failing, Running, BeforeEnd, Extracted, Ending, ExtractedInv
<1>7. CASE RenameAll
  BY <1>7 DEF RenameAll, Renamed, CanRenameAll, Failing, Running, BeforeEnd, Extracted, Ending, ExtractedInv
<1>8. ASSUME NEW i \in items, Merge(i) PROVE MovedInv'
  <2>1. pc = "merge" /\ moved = items \ todo /\ i \in todo
    BY <1>8 DEF Merge
  <2>2. CASE Failing("Archive") /\ UNCHANGED <<todo, tmpDir, at, moved>>
    <3>1. todo = items \ moved
      BY <2>1
    <3> QED BY <1>8, <2>2, <3>1 DEF Merge, Failing, Running, BeforeEnd, Extracted, Ending
  <2>3. CASE moved' = moved \cup {i} /\ todo' = todo \ {i} /\ UNCHANGED <<pc, answer>>
    <3>1. moved' = items \ todo'
      BY <2>1, <2>3
    <3> QED BY <1>8, <2>1, <2>3, <3>1 DEF Merge, Running, BeforeEnd, Extracted, Ending
  <2> QED BY <1>8, <2>2, <2>3 DEF Merge
<1>9. CASE MergeEnds
  BY <1>9 DEF MergeEnds, Running, BeforeEnd, Extracted, Ending, ExtractedInv
<1>10. CASE DropDir \/ DropArchive
  BY <1>10 DEF DropDir, DropArchive, Dropped, Running, BeforeEnd, Extracted, Ending, ExtractedInv
<1>11. CASE Meddle
  BY <1>11 DEF Meddle
<1>12. CASE Killed
  BY <1>12 DEF Killed, Running, BeforeEnd, Extracted, Ending, ExtractedInv
<1>13. CASE UNCHANGED vars
  BY <1>13
<1> QED BY <1>1, <1>2, <1>3, <1>4, <1>5, <1>6, <1>7, <1>8, <1>9, <1>10, <1>11, <1>12, <1>13 DEF Next, Proceed

LEMMA TemporaryKept ==
    ASSUME IInv, [Next]_vars
    PROVE  TemporaryInv'
<1> USE DEF IInv, TypeOK, vars, destVars, TemporaryInv
<1>1. CASE CreateArchive \/ DecryptBegins
  BY <1>1 DEF CreateArchive, DecryptBegins, Failing, Extracted
<1>2. CASE DecryptEnds
  BY <1>2 DEF DecryptEnds, Failing, Extracted
<1>3. CASE DecryptFails \/ MakeDir
  BY <1>3 DEF DecryptFails, MakeDir, Failing
<1>4. CASE \E i \in items : ExtractPart(i)
  BY <1>4 DEF ExtractPart
<1>5. CASE ExtractEnds \/ ExtractFails
  BY <1>5 DEF ExtractEnds, ExtractFails, Failing
<1>6. CASE LookForDestination \/ List
  BY <1>6 DEF LookForDestination, List, Failing, Extracted
<1>7. CASE RenameAll
  BY <1>7 DEF RenameAll, Renamed, CanRenameAll, Failing, Extracted
<1>8. CASE \E i \in items : Merge(i)
  BY <1>8 DEF Merge, CanMove, Failing, Extracted
<1>9. CASE MergeEnds
  BY <1>9 DEF MergeEnds, Extracted
<1>10. CASE DropDir \/ DropArchive
  BY <1>10 DEF DropDir, DropArchive, Dropped, Extracted
<1>11. CASE Meddle
  BY <1>11 DEF Meddle
<1>12. CASE Killed
  BY <1>12 DEF Killed, Extracted
<1>13. CASE UNCHANGED vars
  BY <1>13
<1> QED BY <1>1, <1>2, <1>3, <1>4, <1>5, <1>6, <1>7, <1>8, <1>9, <1>10, <1>11, <1>12, <1>13 DEF Next, Proceed

LEMMA InvHolds == Spec => []IInv
<1>1. IInv /\ [Next]_vars => IInv'
  BY TypeKept, DestinationKept, ExtractedKept, MovedKept, TemporaryKept DEF IInv
<1> QED BY <1>1, InitInv, PTL DEF Spec

-----------------------------------------------------------------------------
(* What holds of every restoration.                                        *)

\* Types are kept.
THEOREM TypeCorrect == Spec => []TypeOK
<1>1. IInv => TypeOK
  BY DEF IInv
<1> QED BY <1>1, InvHolds, PTL

\* decrypt_to_dir: the destination holds nothing of the archive before the
\* extraction has ended, and never a part of an item, whenever the process dies.
THEOREM NothingAppearsEarly == Spec => []UntouchedUntilExtracted
<1>1. IInv => UntouchedUntilExtracted
  BY DEF IInv, DestinationInv, MovedInv, Running, BeforeEnd, UntouchedUntilExtracted
<1> QED BY <1>1, InvHolds, PTL

\* decrypt_to_dir: it returns with an answer that says what was moved, and its
\* temporaries are gone but for those that cannot be removed.
THEOREM AlwaysReturnsClean == Spec => []ReturnIsClean
<1>1. IInv => ReturnIsClean
  BY DEF IInv, MovedInv, TemporaryInv, Ending, ReturnIsClean, AnswerTellsWhatMoved,
         TemporariesAreGone
<1> QED BY <1>1, InvHolds, PTL

\* decrypt_to_dir: what others have at the destination is only ever lost to an
\* item of the same name and sort, whole.
THEOREM OthersKeepTheirs == Spec => TheirsIsKept
<1> DEFINE Kept == \A i \in Items :
          at[i] \in Theirs /\ at'[i] # at[i] /\ meddling' = meddling =>
              /\ at'[i] = "whole" /\ i \in moved' \ moved
              /\ at[i] = IF i \in IsDir THEN "empty dir" ELSE "file"
<1>1. IInv /\ [Next]_vars => [Kept]_vars
  <2> SUFFICES ASSUME IInv, Next, NEW i \in Items,
                      at[i] \in Theirs, at'[i] # at[i], meddling' = meddling
               PROVE  /\ at'[i] = "whole" /\ i \in moved' \ moved
                      /\ at[i] = IF i \in IsDir THEN "empty dir" ELSE "file"
    OBVIOUS
  <2>1. CASE RenameAll
    <3>1. at = Nowhere
      BY <2>1 DEF RenameAll, Renamed, CanRenameAll, IInv, DestinationInv, destVars
    <3> QED BY <3>1 DEF Nowhere, Theirs
  <2>2. CASE Meddle
    <3>1. meddling \in 0..MaxMeddling /\ meddling' = meddling + 1
      BY <2>2 DEF Meddle, IInv, TypeOK
    <3>2. MaxMeddling \in Nat
      BY ItemAssumption
    <3>3. meddling' # meddling
      BY <3>1, <3>2
    <3> QED BY <3>3
  <2>3. ASSUME NEW j \in items, Merge(j)
        PROVE  /\ at'[i] = "whole" /\ i \in moved' \ moved
               /\ at[i] = IF i \in IsDir THEN "empty dir" ELSE "file"
    <3>1. /\ CanMove(j) /\ at' = [at EXCEPT ![j] = tmpDir[j]]
          /\ moved' = moved \cup {j}
      BY <2>3 DEF Merge
    <3>2. i = j
      BY <3>1 DEF IInv, TypeOK
    <3>3. at'[i] = "whole" /\ i \notin moved
      BY <2>3, <3>1, <3>2 DEF Merge, IInv, TypeOK, ExtractedInv, MovedInv
    <3> QED BY <3>1, <3>2, <3>3 DEF CanMove, Theirs
  <2>4. CASE Next /\ UNCHANGED at
    BY <2>4
  <2> QED BY <2>1, <2>2, <2>3, <2>4
          DEF Next, Proceed, CreateArchive, DecryptBegins, DecryptEnds, DecryptFails, MakeDir,
              ExtractPart, ExtractEnds, ExtractFails, LookForDestination, List, MergeEnds,
              DropDir, DropArchive, Killed, destVars
<1> HIDE DEF Kept
<1>2. Spec => [][Kept]_vars
  BY <1>1, InvHolds, PTL DEF Spec
<1> QED BY <1>2 DEF TheirsIsKept, Kept

\* decrypt_to_dir publishes the destination as PublishDirectory promises: at
\* once where there is none, else item by item, each whole.
THEOREM PublishesAsItPromises == Spec => PublishesAsPromised
<1>1. Init => Publication!Init
  BY DEF Init, Publication!Init, Told, Theirs
<1>2. IInv /\ [Next]_vars => [Publication!Next]_(Publication!publishVars)
  <2> SUFFICES ASSUME IInv, [Next]_vars
               PROVE  [Publication!Next]_(Publication!publishVars)
    OBVIOUS
  <2>1. pc \in Running \cup {"drop dir", "drop archive"} => Told = "pending"
    BY DEF Told, Running, BeforeEnd, Extracted
  <2>2. pc' \in Running \cup {"drop dir", "drop archive"} => Told' = "pending"
    BY DEF Told, Running, BeforeEnd, Extracted
  <2>3. CASE RenameAll
    <3>1. Told = "pending" /\ Told' = "pending"
      BY <2>1, <2>2, <2>3 DEF RenameAll, Failing, Running, Extracted
    <3>2. CASE UNCHANGED <<destVars, moved>>
      BY <2>3, <3>1, <3>2 DEF RenameAll, destVars, Publication!publishVars
    <3>3. CASE CanRenameAll /\ Renamed
      <4>1. moved = {} /\ at = Nowhere /\ destKind \in {"absent", "dir"}
        BY <2>3, <3>3 DEF RenameAll, CanRenameAll, IInv, MovedInv, DestinationInv, Running,
                          Extracted
      <4>2. \A i \in Items : at[i] = "nothing"
        BY <4>1 DEF Nowhere
      <4>3. tmpDir \in [Items -> {"nothing", "part", "whole"}]
        BY DEF IInv, TypeOK
      <4>4. \A i \in Items : tmpDir[i] = IF i \in items THEN "whole" ELSE "nothing"
        BY <2>3 DEF RenameAll, IInv, ExtractedInv, Extracted
      <4>5. tmpDir = [i \in Items |-> IF i \in items THEN "whole" ELSE "nothing"]
        BY <4>3, <4>4
      <4>6. UNCHANGED items
        BY <2>3 DEF RenameAll
      <4> QED BY <3>1, <3>3, <4>1, <4>2, <4>5, <4>6
              DEF Renamed, Publication!Next, Publication!PublishAll
    <3> QED BY <2>3, <3>2, <3>3 DEF RenameAll
  <2>4. ASSUME NEW i \in items, Merge(i)
        PROVE  [Publication!Next]_(Publication!publishVars)
    <3>1. /\ Told = "pending" /\ Told' = "pending"
          /\ UNCHANGED <<items, destKind>> /\ i \in Items
      BY <2>1, <2>2, <2>4 DEF Merge, Failing, Running, Extracted, IInv, TypeOK
    <3>2. CASE UNCHANGED <<at, moved>>
      BY <3>1, <3>2 DEF Publication!publishVars
    <3>3. CASE /\ CanMove(i) /\ at' = [at EXCEPT ![i] = tmpDir[i]]
               /\ moved' = moved \cup {i}
      <4>1. tmpDir[i] = "whole" /\ i \notin moved /\ destKind = "dir"
        BY <2>4, <3>3 DEF Merge, CanMove, IInv, ExtractedInv, MovedInv
      <4> QED BY <3>1, <3>3, <4>1 DEF Publication!Next, Publication!PublishOne
    <3> QED BY <2>4, <3>2, <3>3 DEF Merge
  <2>5. CASE Meddle
    <3>1. UNCHANGED <<items, moved, Told>>
      BY <2>5 DEF Meddle, Told
    <3>2. \A i \in Items : at'[i] = "whole" => at[i] = "whole"
      BY <2>5 DEF Meddle, Nowhere, Theirs, IInv, TypeOK
    <3> QED BY <3>1, <3>2 DEF Publication!Next, Publication!Others
  <2>6. CASE DropArchive \/ Killed
    <3>1. /\ Told = "pending" /\ UNCHANGED <<items, destKind, at, moved>>
          /\ pc' \in {"done", "killed"}
      BY <2>1, <2>6 DEF DropArchive, Killed, destVars, Running, BeforeEnd, Extracted, IInv, TypeOK
    <3>2. /\ Told' \in {"Ok", "failed", "never"}
          /\ Told' = "Ok" => answer' = "Ok" /\ pc' = "done"
      BY <3>1 DEF Told
    <3>3. Told' = "Ok" => moved = items
      BY <2>6, <3>2 DEF DropArchive, Killed, IInv, MovedInv, Ending
    <3> QED BY <3>1, <3>2, <3>3 DEF Publication!Next, Publication!Answer
  <2>7. CASE /\ UNCHANGED <<items, destKind, at, moved>>
             /\ pc \in Running \cup {"drop dir", "drop archive"}
             /\ pc' \in Running \cup {"drop dir", "drop archive"}
    BY <2>1, <2>2, <2>7 DEF Publication!publishVars
  <2>8. CASE UNCHANGED vars
    BY <2>8 DEF vars, destVars, Publication!publishVars, Told
  <2> QED BY <2>3, <2>4, <2>5, <2>6, <2>7, <2>8
          DEF Next, Proceed, CreateArchive, DecryptBegins, DecryptEnds, DecryptFails, MakeDir,
              ExtractPart, ExtractEnds, ExtractFails, LookForDestination, List, MergeEnds,
              DropDir, Failing, destVars, Running, BeforeEnd, Extracted
<1> QED BY <1>1, <1>2, InvHolds, PTL DEF Spec, PublishesAsPromised, Publication!Spec
=============================================================================
