---------------------------- MODULE MCCommandLine ----------------------------
(***************************************************************************)
(* Passwords on both sides of each threshold.                              *)
(***************************************************************************)
EXTENDS CommandLine, TLC

CONSTANTS nothing, short, weak, good, strong

MCPasswords == {nothing, short, weak, good, strong}
MCLengthOf == nothing :> 0 @@ short :> 11 @@ weak :> 12 @@ good :> 12 @@ strong :> 30
MCScoreOf == nothing :> 0 @@ short :> 3 @@ weak :> 2 @@ good :> 3 @@ strong :> 4
=============================================================================
