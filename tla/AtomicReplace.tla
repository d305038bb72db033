---------------------------- MODULE AtomicReplace ----------------------------
(***************************************************************************)
(* What an operation with an output file promises of that file: it is what *)
(* it was before, until one single step makes it the whole, sound result;  *)
(* "Ok" is answered only after that step, an error only without it.  The   *)
(* process may also stop for good at any moment.                           *)
(***************************************************************************)
CONSTANTS
    Before,        \* the output file as the operation found it
    Sound(_, _)    \* Sound(goal, content): content is a whole result for goal

VARIABLES
    place,    \* the output file
    goal,     \* what the operation is to produce, as far as it knows yet
    answer    \* "pending", "Ok", "failed" or "never" (the process stopped)

replaceVars == <<place, goal, answer>>

Init == place = Before /\ answer = "pending"

\* The operation learns more of its goal; the output file is left alone.
Progress ==
    /\ answer = "pending"
    /\ place = Before
    /\ UNCHANGED <<place, answer>>

Replace ==
    /\ answer = "pending"
    /\ place = Before
    /\ place' # Before
    /\ Sound(goal, place')
    /\ UNCHANGED <<goal, answer>>

Succeed ==
    /\ answer = "pending"
    /\ place # Before
    /\ answer' = "Ok"
    /\ UNCHANGED <<place, goal>>

Fail ==
    /\ answer = "pending"
    /\ place = Before
    /\ answer' = "failed"
    /\ UNCHANGED <<place, goal>>

Stop ==
    /\ answer = "pending"
    /\ answer' = "never"
    /\ UNCHANGED <<place, goal>>

Next == Progress \/ Replace \/ Succeed \/ Fail \/ Stop

Spec == Init /\ [][Next]_replaceVars
=============================================================================
