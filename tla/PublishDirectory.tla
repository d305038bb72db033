-------------------------- MODULE PublishDirectory --------------------------
(***************************************************************************)
(* What restoring a selection promises of the destination directory, which *)
(* others may use at the same time: it is left alone, until either all     *)
(* items appear in one step in a directory that was not there (or was      *)
(* empty), or they are moved one by one, each whole, into the directory    *)
(* that is there.  Ok is answered only when each has been moved; after an  *)
(* error the items already moved stay.                                     *)
(***************************************************************************)
CONSTANTS Items, Ours, Nothing

VARIABLES
    kind,    \* of the destination: "absent", "dir", or anything else
    at,      \* at[i]: what is at name i in it, Ours: item i, whole
    goal,    \* the items to restore
    moved,   \* those moved there
    answer   \* "pending", "Ok", "failed", "never"

publishVars == <<kind, at, goal, moved, answer>>

Init == moved = {} /\ answer = "pending" /\ \A i \in Items : at[i] # Ours

\* Others may do anything, but do not make our items.
Others ==
    /\ \A i \in Items : at'[i] = Ours => at[i] = Ours
    /\ UNCHANGED <<goal, moved, answer>>

Learn == answer = "pending" /\ moved = {} /\ UNCHANGED <<kind, at, moved, answer>>

PublishAll ==
    /\ answer = "pending" /\ moved = {}
    /\ \A i \in Items : at[i] = Nothing
    /\ kind \in {"absent", "dir"}
    /\ kind' = "dir"
    /\ at' = [i \in Items |-> IF i \in goal THEN Ours ELSE Nothing]
    /\ moved' = goal
    /\ UNCHANGED <<goal, answer>>

PublishOne(i) ==
    /\ answer = "pending" /\ kind = "dir"
    /\ i \in goal \ moved
    /\ at' = [at EXCEPT ![i] = Ours]
    /\ moved' = moved \cup {i}
    /\ UNCHANGED <<kind, goal, answer>>

Answer ==
    /\ answer = "pending"
    /\ answer' \in {"Ok", "failed", "never"}
    /\ answer' = "Ok" => moved = goal
    /\ UNCHANGED <<kind, at, goal, moved>>

Next == Others \/ Learn \/ PublishAll \/ (\E i \in Items : PublishOne(i)) \/ Answer

Spec == Init /\ [][Next]_publishVars
=============================================================================
