-------------------------- MODULE AuthenticRelease ---------------------------
(***************************************************************************)
(* What opening a container promises, whatever bytes it is given: the      *)
(* bytes released are always the beginning of the content of one archive   *)
(* the caller holds the secret of, and "Ok" is answered only once that     *)
(* whole content has been released.  A failure may come at any time and    *)
(* releases at most a beginning.                                           *)
(***************************************************************************)
EXTENDS Sequences, SequencesExt

CONSTANTS
    Callers,     \* who may ask
    Sources,     \* the archives that exist
    ContentOf,   \* [Sources -> Seq(bytes)]
    OwnedBy      \* [Callers -> SUBSET Sources]

VARIABLES
    asker,      \* who asks
    released,   \* the bytes handed out so far
    verdict     \* "pending", "Ok" or "failed"

relVars == <<asker, released, verdict>>

Init ==
    /\ asker \in Callers
    /\ released = <<>>
    /\ verdict = "pending"

\* More of an archive the caller owns is handed out.
Release ==
    /\ verdict = "pending"
    /\ \E s \in OwnedBy[asker] :
          /\ IsPrefix(released, released')
          /\ IsPrefix(released', ContentOf[s])
    /\ UNCHANGED <<asker, verdict>>

Succeed ==
    /\ verdict = "pending"
    /\ \E s \in OwnedBy[asker] : released = ContentOf[s]
    /\ verdict' = "Ok"
    /\ UNCHANGED <<asker, released>>

\* A failing write to the sink may leave a part of what it was given.
GiveUp ==
    /\ verdict = "pending"
    /\ \/ released' = released
       \/ \E s \in OwnedBy[asker] :
             /\ IsPrefix(released, released')
             /\ IsPrefix(released', ContentOf[s])
    /\ verdict' = "failed"
    /\ UNCHANGED asker

Next == Release \/ Succeed \/ GiveUp

Spec == Init /\ [][Next]_relVars
=============================================================================
