---------------------------- MODULE WriteBehind ----------------------------
(***************************************************************************)
(* What a document store with a live copy promises: updates are accepted   *)
(* one at a time, the stored copy only ever grows, and it holds nothing    *)
(* that was not accepted.                                                  *)
(***************************************************************************)
CONSTANT Edits

VARIABLES accepted, stored

Init == accepted = {} /\ stored = {}

Accept(e) ==
    /\ e \notin accepted
    /\ accepted' = accepted \cup {e}
    /\ UNCHANGED stored

Store ==
    /\ stored' \in SUBSET accepted
    /\ stored \subseteq stored'
    /\ UNCHANGED accepted

Next == Store \/ \E e \in Edits : Accept(e)

Spec == Init /\ [][Next]_<<accepted, stored>>
============================================================================
