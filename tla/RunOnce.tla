------------------------------ MODULE RunOnce ------------------------------
(***************************************************************************)
(* What idempotent triggering promises for the deliveries that carry one   *)
(* key: one run is made, and a delivery that is told a run is told that    *)
(* run, once it is made.                                                   *)
(***************************************************************************)
CONSTANTS Deliveries, Runs, NoRun

VARIABLES
    made,   \* the runs made for the key
    told    \* what each delivery has been told

Init == made = {} /\ told = [d \in Deliveries |-> NoRun]

Make(r) == made = {} /\ made' = {r} /\ UNCHANGED told

Tell(d, r) ==
    /\ told[d] = NoRun /\ r \in made
    /\ told' = [told EXCEPT ![d] = r]
    /\ UNCHANGED made

Next == \E r \in Runs : Make(r) \/ \E d \in Deliveries : Tell(d, r)

Spec == Init /\ [][Next]_<<made, told>>
============================================================================
