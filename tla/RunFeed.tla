------------------------------ MODULE RunFeed ------------------------------
(***************************************************************************)
(* What the event bus promises the viewers of one run: a viewer is shown   *)
(* only events that were published, none of them twice, and nothing after  *)
(* the event that ends the run.                                            *)
(***************************************************************************)
EXTENDS Integers, Sequences

CONSTANT Streams

VARIABLES
    sent,   \* how many events have been published; they are numbered from 1
    last,   \* the number of the event "done", 0 before it is published
    frames  \* the events each viewer has been shown live, in its order

Shown(s) == {frames[s][i] : i \in DOMAIN frames[s]}

Init == sent = 0 /\ last = 0 /\ frames = [s \in Streams |-> <<>>]

\* A viewer is shown one event more, or none.
Show(s) ==
    \/ frames'[s] = frames[s]
    \/ \E e \in 1 .. sent' :
          /\ e \notin Shown(s) /\ (last = 0 \/ last \notin Shown(s))
          /\ frames'[s] = Append(frames[s], e)

\* An event may be published, and it may reach several viewers at once.
Next ==
    /\ sent' \in {sent, sent + 1}
    /\ last' = last \/ (last = 0 /\ sent' = sent + 1 /\ last' = sent')
    /\ frames' \in [Streams -> Seq(Nat)] /\ \A s \in Streams : Show(s)

Spec == Init /\ [][Next]_<<sent, last, frames>>
============================================================================
