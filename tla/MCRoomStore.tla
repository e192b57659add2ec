---------------------------- MODULE MCRoomStore ----------------------------
(* RoomStore on small instances. *)
EXTENDS RoomStore, TLC

\* Sockets, updates and persistRoom calls are interchangeable; only runs
\* without a liveness property use the symmetry.
Symmetry == Permutations(Sockets) \cup Permutations(Edits) \cup Permutations(Persists)
============================================================================
