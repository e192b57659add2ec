---------------------------- MODULE MCDocuments ----------------------------
(* Values for the runs of Documents: one visitor and one request are the   *)
(* first user's, the other visitor is the second user's, and the other     *)
(* request is either's.                                                    *)
EXTENDS Documents

CONSTANTS k1, k2, q1, A, B

MCAssignments ==
  {f \in [Sockets \cup ApiCalls -> Users] : f[k1] = A /\ f[k2] = B /\ f[q1] = A}
=============================================================================
