------------------------------ MODULE MCRouter ------------------------------
(* Small instances of Router for TLC.                                      *)
EXTENDS Router, TLC

CONSTANTS t1, t2, t3, k1, k2, k3, n1, n2

\* A two-slot node (a continuous-batching server) and a one-slot node; k3
\* names a cluster that only n2 hosts.
MCSlots == [n \in Nodes |-> IF n = n1 THEN 2 ELSE 1]
MCEligible == [k \in Keys |-> IF k = k3 THEN {n2} ELSE Nodes]

\* Keys, nodes and slots differ, task ids do not.
MCSymmetry == Permutations(Tasks)
=============================================================================
