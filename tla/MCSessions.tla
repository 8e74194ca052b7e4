----------------------------- MODULE MCSessions -----------------------------
(* A small instance of Sessions for TLC.                                   *)
EXTENDS Sessions, TLC

CONSTANTS s1, j1, j2, j3, j4, h1

\* Room for four tokens of conversation beside the answer.
MCRoomier == [n \in Hosts |-> 5]

\* Answers are longer than requests, and a summary takes room from both.
MCSizes == [user |-> {1}, assistant |-> {2}, summary |-> {1}]

MCSymmetry == Permutations(Jobs)
=============================================================================
