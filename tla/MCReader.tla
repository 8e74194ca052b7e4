------------------------------ MODULE MCReader ------------------------------
(* A task of one attempt with an answer of three characters.               *)
EXTENDS Reader

CONSTANT w1

MCAnswer == <<{[text |-> a, output |-> a, family |-> "other"] : a \in {<<"x", "t", "x">>}}>>
=============================================================================
