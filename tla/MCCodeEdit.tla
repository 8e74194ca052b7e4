----------------------------- MODULE MCCodeEdit -----------------------------
(* Small instances of CodeEdit for TLC.  Each task is its own key, so tasks *)
(* are interchangeable.                                                     *)
EXTENDS CodeEdit, TLC

CONSTANTS t1, t2, t3, n1

MCKeyOf == [t \in Tasks |-> t]
MCSlots == [n \in Nodes |-> 3]
MCAnywhere == [k \in Keys |-> Nodes]
MCFlaw == [o \in Outputs |-> IF o = "broken" THEN "tests" ELSE IF o = "chatter" THEN "diff" ELSE "none"]
MCKeeps == [o \in Outputs |-> IF o = "p" THEN Outputs \ {o, "broken"} ELSE {}]
MCSymmetry == Permutations(Tasks)

(* A race in which a handler dies in a verification has two members only; the   *)
(* third is there for races that settle.  One member is tried twice.  A second  *)
(* good patch is there while the race has one member.                           *)
MCNext ==
    /\ Next
    /\ (\E t \in Tasks : "q" \in tree'[t]) => Cardinality(minted') <= 1
    /\ scarred' # {} => Cardinality(minted') <= 2
    /\ Cardinality({t \in Tasks : issued'[t] > 1}) <= 1
=============================================================================
