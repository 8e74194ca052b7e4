----------------------------- MODULE MCDispatch -----------------------------
(* Small instances of Dispatch for TLC.                                    *)
EXTENDS Dispatch, TLC

CONSTANTS t1, t2, k1, k2, n1, n2

MCOneSlot == [n \in Nodes |-> 1]
MCTwoSlots == [n \in Nodes |-> 2]
MCAnywhere == [k \in Keys |-> Nodes]

MCSymmetry == Permutations(Nodes)

\* Tasks and keys are interchangeable: t1 is submitted first, under k1.
FirstFirst == /\ rows[t1].key \in {k1, NoKey}
              /\ t2 \in minted => t1 \in minted

\* Disturbances hit first attempts; a second one may fail by itself.  Whatever the
\* first was, the second is a broken connection or a lapsed lease.
MCNext == /\ Next
          /\ (\E t \in Tasks : issued[t] > 1) => faults' = faults
          /\ faults = 1 => \/ faults' = faults
                           \/ \E n \in Nodes : AgentDrops(n)
                           \/ \E t \in Tasks : LeaseLapses(t)
MCSpec == Init /\ [][MCNext]_vars

\* Two slices of one instance: a task that moves between two nodes, each with
\* one socket, and two tasks on one node that reconnects, disturbed once.
OneTask == minted \subseteq {t1} /\ \A n \in Nodes, c \in Links \ {1} : link[n][c] = Unused
OneNode == /\ faults <= 1
           /\ \A t \in Tasks : issued[t] <= 1
           /\ \E n \in Nodes : \A m \in Nodes \ {n} : roster[m] = Absent /\ ~token[m]
MCSlices == FirstFirst /\ (OneTask \/ OneNode)
=============================================================================
