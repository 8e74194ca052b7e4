----------------------------- MODULE MCRecovery -----------------------------
(* A small instance of Recovery for TLC: one agent that stays, one that need not. *)
EXTENDS Recovery

CONSTANTS n1, n2

MCOneSlot == [n \in Nodes |-> 1]
MCAnywhere == [k \in Keys |-> Nodes]

\* Bounds: the other agent opens one socket and registers when it is not known; one
\* disturbance hits a first attempt.  Nobody's heartbeat but the steady agent's, and
\* nobody's stream but the other's, tells anything apart here.
Quiet ==
    /\ \A n \in Nodes \ Steady :
          /\ link'[n][2] = Unused
          /\ ~AgentHeartbeat(n)
          /\ AgentRegister(n) => ~Known(n)
    /\ \A n \in Steady, c \in Links : \A m \in ToSet(link'[n][c].up) : m.type # "progress"
    /\ faults' # faults => \E t \in Tasks : rows[t].state \in R!InFlight /\ issued[t] = 1

MCNext == RecoveryNext /\ Quiet
MCSpec == Init /\ [][MCNext]_vars /\ RecoveryFairness
=============================================================================
