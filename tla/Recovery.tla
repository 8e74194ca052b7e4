------------------------------ MODULE Recovery ------------------------------
(***************************************************************************)
(* What the server, the agents and the clock together achieve: Dispatch    *)
(* under the fairness of the code, with some agents that stay and others   *)
(* of which nothing is assumed.                                            *)
(*                                                                         *)
(* A steady agent may crash, and lose its connection, but comes back: it   *)
(* registers, connects before its row gets stale, goes on sending          *)
(* heartbeats and ends its jobs.  Any other agent may be silent for ever,  *)
(* with a task or without, connected or not.  Nothing is revoked: a        *)
(* REVOKE can leave an entry in an agent's "running" that nothing removes, *)
(* and an agent with one slot is busy for ever then.                       *)
(***************************************************************************)
EXTENDS Dispatch

CONSTANT Steady

ASSUME RecoveryAssumption == Steady \subseteq Nodes

\* The clock passes lease_expires_at, which is no disturbance here.
Expires(t) == Idle /\ R!LeaseLapses(t) /\ UNCHANGED <<server, link, agents, faults>>

\* The row of n is there, and not about to be taken for stale.
Known(n) == token[n] /\ Online(n) /\ roster[n].fresh

Joins(n) ==
    \/ ~Known(n) /\ AgentRegister(n)
    \/ Known(n) /\ AgentConnect(n)
    \/ \E c \in Links : link[n][c].peer = "open" /\ Accepted(n, c)

Works(n) ==
    \/ \E c \in Links : AgentRefuses(n, c) \/ AgentAccepts(n, c)
    \/ \E j \in jobs[n] :
          \/ JobBegins(n, j) \/ JobLeaves(n, j)
          \/ \E outcome \in {"succeeded", "failed"} : JobReports(n, j, outcome)

Stumbles(n) ==
    \/ AgentDrops(n) \/ AgentCrash(n)
    \/ Open(n) = {} /\ HeartbeatLate(n)

Heard(n) == \E c \in Links : OnMessage(n, c)

RecoveryNext ==
    \/ \E t \in Tasks, k \in Keys : ClientSubmit(t, k)
    \/ \E t \in Tasks : Expires(t)
    \/ \E n \in Nodes : Heard(n) \/ GraceEnds(n)
    \/ \E n \in Nodes, c \in Links : OnDisconnect(n, c) \/ Accepted(n, c) \/ AcceptFails(n, c)
    \/ \E n \in Nodes \ Steady : Kick(n) \/ HeartbeatLate(n) \/ AgentStep(n)
    \/ \E n \in Steady : Joins(n) \/ AgentHeartbeat(n) \/ Works(n) \/ Stumbles(n)
    \/ LoopStep \/ Resume \/ Tick \/ ServerRestart

\* The event loops run what is ready again and again, the tick comes round, the
\* clock goes on, and the steady agents do what makes them steady.  A handler waits
\* for the loop to be idle, which it is again and again: hence strong fairness.
\* Steps are taken together where that is enough, which assumes less.
Moves == Resume \/ (\E t \in Tasks : Expires(t)) \/ \E n \in Steady : Joins(n) \/ Works(n)
Talks == \E n \in Steady : AgentHeartbeat(n) \/ Heard(n)

RecoveryFairness == WF_vars(LoopStep) /\ SF_vars(Tick) /\ SF_vars(Moves) /\ SF_vars(Talks)

RecoverySpec == Init /\ [][RecoveryNext]_vars /\ RecoveryFairness

\* Every accepted task that a steady agent could run is settled in the end, whatever
\* the others do with it: leases expire, each expiry spends budget, and a node that
\* says nothing is not given the task again while it is down as busy.
EventuallySettled ==
    \A t \in Tasks :
        rows[t].state \in R!Open /\ Eligible[rows[t].key] \cap Steady # {} ~> rows[t].state \notin R!Open
=============================================================================
