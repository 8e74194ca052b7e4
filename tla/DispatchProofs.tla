--------------------------- MODULE DispatchProofs ---------------------------
(***************************************************************************)
(* Proofs about the server and its agents, for every number of tasks,      *)
(* nodes, websockets, suspended handlers and disturbances.                 *)
(***************************************************************************)
EXTENDS Dispatch, FiniteSetTheorems, SequenceTheorems, TLAPS

RP == INSTANCE RouterProofs

\* What a handler can have left to do, and what travels on a websocket: it names
\* attempts that were issued.
Ops ==
    {o \in [op : {"schedule", "assign", "lost", "expire", "kick", "tell", "revoke", "ready",
                  "compact", "delete", "clear"},
            node : Nodes \cup {NoNode}, task : Tasks \cup {NoTask}, attempt : Nat] :
        /\ o.op \in {"assign", "lost", "kick", "tell", "revoke", "ready"} => o.node \in Nodes
        /\ o.op \in {"assign", "tell", "revoke", "delete"} => o.task \in Tasks
        /\ o.op = "assign" => o.attempt \in 1..issued[o.task]}
Downs ==
    {m \in [type : {"assign", "revoke"}, task : Tasks, attempt : Nat, info : {""}] :
        m.type = "assign" => m.attempt \in 1..issued[m.task]}
Ups ==
    {m \in [type : {"heartbeat", "progress", "result", "leave"}, task : Tasks \cup {NoTask},
            attempt : Nat, info : {"", "busy", "ready", "succeeded", "failed"}] :
        /\ m.type \in {"progress", "result"} => m.task \in Tasks /\ m.attempt \in 1..issued[m.task]
        /\ m.type = "heartbeat" => m.info \in {"busy", "ready"}
        /\ m.type = "result" => m.info \in {"succeeded", "failed"}}
Jobs ==
    {j \in [task : Tasks, attempt : Nat, link : Links,
            phase : {"new", "begun", "cancelled", "reporting", "leaving"}, robbed : BOOLEAN] :
        j.attempt \in 1..issued[j.task]}

RosterRow == [status : {"absent", "offline", "ready", "busy"}, current : Tasks \cup {NoTask},
              fresh : BOOLEAN, away : {"never", "grace", "over"}]

\* The variables keep their types.
RosterTypes ==
    /\ roster \in [Nodes -> RosterRow]
    /\ token \in [Nodes -> BOOLEAN]
    /\ conns \in [Nodes -> Links \cup {NoLink}]
LoopTypes == loop \in Seq(Ops) /\ parked \in SUBSET Seq(Ops)
Socket == [peer : {"unused", "open", "gone"}, accepting : BOOLEAN, served : BOOLEAN,
           up : Seq(Ups), down : Seq(Downs)]
LinkTypes == link \in [Nodes -> [Links -> Socket]]
AgentTypes ==
    /\ running \in [Nodes -> [Tasks -> Nat]]
    /\ jobs \in [Nodes -> SUBSET Jobs]
ServerTypes == RosterTypes /\ LoopTypes /\ LinkTypes /\ AgentTypes

\* The jobs that keep others out.  An agent with one slot has at most one, and the
\* entry for it; a job that has left, or was robbed, has none any more.
Keeping(n) == {j \in Working(n) : ~j.robbed}
OneSlotInv ==
    /\ \A n \in Nodes : Slots[n] = 1 =>
          /\ \A i, j \in Keeping(n) : i = j
          /\ \A j \in Keeping(n) : running[n][j.task] = j.attempt
    /\ \A n \in Nodes : \A j \in jobs[n] \ Keeping(n) : running[n][j.task] # j.attempt

\* A websocket was opened before it is accepted, served or in the connection map; an
\* agent opens one after the other, and has one open at a time, the newest.
LinkInv ==
    \A n \in Nodes :
        /\ conns[n] # NoLink => link[n][conns[n]].peer # "unused"
        /\ \A c \in Links : link[n][c].accepting \/ link[n][c].served => link[n][c].peer # "unused"
        /\ \A c, d \in Links : link[n][c].peer # "unused" /\ d <= c => link[n][d].peer # "unused"
        /\ \A c, d \in Links : link[n][c].peer = "open" /\ link[n][d].peer # "unused" => d <= c

\* The nodes a tick found stale lose their tasks before anything else is done.
SweepInv ==
    /\ \A i \in DOMAIN loop : loop[i].op = "lost" => \A k \in 1..i : loop[k].op = "lost"
    /\ \A rest \in parked : \A i \in DOMAIN rest : rest[i].op # "lost"

\* Attempt a of t is in one place at most: where the row says, if it is live.
Homed(t, a) ==
    /\ \A p, q \in Places(t, a) : p = q
    /\ rows[t].state \in R!InFlight /\ rows[t].attempt = a =>
          \A p \in Places(t, a) : p[2] = rows[t].node
HomeInv == \A t \in Tasks : \A a \in 1..issued[t] : Homed(t, a)

DispatchInv ==
    /\ RP!IInv /\ ServerTypes
    /\ LinkInv /\ OneSlotInv /\ SweepInv /\ HomeInv

\* A step of a job.
JobStep(n, j) ==
    \/ JobBegins(n, j) \/ JobCancelled(n, j) \/ JobLeaves(n, j)
    \/ \E outcome \in {"succeeded", "failed"} : JobReports(n, j, outcome)

-----------------------------------------------------------------------------
(***************************************************************************)
(* The table                                                               *)
(***************************************************************************)
\* Router here and Router in RouterProofs are the same.
LEMMA SameTable ==
    /\ R!RouterAssumption => RP!RouterAssumption
    /\ R!Init <=> RP!Init
    /\ R!Next <=> RP!Next
    /\ R!TypeOK <=> RP!TypeOK
<1> USE DEF R!InFlight, RP!InFlight, R!Open, RP!Open, R!Terminal, RP!Terminal,
            R!NoAttempt, RP!NoAttempt, R!NoResult, RP!NoResult, R!NoRow, RP!NoRow, R!Has, RP!Has,
            R!Present, RP!Present, R!Load, RP!Load
<1>0. \A S : R!Cardinality(S) = RP!Cardinality(S)
  BY Zenon DEF R!Cardinality, RP!Cardinality
<1>1. R!RouterAssumption => RP!RouterAssumption
  BY DEF R!RouterAssumption, RP!RouterAssumption, R!IsFiniteSet, RP!IsFiniteSet
<1>2. R!Init <=> RP!Init
  BY DEF R!Init, RP!Init
<1>3. R!TypeOK <=> RP!TypeOK
  BY DEF R!TypeOK, RP!TypeOK, R!Row, RP!Row, R!Result, RP!Result
<1>4. \A t, k : R!Submit(t, k) <=> RP!Submit(t, k)
  BY <1>0 DEF R!Submit, RP!Submit
<1>5. \A ready : R!SchedulePending(ready) <=> RP!SchedulePending(ready)
  <2>1. R!QueueOrders = RP!QueueOrders
    BY <1>0 DEF R!QueueOrders, RP!QueueOrders
  <2>2. \A ready, asg, ord, i : R!FreeNodes(ready, asg, ord, i) = RP!FreeNodes(ready, asg, ord, i)
    BY <1>0 DEF R!FreeNodes, RP!FreeNodes
  <2>3. \A asg, ready, ord : R!IsGreedy(asg, ready, ord) <=> RP!IsGreedy(asg, ready, ord)
    BY <2>2 DEF R!IsGreedy, RP!IsGreedy
  <2>4. \A asg : R!Assign(asg) <=> RP!Assign(asg)
    BY DEF R!Assign, RP!Assign, R!Assigned, RP!Assigned
  <2> QED
    BY <2>1, <2>3, <2>4 DEF R!SchedulePending, RP!SchedulePending
<1>6. \A t, a : R!MarkRunning(t, a) <=> RP!MarkRunning(t, a)
  BY DEF R!MarkRunning, RP!MarkRunning
<1>7. \A row : R!Requeued(row) = RP!Requeued(row)
  BY DEF R!Requeued, RP!Requeued
<1>8. \A t, a, outcome : R!OnResult(t, a, outcome) <=> RP!OnResult(t, a, outcome)
  BY <1>7 DEF R!OnResult, RP!OnResult, R!Retry, RP!Retry, R!Commit, RP!Commit,
              R!Reportable, RP!Reportable, R!Retries, RP!Retries
<1>9. \A lost : R!LoseNodes(lost) <=> RP!LoseNodes(lost)
  BY <1>7 DEF R!LoseNodes, RP!LoseNodes, R!AfterLoss, RP!AfterLoss
<1>10. /\ R!ExpireLeases <=> RP!ExpireLeases
       /\ \A n : R!OnNodeLost(n) <=> RP!OnNodeLost(n)
       /\ \A t : R!LeaseLapses(t) <=> RP!LeaseLapses(t)
  BY <1>9 DEF R!ExpireLeases, RP!ExpireLeases, R!OnNodeLost, RP!OnNodeLost,
              R!LapsedNodes, RP!LapsedNodes, R!LeaseLapses, RP!LeaseLapses
<1>11. /\ \A t : R!Cancel(t) <=> RP!Cancel(t)
       /\ \A t : R!Delete(t) <=> RP!Delete(t)
       /\ R!Clear <=> RP!Clear
       /\ R!Restart <=> RP!Restart
  BY DEF R!Cancel, RP!Cancel, R!Delete, RP!Delete, R!Clear, RP!Clear, R!Restart, RP!Restart
<1>12. R!Next <=> RP!Next
  BY <1>4, <1>5, <1>6, <1>8, <1>10, <1>11 DEF R!Next, RP!Next
<1> QED
  BY <1>1, <1>2, <1>3, <1>12

\* What Router's invariant says of the rows here.
LEMMA TableFacts ==
    ASSUME RP!IInv
    PROVE  /\ R!TypeOK
           /\ \A t \in Tasks : rows[t].state \in R!InFlight =>
                 rows[t].node \in Nodes /\ rows[t].attempt = issued[t] /\ issued[t] # 0
  BY SameTable DEF RP!IInv, RP!Ownership, RP!InFlight, R!InFlight, RP!NoAttempt

\* A handler that drops a node requeues its tasks as Router does, or has none to.
LEMMA LoseNodeStep ==
    ASSUME NEW n \in Nodes, LoseNode(n)
    PROVE  R!Next \/ UNCHANGED table
  BY DEF LoseNode, R!Next

\* The message a handler takes is one of those sent.
LEMMA TakenIsSent ==
    ASSUME ServerTypes, NEW n \in Nodes, NEW c \in Links, NEW type, Takes(n, c, type)
    PROVE  /\ Head(link[n][c].up) \in Ups
           /\ Head(link[n][c].up).type = type
  BY HeadTailProperties DEF Takes, ServerTypes, LinkTypes, Socket

\* The step the running handler is at is one it was given.
LEMMA HeadIsOp ==
    ASSUME ServerTypes, loop # <<>>
    PROVE  Head(loop) \in Ops /\ Rest \in Seq(Ops)
  BY HeadTailProperties DEF ServerTypes, LoopTypes, Rest

\* Every step is a step of the task table, as Router specifies it, or leaves it.
LEMMA TableStep ==
    ASSUME R!TypeOK, ServerTypes, [Next]_vars
    PROVE  R!Next \/ UNCHANGED table
<1>1. ASSUME NEW t \in Tasks, NEW k \in Keys, ClientSubmit(t, k) PROVE R!Next
  BY <1>1 DEF ClientSubmit, R!Next
<1>2. ASSUME NEW t \in Tasks, ClientCancel(t) \/ LeaseLapses(t) PROVE R!Next
  BY <1>2 DEF ClientCancel, LeaseLapses, R!Next
<1>3. ASSUME NEW t \in Tasks, ClientDelete(t) PROVE UNCHANGED table
  BY <1>3 DEF ClientDelete
<1>4. ASSUME NEW n \in Nodes, NEW c \in Links, OnProgress(n, c) PROVE R!Next \/ UNCHANGED table
  <2>1. Head(link[n][c].up) \in Ups /\ Head(link[n][c].up).type = "progress"
    BY <1>4, TakenIsSent DEF OnProgress
  <2> QED
    BY <1>4, <2>1 DEF OnProgress, Ups, R!Next
<1>5. ASSUME NEW n \in Nodes, NEW c \in Links, OnResult(n, c) PROVE R!Next \/ UNCHANGED table
  <2> DEFINE m == Head(link[n][c].up)
  <2>1. m \in Ups /\ m.type = "result"
    BY <1>5, TakenIsSent DEF OnResult
  <2>2. m.task \in Tasks /\ m.info \in {"succeeded", "failed"}
    BY <2>1 DEF Ups
  <2>3. R!OnResult(m.task, m.attempt, m.info) \/ UNCHANGED table
    BY <1>5 DEF OnResult, R!OnResult
  <2> HIDE DEF m
  <2> QED
    BY <2>1, <2>2, <2>3 DEF Ups, R!Next
<1>6. ASSUME NEW n \in Nodes, NEW c \in Links, OnLeave(n, c) PROVE R!Next \/ UNCHANGED table
  BY <1>6, LoseNodeStep DEF OnLeave
<1>7. ASSUME StepSchedule PROVE R!Next \/ UNCHANGED table
  <2>1. PICK S \in SUBSET R!Has({"queued"}) :
           \E asg \in [S -> ReadyNodes], ord \in R!QueueOrders :
              R!IsGreedy(asg, ReadyNodes, ord) /\ R!Assign(asg)
    BY <1>7 DEF StepSchedule
  <2>2. CASE S # {}
    <3>1. ReadyNodes \in SUBSET Nodes
      BY DEF ReadyNodes
    <3>2. R!SchedulePending(ReadyNodes)
      BY <2>1, <2>2 DEF R!SchedulePending
    <3> QED
      BY <3>1, <3>2 DEF R!Next
  <2>3. CASE S = {}
    BY <2>1, <2>3 DEF R!Assign, R!TypeOK, table
  <2> QED
    BY <2>2, <2>3
<1>8. ASSUME StepAssign \/ StepKick \/ StepLost PROVE R!Next \/ UNCHANGED table
  <2>1. Head(loop).node \in Nodes
    BY <1>8, HeadIsOp DEF StepAssign, StepKick, StepLost, At, Ops
  <2> QED
    BY <1>8, <2>1, LoseNodeStep DEF StepAssign, StepKick, StepLost
<1>9. ASSUME StepDelete PROVE R!Next \/ UNCHANGED table
  <2>1. Head(loop).task \in Tasks
    BY <1>9, HeadIsOp DEF StepDelete, At, Ops
  <2> QED
    BY <1>9, <2>1 DEF StepDelete, R!Next
<1>10. ASSUME StepCompact \/ StepClear \/ StepExpire \/ ServerRestart PROVE R!Next \/ UNCHANGED table
  BY <1>10 DEF StepCompact, StepClear, StepExpire, ServerRestart, R!Next
<1>11. ASSUME NEW n \in Nodes, NEW c \in Links,
              OnHeartbeat(n, c) \/ OnDisconnect(n, c) \/ Accepted(n, c) \/ AcceptFails(n, c)
       PROVE  UNCHANGED table
  BY <1>11 DEF OnHeartbeat, OnDisconnect, Accepted, AcceptFails
<1>12. ASSUME NEW n \in Nodes, Kick(n) \/ HeartbeatLate(n) \/ GraceEnds(n) PROVE UNCHANGED table
  BY <1>12 DEF Kick, HeartbeatLate, GraceEnds
<1>13. ASSUME NEW n \in Nodes, AgentStep(n) PROVE UNCHANGED table
  BY <1>13 DEF AgentStep, AgentRegister, AgentConnect, AgentHeartbeat, AgentRefuses, AgentAccepts,
              AgentRevoked, JobBegins, JobReports, JobCancelled, JobLeaves,
              AgentDrops, AgentCrash, AgentLeave, Dies
<1>14. ASSUME StepRevoke \/ StepReady \/ Resume \/ Tick \/ ClearQueue PROVE UNCHANGED table
  BY <1>14 DEF StepRevoke, StepReady, Resume, Tick, ClearQueue
<1>15. CASE UNCHANGED vars
  BY <1>15 DEF vars
<1> QED
  BY <1>1, <1>2, <1>3, <1>4, <1>5, <1>6, <1>7, <1>8, <1>9, <1>10, <1>11, <1>12, <1>13, <1>14, <1>15
     DEF Next, OnMessage, LoopStep

-----------------------------------------------------------------------------
(***************************************************************************)
(* Types                                                                   *)
(***************************************************************************)
\* Attempt ids are only ever added, and only by a scheduling pass.
LEMMA IssuedStays ==
    ASSUME [Next]_vars
    PROVE  UNCHANGED issued \/ StepSchedule
<1> USE DEF R!Submit, R!Cancel, R!LeaseLapses, R!MarkRunning, R!OnResult, R!Retry, R!Commit,
            R!OnNodeLost, R!LoseNodes, R!Delete, R!Clear, R!ExpireLeases, R!Restart, LoseNode, table
<1>1. ASSUME NEW t \in Tasks, \/ \E k \in Keys : ClientSubmit(t, k)
                             \/ ClientCancel(t) \/ ClientDelete(t) \/ LeaseLapses(t)
      PROVE  UNCHANGED issued
  BY <1>1 DEF ClientSubmit, ClientCancel, ClientDelete, LeaseLapses
<1>2. ASSUME NEW n \in Nodes, NEW c \in Links, \/ OnMessage(n, c) \/ OnDisconnect(n, c)
                                                \/ Accepted(n, c) \/ AcceptFails(n, c)
      PROVE  UNCHANGED issued
  BY <1>2 DEF OnMessage, OnHeartbeat, OnProgress, OnResult, OnLeave, OnDisconnect, Accepted, AcceptFails
<1>3. ASSUME NEW n \in Nodes, Kick(n) \/ HeartbeatLate(n) \/ GraceEnds(n) \/ AgentStep(n)
      PROVE  UNCHANGED issued
  BY <1>3 DEF Kick, HeartbeatLate, GraceEnds, AgentStep, AgentRegister, AgentConnect,
              AgentHeartbeat, AgentRefuses, AgentAccepts, AgentRevoked, JobBegins, JobReports,
              JobCancelled, JobLeaves, AgentDrops, AgentCrash, AgentLeave, Dies
<1>4. CASE \/ StepAssign \/ StepRevoke \/ StepReady \/ StepCompact \/ StepDelete \/ StepClear
           \/ StepKick \/ StepLost \/ StepExpire
  BY <1>4 DEF StepAssign, StepRevoke, StepReady, StepCompact, StepDelete, StepClear, StepKick,
              StepLost, StepExpire
<1>5. CASE Resume \/ Tick \/ ClearQueue \/ ServerRestart \/ UNCHANGED vars
  BY <1>5 DEF Resume, Tick, ClearQueue, ServerRestart, vars
<1> QED
  BY <1>1, <1>2, <1>3, <1>4, <1>5 DEF Next, LoopStep

\* With no attempt issued the sets of messages and the like are the same.
LEMMA SameSets ==
    ASSUME UNCHANGED issued
    PROVE  Ops' = Ops /\ Downs' = Downs /\ Ups' = Ups /\ Jobs' = Jobs
  BY DEF Ops, Downs, Ups, Jobs

\* With attempts added they grow.
LEMMA SetsGrow ==
    ASSUME R!TypeOK, R!TypeOK', \A t \in Tasks : issued[t] <= issued'[t]
    PROVE  Ops \subseteq Ops' /\ Downs \subseteq Downs' /\ Ups \subseteq Ups' /\ Jobs \subseteq Jobs'
<1>1. \A t \in Tasks : issued[t] \in Nat /\ issued'[t] \in Nat
  BY DEF R!TypeOK
<1>2. \A t \in Tasks : \A a \in 1..issued[t] : a \in 1..issued'[t]
  BY <1>1
<1>3. Ops \subseteq Ops'
  BY <1>2 DEF Ops
<1>4. Downs \subseteq Downs'
  BY <1>2 DEF Downs
<1>5. Ups \subseteq Ups'
  BY <1>2 DEF Ups
<1>6. Jobs \subseteq Jobs'
  BY <1>2 DEF Jobs
<1> QED
  BY <1>3, <1>4, <1>5, <1>6

\* The operations of the roster keep its rows.
LEMMA RosterOperations ==
    ASSUME roster \in [Nodes -> RosterRow], NEW n \in Nodes
    PROVE  /\ \A status \in {"ready", "busy", "offline"}, current \in Tasks \cup {NoTask} :
                 SetStatus(roster, n, status, current) \in [Nodes -> RosterRow]
           /\ Removed(roster, n) \in [Nodes -> RosterRow]
           /\ Registered(roster, n) \in [Nodes -> RosterRow]
           /\ \A m : m.task \in Tasks \cup {NoTask} /\ m.info \in {"busy", "ready"} =>
                 Heartbeat(roster, n, m) \in [Nodes -> RosterRow]
           /\ [roster EXCEPT ![n].fresh = FALSE] \in [Nodes -> RosterRow]
           /\ [roster EXCEPT ![n].away = "over"] \in [Nodes -> RosterRow]
<1> USE DEF RosterRow
<1>1. ASSUME NEW status \in {"ready", "busy", "offline"}, NEW current \in Tasks \cup {NoTask}
      PROVE  SetStatus(roster, n, status, current) \in [Nodes -> RosterRow]
  BY DEF SetStatus
<1>2. Removed(roster, n) \in [Nodes -> RosterRow]
  <2> DEFINE row == [roster[n] EXCEPT !.status = "offline", !.current = NoTask, !.away = Away(n)]
  <2>1. row \in RosterRow
    BY DEF Away
  <2>2. Removed(roster, n) = IF roster[n].status = "absent" THEN roster ELSE [roster EXCEPT ![n] = row]
    BY DEF Removed
  <2> HIDE DEF row
  <2> QED
    BY <2>1, <2>2
<1>3. Registered(roster, n) \in [Nodes -> RosterRow]
  BY DEF Registered
<1>4. ASSUME NEW m, m.task \in Tasks \cup {NoTask}, m.info \in {"busy", "ready"}
      PROVE  Heartbeat(roster, n, m) \in [Nodes -> RosterRow]
  <2> DEFINE row == [roster[n] EXCEPT !.status = m.info, !.current = m.task, !.fresh = TRUE]
  <2>1. roster[n] \in RosterRow
    OBVIOUS
  <2>2. row \in RosterRow
    BY <1>4, <2>1
  <2>3. Heartbeat(roster, n, m) = IF roster[n].status = "absent" THEN roster ELSE [roster EXCEPT ![n] = row]
    BY DEF Heartbeat
  <2> HIDE DEF row, RosterRow
  <2> QED
    BY <2>2, <2>3
<1>5. /\ [roster EXCEPT ![n].fresh = FALSE] \in [Nodes -> RosterRow]
      /\ [roster EXCEPT ![n].away = "over"] \in [Nodes -> RosterRow]
  OBVIOUS
<1> QED
  BY <1>1, <1>2, <1>3, <1>4, <1>5

LEMMA RosterStep ==
    ASSUME R!TypeOK, ServerTypes, [Next]_vars
    PROVE  RosterTypes'
<1>0. roster \in [Nodes -> RosterRow] /\ token \in [Nodes -> BOOLEAN] /\ conns \in [Nodes -> Links \cup {NoLink}]
  BY DEF ServerTypes, RosterTypes
<1> DEFINE RosterKept == roster' \in [Nodes -> RosterRow]
           MapKept == token' \in [Nodes -> BOOLEAN] /\ conns' \in [Nodes -> Links \cup {NoLink}]
<1>1. UNCHANGED roster => RosterKept
  BY <1>0
<1>2. UNCHANGED <<token, conns>> => MapKept
  BY <1>0
<1>3. \A f \in [Nodes -> RosterRow] : roster' = f => RosterKept
  OBVIOUS
<1>4. ASSUME NEW n \in Nodes
      PROVE  /\ \A v \in BOOLEAN : [token EXCEPT ![n] = v] \in [Nodes -> BOOLEAN]
             /\ \A c \in Links \cup {NoLink} : [conns EXCEPT ![n] = c] \in [Nodes -> Links \cup {NoLink}]
  BY <1>0
<1> HIDE DEF RosterKept, MapKept
<1>6. ASSUME NEW t \in Tasks, \/ \E k \in Keys : ClientSubmit(t, k)
                             \/ ClientCancel(t) \/ ClientDelete(t) \/ LeaseLapses(t)
      PROVE  RosterKept /\ MapKept
  BY <1>1, <1>2, <1>6 DEF ClientSubmit, ClientCancel, ClientDelete, LeaseLapses, server
<1>7. ASSUME NEW n \in Nodes, NEW c \in Links, \/ OnMessage(n, c) \/ OnDisconnect(n, c)
                                                \/ Accepted(n, c) \/ AcceptFails(n, c)
      PROVE  RosterKept /\ MapKept
  <2>1. CASE OnHeartbeat(n, c)
    <3>1. Head(link[n][c].up) \in Ups /\ Head(link[n][c].up).type = "heartbeat"
      BY <2>1, TakenIsSent DEF OnHeartbeat
    <3>2. Head(link[n][c].up).task \in Tasks \cup {NoTask} /\ Head(link[n][c].up).info \in {"busy", "ready"}
      BY <3>1 DEF Ups
    <3> QED
      BY <1>0, <1>2, <1>3, <2>1, <3>2, RosterOperations DEF OnHeartbeat
  <2>2. CASE OnProgress(n, c)
    BY <1>1, <1>2, <2>2 DEF OnProgress, server
  <2>3. CASE OnResult(n, c)
    BY <1>0, <1>1, <1>2, <1>3, <2>3, RosterOperations DEF OnResult
  <2>4. CASE OnLeave(n, c)
    BY <1>0, <1>2, <1>3, <2>4, RosterOperations DEF OnLeave
  <2>5. CASE OnDisconnect(n, c)
    <3>1. UNCHANGED roster /\ UNCHANGED token /\ conns' \in [Nodes -> Links \cup {NoLink}]
      BY <1>0, <1>4, <2>5 DEF OnDisconnect
    <3> QED
      BY <1>0, <1>1, <3>1 DEF MapKept
  <2>6. CASE Accepted(n, c)
    BY <1>0, <1>1, <1>4, <2>6 DEF Accepted, MapKept
  <2>7. CASE AcceptFails(n, c)
    BY <1>1, <1>2, <2>7 DEF AcceptFails, server
  <2> QED
    BY <1>7, <2>1, <2>2, <2>3, <2>4, <2>5, <2>6, <2>7 DEF OnMessage
<1>8. ASSUME NEW n \in Nodes, Kick(n) \/ HeartbeatLate(n) \/ GraceEnds(n) PROVE RosterKept /\ MapKept
  BY <1>0, <1>1, <1>2, <1>3, <1>8, RosterOperations DEF Kick, HeartbeatLate, GraceEnds
<1>9. ASSUME NEW n \in Nodes, AgentStep(n) PROVE RosterKept /\ MapKept
  <2>1. CASE AgentRegister(n)
    BY <1>0, <1>3, <1>4, <2>1, RosterOperations DEF AgentRegister, MapKept
  <2>2. CASE AgentConnect(n)
    BY <1>1, <1>2, <2>2 DEF AgentConnect, server
  <2>3. CASE AgentCrash(n) \/ AgentLeave(n)
    BY <1>0, <1>1, <1>4, <2>3 DEF AgentCrash, AgentLeave, Dies, MapKept
  <2>4. CASE AgentHeartbeat(n) \/ AgentDrops(n)
    BY <1>1, <1>2, <2>4 DEF AgentHeartbeat, AgentDrops, server
  <2>5. CASE \E c \in Links : AgentRefuses(n, c) \/ AgentAccepts(n, c) \/ AgentRevoked(n, c)
    BY <1>1, <1>2, <2>5 DEF AgentRefuses, AgentAccepts, AgentRevoked, server
  <2>6. CASE \E j \in jobs[n] : JobStep(n, j)
    BY <1>1, <1>2, <2>6 DEF JobStep, JobBegins, JobReports, JobCancelled, JobLeaves, server
  <2> QED
    BY <1>9, <2>1, <2>2, <2>3, <2>4, <2>5, <2>6 DEF AgentStep, JobStep
<1>10. ASSUME LoopStep PROVE RosterKept /\ MapKept
  <2>1. CASE \/ StepSchedule \/ StepRevoke \/ StepCompact \/ StepDelete \/ StepClear
             \/ StepLost \/ StepExpire
    BY <1>1, <1>2, <2>1
       DEF StepSchedule, StepRevoke, StepCompact, StepDelete, StepClear, StepLost, StepExpire
  <2>2. CASE StepAssign
    <3>1. Head(loop).node \in Nodes /\ Head(loop).task \in Tasks
      BY <2>2, HeadIsOp DEF StepAssign, At, Ops
    <3> QED
      BY <1>0, <1>1, <1>2, <1>3, <2>2, <3>1, RosterOperations DEF StepAssign
  <2>3. CASE StepReady \/ StepKick
    <3>1. Head(loop).node \in Nodes
      BY <2>3, HeadIsOp DEF StepReady, StepKick, At, Ops
    <3> QED
      BY <1>0, <1>2, <1>3, <1>4, <2>3, <3>1, RosterOperations DEF StepReady, StepKick, MapKept
  <2> QED
    BY <1>10, <2>1, <2>2, <2>3 DEF LoopStep
<1>11. ASSUME Resume \/ ClearQueue \/ UNCHANGED vars PROVE RosterKept /\ MapKept
  BY <1>1, <1>2, <1>11 DEF Resume, ClearQueue, vars, server
<1>12. ASSUME Tick PROVE RosterKept /\ MapKept
  <2>1. Swept \in [Nodes -> RosterRow]
    BY <1>0 DEF Swept, RosterRow, Absent, Away
  <2> QED
    BY <1>2, <1>12, <2>1 DEF Tick, RosterKept
<1>13. ASSUME ServerRestart PROVE RosterKept /\ MapKept
  BY <1>0, <1>1, <1>13 DEF ServerRestart, MapKept
<1>14. RosterKept /\ MapKept
  BY <1>6, <1>7, <1>8, <1>9, <1>10, <1>11, <1>12, <1>13 DEF Next
<1> QED
  BY <1>14 DEF RosterTypes, RosterKept, MapKept

LEMMA OpsMade ==
    /\ Schedule \in Ops /\ Op("expire", NoNode, NoTask, 0) \in Ops /\ Op("clear", NoNode, NoTask, 0) \in Ops
    /\ \A n \in Nodes : Op("lost", n, NoTask, 0) \in Ops /\ Op("kick", n, NoTask, 0) \in Ops
    /\ \A n \in Nodes, t \in Tasks \cup {NoTask} : Op("ready", n, t, 0) \in Ops
    /\ Op("compact", NoNode, NoTask, 0) \in Ops
    /\ \A t \in Tasks : Op("delete", NoNode, t, 0) \in Ops
    /\ \A n \in Nodes, t \in Tasks, a \in Nat :
          Op("tell", n, t, a) \in Ops /\ Op("revoke", n, t, a) \in Ops
  BY DEF Op, Ops, Schedule

LEMMA OpFields ==
    \A op, n, t, a : /\ Op(op, n, t, a).op = op /\ Op(op, n, t, a).node = n
                     /\ Op(op, n, t, a).task = t /\ Op(op, n, t, a).attempt = a
  BY DEF Op

\* Sequences of two and of three.
LEMMA ShortSeqs ==
    ASSUME NEW S
    PROVE  /\ \A x, y \in S : <<x, y>> \in Seq(S)
           /\ \A x, y, z \in S : <<x, y, z>> \in Seq(S)
  OBVIOUS

\* What is left to do after a result is two steps, or three.
LEMMA WrapupIs ==
    ASSUME NEW n \in Nodes, NEW outcome, NEW rest \in Wrapup(n, outcome)
    PROVE  \/ rest = <<Op("ready", n, NoTask, 0), Schedule>>
           \/ rest = <<Op("compact", NoNode, NoTask, 0), Op("ready", n, NoTask, 0), Schedule>>
  BY DEF Wrapup

LEMMA FiniteTasks ==
    /\ IsFiniteSet(Tasks)
    /\ \A S \in SUBSET Tasks : IsFiniteSet(S)
    /\ \A states : IsFiniteSet(R!Has(states)) /\ R!Has(states) \subseteq Tasks
<1>1. IsFiniteSet(Tasks)
  <2>1. R!IsFiniteSet(Tasks)
    BY DispatchTableAssumption DEF R!RouterAssumption
  <2> QED
    BY <2>1 DEF R!IsFiniteSet, IsFiniteSet
<1>2. \A S \in SUBSET Tasks : IsFiniteSet(S)
  BY <1>1, FS_Subset
<1>3. \A states : R!Has(states) \in SUBSET Tasks
  BY DEF R!Has
<1> QED
  BY <1>1, <1>2, <1>3

LEMMA FunctionIsSeq ==
    ASSUME NEW n \in Nat, NEW S, NEW f \in [1..n -> S]
    PROVE  f \in Seq(S) /\ Len(f) = n
<1>1. f \in Seq(S)
  BY SeqDef
<1> QED
  BY <1>1, LenProperties

\* A sequence put together of two.
LEMMA ConcatIs ==
    ASSUME NEW S, NEW p \in Seq(S), NEW q \in Seq(S), NEW r, r = p \o q
    PROVE  /\ r \in Seq(S) /\ Len(r) = Len(p) + Len(q) /\ Len(p) \in Nat /\ Len(q) \in Nat
           /\ DOMAIN p = 1..Len(p) /\ DOMAIN q = 1..Len(q) /\ DOMAIN r = 1..Len(p) + Len(q)
           /\ \A i \in 1..Len(p) : r[i] = p[i] /\ i \in DOMAIN r
           /\ \A i \in 1..Len(q) : r[Len(p) + i] = q[i] /\ Len(p) + i \in DOMAIN r
           /\ \A i \in DOMAIN r : i \in 1..Len(p) \/ i - Len(p) \in 1..Len(q)
<1>1. /\ Len(p) \in Nat /\ Len(q) \in Nat
      /\ DOMAIN p = 1..Len(p) /\ DOMAIN q = 1..Len(q)
  BY LenProperties
<1>2. /\ r \in Seq(S) /\ Len(r) = Len(p) + Len(q)
      /\ \A i \in 1..Len(p) + Len(q) : r[i] = IF i <= Len(p) THEN p[i] ELSE q[i - Len(p)]
  BY ConcatProperties, Zenon
<1>3. DOMAIN r = 1..Len(p) + Len(q)
  BY <1>2, LenProperties
<1>5. \A i \in 1..Len(p) : r[i] = p[i] /\ i \in DOMAIN r
  BY <1>1, <1>2, <1>3
<1>6. ASSUME NEW i \in 1..Len(q) PROVE r[Len(p) + i] = q[i] /\ Len(p) + i \in DOMAIN r
  <2>1. Len(p) + i \in 1..Len(p) + Len(q) /\ ~(Len(p) + i <= Len(p)) /\ (Len(p) + i) - Len(p) = i
    BY <1>1
  <2> QED
    BY <1>2, <1>3, <2>1
<1>7. \A i \in DOMAIN r : i \in 1..Len(p) \/ i - Len(p) \in 1..Len(q)
  BY <1>1, <1>3
<1> QED
  BY <1>1, <1>2, <1>3, <1>5, <1>6, <1>7

LEMMA OrderFacts ==
    ASSUME NEW S, IsFiniteSet(S), NEW order \in SetToSeqs(S)
    PROVE  /\ Len(order) \in Nat /\ DOMAIN order = 1..Len(order)
           /\ \A i \in DOMAIN order : order[i] \in S
           /\ \A i, j \in DOMAIN order : order[i] = order[j] => i = j
           /\ \A x \in S : \E i \in DOMAIN order : order[i] = x
<1>1. Cardinality(S) \in Nat
  BY FS_CardinalityType
<1>2. /\ order \in [1..Cardinality(S) -> S]
      /\ \A i, j \in 1..Cardinality(S) : order[i] = order[j] => i = j
  BY DEF SetToSeqs
<1>3. \A x \in S : \E i \in 1..Cardinality(S) : order[i] = x
  <2> DEFINE D == 1..Cardinality(S)
  <2>1. order \in Injection(D, S)
    BY <1>2 DEF Injection, IsInjective
  <2>2. Cardinality(D) = Cardinality(S)
    BY <1>1, FS_Interval
  <2> HIDE DEF D
  <2>3. order \in Surjection(D, S)
    BY <2>1, <2>2, FS_Injection
  <2> QED
    BY <2>3 DEF Surjection, D
<1>4. Len(order) = Cardinality(S)
  BY <1>1, <1>2, FunctionIsSeq
<1> QED
  BY <1>1, <1>2, <1>3, <1>4

\* The assignments of a scheduling pass: one for each task it takes.
LEMMA BatchFacts ==
    ASSUME NEW S \in SUBSET R!Has({"queued"}), NEW asg \in [S -> ReadyNodes], NEW order \in SetToSeqs(S)
    PROVE  /\ Len(order) \in Nat /\ DOMAIN order = 1..Len(order)
           /\ DOMAIN Batch(asg, order) = 1..Len(order)
           /\ \A i \in 1..Len(order) :
                 /\ order[i] \in S /\ order[i] \in Tasks /\ asg[order[i]] \in Nodes
                 /\ Batch(asg, order)[i] = Op("assign", asg[order[i]], order[i], issued[order[i]] + 1)
           /\ \A i, j \in 1..Len(order) : order[i] = order[j] => i = j
<1>1. S \in SUBSET Tasks /\ ReadyNodes \subseteq Nodes
  BY DEF R!Has, ReadyNodes
<1>2. IsFiniteSet(S)
  BY <1>1, FiniteTasks
<1>3. /\ Len(order) \in Nat /\ DOMAIN order = 1..Len(order)
      /\ \A i \in DOMAIN order : order[i] \in S
      /\ \A i, j \in DOMAIN order : order[i] = order[j] => i = j
  BY <1>2, OrderFacts
<1>4. /\ DOMAIN Batch(asg, order) = DOMAIN order
      /\ \A i \in DOMAIN order :
            Batch(asg, order)[i] = Op("assign", asg[order[i]], order[i], issued[order[i]] + 1)
  BY DEF Batch
<1> QED
  BY <1>1, <1>3, <1>4

LEMMA LoopTypesStep ==
    ASSUME R!TypeOK, R!TypeOK', ServerTypes, [Next]_vars, \A t \in Tasks : issued[t] <= issued'[t],
           \A t \in Tasks : rows[t].state \in R!InFlight => rows[t].node \in Nodes
    PROVE  LoopTypes'
<1>0. loop \in Seq(Ops) /\ parked \in SUBSET Seq(Ops)
  BY DEF ServerTypes, LoopTypes
<1> DEFINE Kept == loop' \in Seq(Ops) /\ parked' \in SUBSET Seq(Ops)
<1>1. ASSUME NEW x \in Seq(Ops) PROVE x \in Seq(Ops')
  <2>1. Ops \subseteq Ops'
    BY SetsGrow
  <2>2. x \in [1..Len(x) -> Ops] /\ Len(x) \in Nat
    BY LenProperties
  <2>3. x \in [1..Len(x) -> Ops']
    BY <2>1, <2>2
  <2> QED
    BY <2>2, <2>3, FunctionIsSeq
<1>2. Kept => LoopTypes'
  BY <1>1 DEF LoopTypes
<1>3. \A rest \in Seq(Ops) : GoOn(rest) \/ (loop' = rest /\ UNCHANGED parked) => Kept
  BY <1>0, EmptySeq DEF GoOn
<1>4. \A o \in Ops : <<o>> \in Seq(Ops)
  OBVIOUS
<1>5. <<>> \in Seq(Ops)
  BY EmptySeq
<1>6. UNCHANGED <<loop, parked>> => Kept
  BY <1>0
<1>7. loop # <<>> => Rest \in Seq(Ops)
  BY HeadIsOp
<1> HIDE DEF Kept
<1>8. \A t \in Tasks : rows[t].attempt \in Nat /\ rows[t].node \in Nodes \cup {NoNode}
  BY DEF R!TypeOK, R!Row
<1>9. ASSUME NEW t \in Tasks, rows[t].state \in R!InFlight
      PROVE  /\ Op("revoke", rows[t].node, t, rows[t].attempt) \in Ops
             /\ Op("ready", rows[t].node, t, 0) \in Ops
  BY <1>8, <1>9, OpsMade
<1>10. ASSUME NEW t \in Tasks, NEW k \in Keys, ClientSubmit(t, k) PROVE Kept
  BY <1>3, <1>4, <1>10, OpsMade DEF ClientSubmit
<1>11. ASSUME NEW t \in Tasks, ClientCancel(t) PROVE Kept
  <2>1. CASE rows[t].node = NoNode
    BY <1>3, <1>5, <1>11, <2>1 DEF ClientCancel
  <2>2. CASE rows[t].node # NoNode
    <3>1. /\ Op("tell", rows[t].node, t, rows[t].attempt) \in Ops
          /\ Op("ready", rows[t].node, t, 0) \in Ops
      BY <1>8, <2>2, OpsMade
    <3>2. <<Op("tell", rows[t].node, t, rows[t].attempt), Op("ready", rows[t].node, t, 0)>> \in Seq(Ops)
      BY <3>1
    <3> QED
      BY <1>3, <1>11, <2>2, <3>2 DEF ClientCancel
  <2> QED
    BY <2>1, <2>2
<1>12. ASSUME NEW t \in Tasks, ClientDelete(t) PROVE Kept
  <2>1. <<Op("delete", NoNode, t, 0)>> \in Seq(Ops)
    BY <1>4, OpsMade
  <2>2. rows[t].state \in R!InFlight => Revocation(t) \in Seq(Ops)
    BY <1>9 DEF Revocation
  <2>3. \A x \in Seq(Ops) : x \o <<Op("delete", NoNode, t, 0)>> \in Seq(Ops)
    BY <2>1, ConcatProperties
  <2> QED
    BY <1>3, <1>5, <1>12, <2>2, <2>3 DEF ClientDelete
<1>13. ASSUME ClearQueue PROVE Kept
  <2>1. PICK order \in SetToSeqs(R!Has(R!InFlight)) :
           loop' = [i \in 1..2 * Len(order) |-> Revocation(order[(i + 1) \div 2])[2 - (i % 2)]]
                   \o <<Op("clear", NoNode, NoTask, 0)>>
    BY <1>13 DEF ClearQueue
  <2> DEFINE ops == [i \in 1..2 * Len(order) |-> Revocation(order[(i + 1) \div 2])[2 - (i % 2)]]
  <2>2. /\ Len(order) \in Nat /\ DOMAIN order = 1..Len(order)
        /\ \A i \in 1..Len(order) : order[i] \in Tasks /\ rows[order[i]].state \in R!InFlight
    <3>1. IsFiniteSet(R!Has(R!InFlight))
      BY FiniteTasks
    <3> QED
      BY <3>1, OrderFacts DEF R!Has
  <2>3. \A i \in 1..2 * Len(order) : ops[i] \in Ops
    <3> TAKE i \in 1..2 * Len(order)
    <3>1. 2 - (i % 2) \in {1, 2} /\ (i + 1) \div 2 \in 1..Len(order)
      BY <2>2
    <3>2. \A k \in 1..Len(order) : Revocation(order[k])[1] \in Ops /\ Revocation(order[k])[2] \in Ops
      BY <1>9, <2>2 DEF Revocation
    <3> QED
      BY <3>1, <3>2
  <2>4. ops \in [1..2 * Len(order) -> Ops] /\ 2 * Len(order) \in Nat
    BY <2>2, <2>3
  <2>5. loop' = ops \o <<Op("clear", NoNode, NoTask, 0)>>
    BY <2>1
  <2> HIDE DEF ops
  <2>6. ops \in Seq(Ops)
    BY <2>4, FunctionIsSeq
  <2>7. <<Op("clear", NoNode, NoTask, 0)>> \in Seq(Ops)
    BY <1>4, OpsMade
  <2>8. loop' \in Seq(Ops)
    BY <2>5, <2>6, <2>7, ConcatProperties
  <2> QED
    BY <1>3, <1>13, <2>8 DEF ClearQueue
<1>14. ASSUME Tick PROVE Kept
  <2>1. PICK order \in SetToSeqs(Stale) :
           loop' = [i \in DOMAIN order |-> Op("lost", order[i], NoTask, 0)]
                   \o <<Op("expire", NoNode, NoTask, 0), Schedule>>
    BY <1>14 DEF Tick
  <2> DEFINE ops == [i \in DOMAIN order |-> Op("lost", order[i], NoTask, 0)]
             rest == <<Op("expire", NoNode, NoTask, 0), Schedule>>
  <2>2. Len(order) \in Nat /\ DOMAIN order = 1..Len(order) /\ \A i \in DOMAIN order : order[i] \in Nodes
    BY FS_Subset, DispatchAssumption, OrderFacts DEF Stale
  <2>3. ops \in [1..Len(order) -> Ops] /\ rest \in Seq(Ops) /\ loop' = ops \o rest
    BY <2>1, <2>2, OpsMade
  <2> HIDE DEF ops, rest
  <2>4. ops \in Seq(Ops)
    BY <2>2, <2>3, FunctionIsSeq
  <2>5. loop' \in Seq(Ops)
    BY <2>3, <2>4, ConcatProperties
  <2> QED
    BY <1>3, <1>14, <2>5 DEF Tick
<1>15. ASSUME NEW n \in Nodes, Kick(n) PROVE Kept
  <2>1. <<Op("kick", n, NoTask, 0)>> \in Seq(Ops)
    BY <1>4, OpsMade
  <2> QED
    BY <1>3, <1>15, <2>1 DEF Kick
<1>16. ASSUME NEW n \in Nodes, NEW c \in Links, \/ OnMessage(n, c) \/ OnDisconnect(n, c)
                                                 \/ Accepted(n, c) \/ AcceptFails(n, c)
       PROVE  Kept
  <2>1. <<Schedule>> \in Seq(Ops)
    BY <1>4, OpsMade
  <2>2. CASE OnResult(n, c)
    <3>1. ASSUME NEW outcome, NEW rest \in Wrapup(n, outcome) PROVE rest \in Seq(Ops)
      <4> DEFINE ready == Op("ready", n, NoTask, 0)
                 compact == Op("compact", NoNode, NoTask, 0)
      <4>1. ready \in Ops /\ compact \in Ops /\ Schedule \in Ops
        BY OpsMade
      <4>2. rest = <<ready, Schedule>> \/ rest = <<compact, ready, Schedule>>
        BY WrapupIs
      <4> HIDE DEF ready, compact
      <4>3. <<ready, Schedule>> \in Seq(Ops) /\ <<compact, ready, Schedule>> \in Seq(Ops)
        BY <4>1, ShortSeqs
      <4> QED
        BY <4>2, <4>3
    <3> QED
      BY <1>3, <2>1, <2>2, <3>1 DEF OnResult
  <2> QED
    BY <1>3, <1>6, <1>16, <2>1, <2>2
       DEF OnMessage, OnHeartbeat, OnProgress, OnLeave, OnDisconnect, Accepted, AcceptFails, server
<1>17. ASSUME NEW n \in Nodes, HeartbeatLate(n) \/ GraceEnds(n) \/ AgentStep(n) PROVE Kept
  BY <1>6, <1>17 DEF HeartbeatLate, GraceEnds, AgentStep, AgentRegister, AgentConnect,
              AgentHeartbeat, AgentRefuses, AgentAccepts, AgentRevoked, JobBegins, JobReports,
              JobCancelled, JobLeaves, AgentDrops, AgentCrash, AgentLeave, Dies, server
<1>18. ASSUME NEW t \in Tasks, LeaseLapses(t) PROVE Kept
  BY <1>6, <1>18 DEF LeaseLapses, server
<1>19. ASSUME StepAssign \/ StepRevoke PROVE Kept
  <2>1. Rest \in Seq(Ops)
    BY <1>7, <1>19 DEF StepAssign, StepRevoke, At
  <2> QED
    BY <1>3, <1>5, <1>19, <2>1 DEF StepAssign, StepRevoke
<1>20. ASSUME StepReady \/ StepDelete \/ StepClear \/ StepKick \/ StepLost \/ StepExpire PROVE Kept
  BY <1>3, <1>7, <1>20 DEF StepReady, StepDelete, StepClear, StepKick, StepLost, StepExpire, At
<1>25. ASSUME StepCompact PROVE Kept
  <2>1. loop # <<>> /\ Rest \in Seq(Ops)
    BY <1>7, <1>25 DEF StepCompact, At
  <2>2. [loop EXCEPT ![1] = Schedule] \in Seq(Ops)
    <3>1. loop \in [1..Len(loop) -> Ops] /\ Len(loop) \in Nat /\ Schedule \in Ops
      BY <1>0, OpsMade, LenProperties
    <3>2. [loop EXCEPT ![1] = Schedule] \in [1..Len(loop) -> Ops]
      BY <3>1
    <3> QED
      BY <3>1, <3>2, FunctionIsSeq
  <2> QED
    BY <1>3, <1>25, <2>1, <2>2 DEF StepCompact
<1>21. ASSUME Resume PROVE Kept
  BY <1>0, <1>21 DEF Resume, Kept
<1>22. ASSUME ServerRestart \/ UNCHANGED vars PROVE Kept
  BY <1>0, <1>5, <1>6, <1>22 DEF ServerRestart, vars, server, Kept
<1>23. ASSUME StepSchedule PROVE LoopTypes'
  <2>1. PICK S \in SUBSET R!Has({"queued"}) : \E asg \in [S -> ReadyNodes], order \in SetToSeqs(S) :
           R!Assign(asg) /\ loop' = Batch(asg, order) \o Rest
    BY <1>23 DEF StepSchedule
  <2>2. PICK asg \in [S -> ReadyNodes], order \in SetToSeqs(S) :
           R!Assign(asg) /\ loop' = Batch(asg, order) \o Rest
    BY <2>1
  <2>3. /\ Len(order) \in Nat /\ DOMAIN Batch(asg, order) = 1..Len(order)
        /\ \A i \in 1..Len(order) :
              /\ order[i] \in S /\ order[i] \in Tasks /\ asg[order[i]] \in Nodes
              /\ Batch(asg, order)[i] = Op("assign", asg[order[i]], order[i], issued[order[i]] + 1)
    BY BatchFacts
  <2>4. \A t \in S : t \in Tasks => issued'[t] = issued[t] + 1 /\ issued[t] \in Nat
    BY <2>2 DEF R!Assign, R!TypeOK
  <2>5. ASSUME NEW i \in 1..Len(order) PROVE Batch(asg, order)[i] \in Ops'
    <3>1. /\ order[i] \in Tasks /\ asg[order[i]] \in Nodes /\ issued[order[i]] + 1 \in 1..issued'[order[i]]
          /\ issued[order[i]] + 1 \in Nat
      BY <2>3, <2>4
    <3>2. Op("assign", asg[order[i]], order[i], issued[order[i]] + 1) \in Ops'
      BY <3>1 DEF Op, Ops
    <3> QED
      BY <2>3, <3>2
  <2>6. Batch(asg, order) \in [1..Len(order) -> Ops']
    <3>1. Batch(asg, order) = [i \in DOMAIN Batch(asg, order) |-> Batch(asg, order)[i]]
      BY DEF Batch
    <3> QED
      BY <2>3, <2>5, <3>1
  <2>7. Batch(asg, order) \in Seq(Ops')
    BY <2>3, <2>6, FunctionIsSeq
  <2>8. Rest \in Seq(Ops')
    BY <1>1, <1>7, <1>23 DEF StepSchedule, At
  <2>9. loop' \in Seq(Ops')
    BY <2>2, <2>7, <2>8, ConcatProperties
  <2>10. parked' \in SUBSET Seq(Ops')
    BY <1>0, <1>1, <1>23 DEF StepSchedule
  <2> QED
    BY <2>9, <2>10 DEF LoopTypes
<1>24. Kept \/ StepSchedule
  BY <1>10, <1>11, <1>12, <1>13, <1>14, <1>15, <1>16, <1>17, <1>18, <1>19, <1>20, <1>21, <1>22, <1>25
     DEF Next, LoopStep
<1> QED
  BY <1>2, <1>23, <1>24

\* What happens on one websocket leaves the map of websockets one.
LEMMA SocketUpdates ==
    ASSUME LinkTypes, NEW n \in Nodes, NEW c \in Links
    PROVE  /\ \A e \in Socket : [link EXCEPT ![n][c] = e] \in [Nodes -> [Links -> Socket]]
           /\ \A m \in Ups : Up(n, c, m) \in [Nodes -> [Links -> Socket]]
           /\ \A m \in Downs : [link EXCEPT ![n][c].down = Append(@, m)] \in [Nodes -> [Links -> Socket]]
           /\ link[n][c].up # <<>> =>
                 [link EXCEPT ![n][c].up = Tail(@)] \in [Nodes -> [Links -> Socket]]
           /\ link[n][c].down # <<>> => Popped(n, c) \in [Nodes -> [Links -> Socket]]
           /\ [link EXCEPT ![n][c].served = FALSE] \in [Nodes -> [Links -> Socket]]
           /\ [link EXCEPT ![n][c].accepting = FALSE] \in [Nodes -> [Links -> Socket]]
           /\ [link EXCEPT ![n][c].accepting = FALSE, ![n][c].served = TRUE]
                 \in [Nodes -> [Links -> Socket]]
<1>1. link[n][c] \in Socket /\ link[n][c].up \in Seq(Ups) /\ link[n][c].down \in Seq(Downs)
  BY DEF LinkTypes, Socket
<1>2. ASSUME NEW e \in Socket PROVE [link EXCEPT ![n][c] = e] \in [Nodes -> [Links -> Socket]]
  BY DEF LinkTypes
<1>3. ASSUME NEW up \in Seq(Ups)
      PROVE  [link EXCEPT ![n][c].up = up] \in [Nodes -> [Links -> Socket]]
  <2>1. [link[n][c] EXCEPT !.up = up] \in Socket
    BY <1>1 DEF Socket
  <2> QED
    BY <2>1 DEF LinkTypes
<1>4. ASSUME NEW down \in Seq(Downs)
      PROVE  [link EXCEPT ![n][c].down = down] \in [Nodes -> [Links -> Socket]]
  <2>1. [link[n][c] EXCEPT !.down = down] \in Socket
    BY <1>1 DEF Socket
  <2> QED
    BY <2>1 DEF LinkTypes
<1>5. /\ [link EXCEPT ![n][c].served = FALSE] \in [Nodes -> [Links -> Socket]]
      /\ [link EXCEPT ![n][c].accepting = FALSE] \in [Nodes -> [Links -> Socket]]
      /\ [link EXCEPT ![n][c].accepting = FALSE, ![n][c].served = TRUE]
            \in [Nodes -> [Links -> Socket]]
  <2>1. /\ [link[n][c] EXCEPT !.served = FALSE] \in Socket
        /\ [link[n][c] EXCEPT !.accepting = FALSE] \in Socket
        /\ [link[n][c] EXCEPT !.accepting = FALSE, !.served = TRUE] \in Socket
    BY <1>1 DEF Socket
  <2>2. [link EXCEPT ![n][c].accepting = FALSE, ![n][c].served = TRUE]
           = [link EXCEPT ![n][c] = [link[n][c] EXCEPT !.accepting = FALSE, !.served = TRUE]]
    BY DEF LinkTypes
  <2> QED
    BY <2>1, <2>2 DEF LinkTypes
<1>6. /\ \A m \in Ups : Append(link[n][c].up, m) \in Seq(Ups)
      /\ \A m \in Downs : Append(link[n][c].down, m) \in Seq(Downs)
      /\ link[n][c].up # <<>> => Tail(link[n][c].up) \in Seq(Ups)
      /\ link[n][c].down # <<>> => Tail(link[n][c].down) \in Seq(Downs)
  BY <1>1, HeadTailProperties
<1> QED
  BY <1>2, <1>3, <1>4, <1>5, <1>6 DEF Up, Popped

\* The message an agent takes is one of those sent.
LEMMA ReceivedIsSent ==
    ASSUME ServerTypes, NEW n \in Nodes, NEW c \in Links, NEW type, Receives(n, c, type)
    PROVE  /\ Head(link[n][c].down) \in Downs
           /\ Head(link[n][c].down).type = type
           /\ link[n][c].down # <<>> /\ link[n][c].peer = "open"
  BY HeadTailProperties DEF Receives, Open, ServerTypes, LinkTypes, Socket

\* What is left of a socket whose connection breaks.
LEMMA DroppedTypes ==
    ASSUME LinkTypes, NEW n \in Nodes, NEW c \in Links, Dropped(n, c)
    PROVE  link' \in [Nodes -> [Links -> Socket]]
<1>1. PICK k \in 0..Len(link[n][c].up) :
         link' = [link EXCEPT ![n][c].peer = "gone", ![n][c].down = <<>>, ![n][c].up = SubSeq(@, 1, k)]
  BY DEF Dropped
<1>2. link[n][c] \in Socket
  BY DEF LinkTypes
<1>3. SubSeq(link[n][c].up, 1, k) \in Seq(Ups) /\ <<>> \in Seq(Downs)
  <2>1. \A i \in 1..k : link[n][c].up[i] \in Ups
    BY <1>2, ElementOfSeq, LenProperties DEF Socket
  <2>2. k \in Int
    BY <1>2, LenProperties DEF Socket
  <2> QED
    BY <2>1, <2>2, SubSeqProperties, EmptySeq
<1>4. [link[n][c] EXCEPT !.peer = "gone", !.down = <<>>, !.up = SubSeq(link[n][c].up, 1, k)] \in Socket
  BY <1>2, <1>3 DEF Socket
<1>5. link' = [link EXCEPT ![n][c] =
                 [link[n][c] EXCEPT !.peer = "gone", !.down = <<>>, !.up = SubSeq(link[n][c].up, 1, k)]]
  BY <1>1 DEF LinkTypes
<1> QED
  BY <1>4, <1>5, SocketUpdates

\* A longer list of attempts leaves every sequence what it was.
LEMMA SeqGrows ==
    ASSUME NEW A, NEW B, A \subseteq B
    PROVE  Seq(A) \subseteq Seq(B)
<1> SUFFICES ASSUME NEW x \in Seq(A) PROVE x \in Seq(B)
  OBVIOUS
<1>1. x \in [1..Len(x) -> A] /\ Len(x) \in Nat
  BY LenProperties
<1>2. x \in [1..Len(x) -> B]
  BY <1>1
<1> QED
  BY <1>1, <1>2, FunctionIsSeq

\* A job stays what it was when its entry is removed, but for the mark.
LEMMA RobbedJob ==
    ASSUME NEW i \in Jobs
    PROVE  /\ [i EXCEPT !.robbed = TRUE] \in Jobs
           /\ [i EXCEPT !.robbed = TRUE].task = i.task /\ [i EXCEPT !.robbed = TRUE].attempt = i.attempt
  BY DEF Jobs

LEMMA EntryCleared ==
    ASSUME NEW r \in [Nodes -> [Tasks -> Nat]], NEW n \in Nodes, NEW t \in Tasks
    PROVE  [r EXCEPT ![n][t] = 0] \in [Nodes -> [Tasks -> Nat]]
  OBVIOUS

\* A step of a job: it may send something up its websocket and remove the entry of its
\* task, and the jobs afterwards are those before, of the same attempts.
LEMMA JobStepFacts ==
    ASSUME ServerTypes, NEW n \in Nodes, NEW j \in jobs[n], JobStep(n, j)
    PROVE  /\ UNCHANGED <<faults, table, server>>
           /\ j.link \in Links
           /\ UNCHANGED link \/ \E m \in Ups : link' = Up(n, j.link, m)
           /\ \A k \in Nodes \ {n} : jobs'[k] = jobs[k] /\ running'[k] = running[k]
           /\ running' \in [Nodes -> [Tasks -> Nat]] /\ jobs' \in [Nodes -> SUBSET Jobs]
           /\ \E h : /\ \A i \in jobs[n] : h[i].task = i.task /\ h[i].attempt = i.attempt
                     /\ \A x \in jobs'[n] : \E i \in jobs[n] : x = h[i]
<1>0. running \in [Nodes -> [Tasks -> Nat]] /\ jobs \in [Nodes -> SUBSET Jobs]
  BY DEF ServerTypes, AgentTypes
<1>1. /\ j \in Jobs /\ j.link \in Links /\ j.task \in Tasks
      /\ Msg("progress", j.task, j.attempt, "") \in Ups
      /\ \A outcome \in {"succeeded", "failed"} : Msg("result", j.task, j.attempt, outcome) \in Ups
  <2>1. j \in Jobs
    BY <1>0
  <2>2. /\ j.task \in Tasks /\ j.attempt \in Nat /\ j.link \in Links
        /\ j.attempt \in 1..issued[j.task]
    BY <2>1 DEF Jobs
  <2>3. ASSUME NEW type \in {"progress", "result"}, NEW info \in {"", "succeeded", "failed"},
               type = "result" => info # ""
        PROVE  Msg(type, j.task, j.attempt, info) \in Ups
    BY <2>2, <2>3 DEF Msg, Ups
  <2> QED
    BY <2>1, <2>2, <2>3
<1>2. UNCHANGED <<faults, table, server>>
  BY DEF JobStep, JobBegins, JobReports, JobCancelled, JobLeaves
<1>3. UNCHANGED link \/ \E m \in Ups : link' = Up(n, j.link, m)
  BY <1>1 DEF JobStep, JobBegins, JobReports, JobCancelled, JobLeaves, Report
<1> DEFINE In(p) == [j EXCEPT !.phase = p]
           Robbed(i) == [i EXCEPT !.robbed = TRUE]
           Other(i) == IF i.task = j.task /\ i.attempt = running[n][j.task] THEN Robbed(i) ELSE i
           Phases == {"new", "begun", "cancelled", "reporting", "leaving"}
<1>4. \A p \in Phases : In(p) \in Jobs /\ In(p).task = j.task /\ In(p).attempt = j.attempt
  BY <1>1 DEF Jobs
<1>5. \A i \in jobs[n] : /\ Robbed(i) \in Jobs /\ Robbed(i).task = i.task /\ Robbed(i).attempt = i.attempt
                         /\ i \in Jobs
  BY <1>0, RobbedJob
<1>6. Others(n, j) = {Other(i) : i \in jobs[n] \ {j}}
  BY DEF Others
<1>7. \/ \E p \in Phases : jobs' = [jobs EXCEPT ![n] = (jobs[n] \ {j}) \cup {In(p)}] /\ UNCHANGED running
      \/ /\ jobs' = [jobs EXCEPT ![n] = Others(n, j) \cup {In("leaving")}]
         /\ running' = [running EXCEPT ![n][j.task] = 0]
      \/ jobs' = [jobs EXCEPT ![n] = Others(n, j)] /\ running' = [running EXCEPT ![n][j.task] = 0]
  BY DEF JobStep, JobBegins, JobReports, JobCancelled, JobLeaves
<1>8. \A i \in jobs[n] : Other(i) \in Jobs /\ Other(i).task = i.task /\ Other(i).attempt = i.attempt
  BY <1>5
<1> HIDE DEF In, Robbed, Other
<1>9. Others(n, j) \in SUBSET Jobs
  BY <1>6, <1>8
<1>10. running' \in [Nodes -> [Tasks -> Nat]] /\ jobs' \in [Nodes -> SUBSET Jobs]
  <2>1. running' \in [Nodes -> [Tasks -> Nat]]
    <3>1. running' = running \/ running' = [running EXCEPT ![n][j.task] = 0]
      BY <1>7
    <3>2. [running EXCEPT ![n][j.task] = 0] \in [Nodes -> [Tasks -> Nat]]
      BY <1>0, <1>1, EntryCleared
    <3> QED
      BY <1>0, <3>1, <3>2
  <2>2. \E js \in SUBSET Jobs : jobs' = [jobs EXCEPT ![n] = js]
    <3>1. \A p \in Phases : (jobs[n] \ {j}) \cup {In(p)} \in SUBSET Jobs
      BY <1>0, <1>4
    <3>2. Others(n, j) \cup {In("leaving")} \in SUBSET Jobs
      BY <1>4, <1>9
    <3> QED
      BY <1>7, <1>9, <3>1, <3>2
  <2> QED
    BY <1>0, <2>1, <2>2
<1>11. \A k \in Nodes \ {n} : jobs'[k] = jobs[k] /\ running'[k] = running[k]
  BY <1>0, <1>7
<1>12. \E h : /\ \A i \in jobs[n] : h[i].task = i.task /\ h[i].attempt = i.attempt
              /\ \A x \in jobs'[n] : \E i \in jobs[n] : x = h[i]
  <2>1. CASE \E p \in Phases : jobs' = [jobs EXCEPT ![n] = (jobs[n] \ {j}) \cup {In(p)}]
    <3>1. PICK p \in Phases : jobs' = [jobs EXCEPT ![n] = (jobs[n] \ {j}) \cup {In(p)}]
      BY <2>1
    <3> DEFINE h == [i \in jobs[n] |-> IF i = j THEN In(p) ELSE i]
    <3>2. \A i \in jobs[n] : h[i] = IF i = j THEN In(p) ELSE i
      OBVIOUS
    <3>3. jobs'[n] = (jobs[n] \ {j}) \cup {In(p)}
      BY <1>0, <3>1
    <3> HIDE DEF h
    <3>4. \A i \in jobs[n] : h[i].task = i.task /\ h[i].attempt = i.attempt
      BY <1>4, <3>2
    <3>5. \A x \in jobs'[n] : \E i \in jobs[n] : x = h[i]
      BY <3>2, <3>3
    <3> QED
      BY <3>4, <3>5
  <2>2. CASE \/ jobs' = [jobs EXCEPT ![n] = Others(n, j) \cup {In("leaving")}]
             \/ jobs' = [jobs EXCEPT ![n] = Others(n, j)]
    <3> DEFINE h == [i \in jobs[n] |-> IF i = j THEN In("leaving") ELSE Other(i)]
    <3>2. \A i \in jobs[n] : h[i] = IF i = j THEN In("leaving") ELSE Other(i)
      OBVIOUS
    <3>3. jobs'[n] \subseteq {Other(i) : i \in jobs[n] \ {j}} \cup {In("leaving")}
      BY <1>0, <1>6, <2>2
    <3> HIDE DEF h
    <3>4. \A i \in jobs[n] : h[i].task = i.task /\ h[i].attempt = i.attempt
      BY <1>4, <1>8, <3>2
    <3>5. \A x \in jobs'[n] : \E i \in jobs[n] : x = h[i]
      BY <3>2, <3>3
    <3> QED
      BY <3>4, <3>5
  <2> QED
    BY <1>7, <2>1, <2>2
<1> QED
  BY <1>1, <1>2, <1>3, <1>10, <1>11, <1>12

LEMMA LinkTypesStep ==
    ASSUME R!TypeOK, R!TypeOK', ServerTypes, [Next]_vars, \A t \in Tasks : issued[t] <= issued'[t]
    PROVE  LinkTypes'
<1>0. LinkTypes /\ link \in [Nodes -> [Links -> Socket]] /\ conns \in [Nodes -> Links \cup {NoLink}]
  BY DEF ServerTypes, LinkTypes, RosterTypes
<1> DEFINE Kept == link' \in [Nodes -> [Links -> Socket]]
<1>1. Kept => LinkTypes'
  <2>1. Seq(Ups) \subseteq Seq(Ups') /\ Seq(Downs) \subseteq Seq(Downs')
    BY SetsGrow, SeqGrows
  <2>2. Socket \subseteq Socket'
    BY <2>1 DEF Socket
  <2> QED
    BY <2>2 DEF LinkTypes
<1>2. UNCHANGED link => Kept
  BY <1>0
<1>3. \A f \in [Nodes -> [Links -> Socket]] : link' = f => Kept
  OBVIOUS
<1> HIDE DEF Kept
<1>4. ASSUME NEW n \in Nodes, NEW m \in Downs, conns[n] # NoLink, link' = Sent(n, m) PROVE Kept
  BY <1>0, <1>2, <1>3, <1>4, SocketUpdates DEF Sent
<1>5. ASSUME NEW n \in Nodes, NEW c \in Links, NEW type, Takes(n, c, type) PROVE Kept
  BY <1>0, <1>3, <1>5, SocketUpdates DEF Takes
<1>6. ASSUME NEW t \in Tasks, \/ \E k \in Keys : ClientSubmit(t, k)
                             \/ ClientCancel(t) \/ ClientDelete(t) \/ LeaseLapses(t)
      PROVE  Kept
  BY <1>2, <1>6 DEF ClientSubmit, ClientCancel, ClientDelete, LeaseLapses
<1>7. ASSUME NEW n \in Nodes, NEW c \in Links, \/ OnMessage(n, c) \/ OnDisconnect(n, c)
                                                \/ Accepted(n, c) \/ AcceptFails(n, c)
      PROVE  Kept
  <2>1. CASE OnDisconnect(n, c) \/ Accepted(n, c) \/ AcceptFails(n, c)
    BY <1>0, <1>3, <2>1, SocketUpdates DEF OnDisconnect, Accepted, AcceptFails
  <2> QED
    BY <1>5, <1>7, <2>1 DEF OnMessage, OnHeartbeat, OnProgress, OnResult, OnLeave
<1>8. ASSUME NEW n \in Nodes, Kick(n) PROVE Kept
  <2>1. CASE conns[n] = NoLink
    BY <1>2, <1>8, <2>1 DEF Kick
  <2>2. CASE conns[n] # NoLink
    <3> DEFINE c == conns[n]
               e == [link[n][c] EXCEPT !.peer = "gone", !.up = <<>>, !.down = <<>>]
    <3>1. c \in Links /\ link[n][c] \in Socket
      BY <1>0, <2>2
    <3>2. e \in Socket
      BY <3>1, EmptySeq DEF Socket
    <3>3. link' = [link EXCEPT ![n][c] = e]
      BY <1>0, <1>8, <2>2, <3>1 DEF Kick
    <3> HIDE DEF e, c
    <3> QED
      BY <1>0, <1>3, <3>1, <3>2, <3>3, SocketUpdates
  <2> QED
    BY <2>1, <2>2
<1>9. ASSUME NEW n \in Nodes, HeartbeatLate(n) \/ GraceEnds(n) \/ AgentRegister(n) PROVE Kept
  BY <1>2, <1>9 DEF HeartbeatLate, GraceEnds, AgentRegister
<1>10. ASSUME NEW n \in Nodes, AgentConnect(n) PROVE Kept
  <2>1. PICK c \in Links : link' = [link EXCEPT ![n][c] = [Unused EXCEPT !.peer = "open", !.accepting = TRUE]]
    BY <1>10 DEF AgentConnect
  <2>2. [Unused EXCEPT !.peer = "open", !.accepting = TRUE] \in Socket
    BY EmptySeq DEF Unused, Socket
  <2> QED
    BY <1>0, <1>3, <2>1, <2>2, SocketUpdates
<1>11. ASSUME NEW n \in Nodes, AgentHeartbeat(n) PROVE Kept
  <2>1. PICK c \in Open(n), t \in IF Entries(n) = {} THEN {NoTask} ELSE Entries(n) :
           link' = Up(n, c, Msg("heartbeat", t, 0, IF Cardinality(Entries(n)) >= Slots[n] THEN "busy" ELSE "ready"))
    BY <1>11 DEF AgentHeartbeat
  <2>2. c \in Links /\ t \in Tasks \cup {NoTask}
    BY DEF Open, Entries
  <2>3. \A s \in Tasks \cup {NoTask}, info \in {"busy", "ready"} : Msg("heartbeat", s, 0, info) \in Ups
    BY DEF Msg, Ups
  <2> QED
    BY <1>0, <1>3, <2>1, <2>2, <2>3, SocketUpdates
<1>12. ASSUME NEW n \in Nodes, NEW c \in Links, AgentAccepts(n, c) \/ AgentRevoked(n, c) PROVE Kept
  BY <1>0, <1>3, <1>12, SocketUpdates DEF AgentAccepts, AgentRevoked, Receives
<1>13. ASSUME NEW n \in Nodes, NEW c \in Links, AgentRefuses(n, c) PROVE Kept
  <2> DEFINE m == Head(link[n][c].down)
             e == Msg("result", m.task, m.attempt, "failed")
             x == Popped(n, c)
  <2>1. m \in Downs /\ m.type = "assign" /\ link[n][c].down # <<>>
    BY <1>13, ReceivedIsSent DEF AgentRefuses
  <2>2. e \in Ups
    BY <2>1 DEF Downs, Ups, Msg
  <2>3. x \in [Nodes -> [Links -> Socket]]
    BY <1>0, <2>1, SocketUpdates
  <2>4. link' = [x EXCEPT ![n][c].up = Append(x[n][c].up, e)]
    BY <1>13 DEF AgentRefuses
  <2> HIDE DEF m, e, x
  <2>5. x[n][c] \in Socket /\ x[n][c].up \in Seq(Ups)
    BY <2>3 DEF Socket
  <2>6. Append(x[n][c].up, e) \in Seq(Ups)
    BY <2>2, <2>5
  <2>7. [x[n][c] EXCEPT !.up = Append(x[n][c].up, e)] \in Socket
    BY <2>5, <2>6 DEF Socket
  <2>8. link' = [x EXCEPT ![n][c] = [x[n][c] EXCEPT !.up = Append(x[n][c].up, e)]]
    BY <2>3, <2>4
  <2> QED
    BY <2>3, <2>7, <2>8 DEF Kept
<1>14. ASSUME NEW n \in Nodes, NEW j \in jobs[n], JobStep(n, j) PROVE Kept
  <2>1. j.link \in Links /\ (UNCHANGED link \/ \E m \in Ups : link' = Up(n, j.link, m))
    BY <1>14, JobStepFacts
  <2>2. CASE \E m \in Ups : link' = Up(n, j.link, m)
    <3>1. PICK m \in Ups : link' = Up(n, j.link, m)
      BY <2>2
    <3>2. Up(n, j.link, m) \in [Nodes -> [Links -> Socket]]
      BY <1>0, <2>1, SocketUpdates
    <3> QED
      BY <1>3, <3>1, <3>2
  <2> QED
    BY <1>2, <2>1, <2>2
<1>15. ASSUME NEW n \in Nodes, AgentDrops(n) \/ AgentCrash(n) PROVE Kept
  BY <1>0, <1>15, DroppedTypes DEF AgentDrops, AgentCrash, Open, Kept
<1>16. ASSUME NEW n \in Nodes, AgentLeave(n) PROVE Kept
  <2> DEFINE m == Msg("leave", NoTask, 0, "")
  <2>1. PICK c \in Open(n) :
           link' = [link EXCEPT ![n][c].peer = "gone", ![n][c].down = <<>>, ![n][c].up = Append(@, m)]
    BY <1>16 DEF AgentLeave
  <2>2. m \in Ups /\ c \in Links /\ link[n][c] \in Socket
    BY <1>0 DEF Msg, Ups, Open
  <2> DEFINE e == [link[n][c] EXCEPT !.peer = "gone", !.down = <<>>, !.up = Append(link[n][c].up, m)]
  <2>3. link' = [link EXCEPT ![n][c] = e]
    BY <1>0, <2>1, <2>2
  <2> HIDE DEF m
  <2>4. Append(link[n][c].up, m) \in Seq(Ups)
    BY <2>2 DEF Socket
  <2>5. e \in Socket
    BY <2>2, <2>4, EmptySeq DEF Socket
  <2> HIDE DEF e
  <2> QED
    BY <1>0, <1>3, <2>2, <2>3, <2>5, SocketUpdates
<1>17. ASSUME StepAssign PROVE Kept
  <2> DEFINE m == Msg("assign", Head(loop).task, Head(loop).attempt, "")
  <2>1. Head(loop) \in Ops /\ Head(loop).op = "assign"
    BY <1>17, HeadIsOp DEF StepAssign, At
  <2>2. Head(loop).node \in Nodes /\ m \in Downs
    BY <2>1 DEF Ops, Downs, Msg
  <2>3. UNCHANGED link \/ (conns[Head(loop).node] # NoLink /\ link' = Sent(Head(loop).node, m))
    BY <1>17 DEF StepAssign
  <2> HIDE DEF m
  <2> QED
    BY <1>2, <1>4, <2>2, <2>3
<1>18. ASSUME StepRevoke PROVE Kept
  <2> DEFINE m == Msg("revoke", Head(loop).task, Head(loop).attempt, "")
  <2>1. Head(loop) \in Ops /\ Head(loop).op \in {"tell", "revoke"}
    BY <1>18, HeadIsOp DEF StepRevoke
  <2>2. Head(loop).node \in Nodes /\ m \in Downs
    BY <2>1 DEF Ops, Downs, Msg
  <2>3. UNCHANGED link \/ (conns[Head(loop).node] # NoLink /\ link' = Sent(Head(loop).node, m))
    BY <1>18 DEF StepRevoke
  <2> HIDE DEF m
  <2> QED
    BY <1>2, <1>4, <2>2, <2>3
<1>19. ASSUME \/ StepSchedule \/ StepReady \/ StepCompact \/ StepDelete \/ StepClear \/ StepKick
              \/ StepLost \/ StepExpire \/ Resume \/ Tick \/ ClearQueue \/ UNCHANGED vars
       PROVE  Kept
  BY <1>2, <1>19 DEF StepSchedule, StepReady, StepCompact, StepDelete, StepClear, StepKick,
                     StepLost, StepExpire, Resume, Tick, ClearQueue, vars
<1>20. ASSUME ServerRestart PROVE Kept
  <2>1. Unused \in Socket /\ [Unused EXCEPT !.peer = "gone"] \in Socket
    BY EmptySeq DEF Unused, Socket
  <2> QED
    BY <1>20, <2>1 DEF ServerRestart, Kept
<1>21. ASSUME NEW n \in Nodes, AgentStep(n) PROVE Kept
  BY <1>9, <1>10, <1>11, <1>12, <1>13, <1>14, <1>15, <1>16, <1>21 DEF AgentStep, JobStep
<1>22. LoopStep => Kept
  BY <1>17, <1>18, <1>19 DEF LoopStep
<1>23. Kept
  BY <1>6, <1>7, <1>8, <1>9, <1>19, <1>20, <1>21, <1>22 DEF Next
<1> QED
  BY <1>1, <1>23

LEMMA AgentTypesStep ==
    ASSUME R!TypeOK, R!TypeOK', ServerTypes, [Next]_vars, \A t \in Tasks : issued[t] <= issued'[t]
    PROVE  AgentTypes'
<1>0. running \in [Nodes -> [Tasks -> Nat]] /\ jobs \in [Nodes -> SUBSET Jobs]
  BY DEF ServerTypes, AgentTypes
<1> DEFINE Kept == running' \in [Nodes -> [Tasks -> Nat]] /\ jobs' \in [Nodes -> SUBSET Jobs]
<1>1. Kept => AgentTypes'
  BY SetsGrow DEF AgentTypes
<1>2. UNCHANGED agents => Kept
  BY <1>0 DEF agents
<1>3. ASSUME NEW n \in Nodes, NEW j \in jobs[n] PROVE [j EXCEPT !.phase = "cancelled"] \in Jobs
  BY <1>0 DEF Jobs
<1> HIDE DEF Kept
<1>4. ASSUME NEW t \in Tasks, \/ \E k \in Keys : ClientSubmit(t, k)
                             \/ ClientCancel(t) \/ ClientDelete(t) \/ LeaseLapses(t)
      PROVE  UNCHANGED agents
  BY <1>4 DEF ClientSubmit, ClientCancel, ClientDelete, LeaseLapses
<1>5. ASSUME NEW n \in Nodes, NEW c \in Links, \/ OnMessage(n, c) \/ OnDisconnect(n, c)
                                                \/ Accepted(n, c) \/ AcceptFails(n, c)
      PROVE  UNCHANGED agents
  BY <1>5 DEF OnMessage, OnHeartbeat, OnProgress, OnResult, OnLeave, OnDisconnect, Accepted, AcceptFails
<1>6. ASSUME NEW n \in Nodes, \/ Kick(n) \/ HeartbeatLate(n) \/ GraceEnds(n) \/ AgentRegister(n)
                             \/ AgentConnect(n) \/ AgentHeartbeat(n) \/ AgentDrops(n)
      PROVE  UNCHANGED agents
  BY <1>6 DEF Kick, HeartbeatLate, GraceEnds, AgentRegister, AgentConnect, AgentHeartbeat, AgentDrops
<1>7. ASSUME LoopStep \/ Resume \/ Tick \/ ClearQueue \/ ServerRestart \/ UNCHANGED vars PROVE UNCHANGED agents
  BY <1>7 DEF LoopStep, StepSchedule, StepAssign, StepRevoke, StepReady, StepCompact, StepDelete, StepClear,
              StepKick, StepLost, StepExpire, Resume, Tick, ClearQueue, ServerRestart, vars
<1>8. ASSUME NEW n \in Nodes, NEW c \in Links, AgentRefuses(n, c) PROVE UNCHANGED agents
  BY <1>8 DEF AgentRefuses
<1>9. ASSUME NEW n \in Nodes, NEW c \in Links, AgentAccepts(n, c) PROVE Kept
  <2> DEFINE m == Head(link[n][c].down)
             job == [task |-> m.task, attempt |-> m.attempt, link |-> c, phase |-> "new", robbed |-> FALSE]
  <2>1. m \in Downs /\ m.type = "assign"
    BY <1>9, ReceivedIsSent DEF AgentAccepts
  <2>2. job \in Jobs /\ m.task \in Tasks /\ m.attempt \in Nat
    BY <2>1 DEF Downs, Jobs
  <2>3. running' = [running EXCEPT ![n][m.task] = m.attempt] /\ jobs' = [jobs EXCEPT ![n] = jobs[n] \cup {job}]
    BY <1>9 DEF AgentAccepts
  <2> HIDE DEF m, job
  <2> QED
    BY <1>0, <2>2, <2>3 DEF Kept
<1>10. ASSUME NEW n \in Nodes, NEW c \in Links, AgentRevoked(n, c) PROVE Kept
  <2>1. PICK hit \in SUBSET jobs[n] :
           jobs' = [jobs EXCEPT ![n] = (jobs[n] \ hit) \cup
              {[j EXCEPT !.phase = "cancelled"] : j \in {i \in hit : i.phase \notin {"new", "reporting"}}}]
    BY <1>10 DEF AgentRevoked
  <2>2. {[j EXCEPT !.phase = "cancelled"] : j \in {i \in hit : i.phase \notin {"new", "reporting"}}} \subseteq Jobs
    BY <1>3
  <2>3. jobs[n] \ hit \subseteq Jobs
    BY <1>0
  <2> QED
    BY <1>0, <1>10, <2>1, <2>2, <2>3 DEF AgentRevoked, Kept
<1>11. ASSUME NEW n \in Nodes, NEW j \in jobs[n], JobStep(n, j) PROVE Kept
  BY <1>11, JobStepFacts DEF Kept
<1>13. ASSUME NEW n \in Nodes, AgentCrash(n) \/ AgentLeave(n) PROVE Kept
  <2>1. running' = [running EXCEPT ![n] = [t \in Tasks |-> 0]] /\ jobs' = [jobs EXCEPT ![n] = {}]
    BY <1>13 DEF AgentCrash, AgentLeave, Dies
  <2> QED
    BY <1>0, <2>1 DEF Kept
<1>14. ASSUME NEW n \in Nodes, AgentStep(n) PROVE Kept
  BY <1>2, <1>6, <1>8, <1>9, <1>10, <1>11, <1>13, <1>14 DEF AgentStep, JobStep
<1>15. Kept
  BY <1>2, <1>4, <1>5, <1>6, <1>7, <1>14 DEF Next
<1> QED
  BY <1>1, <1>15

LEMMA IssuedGrows ==
    ASSUME R!TypeOK, [Next]_vars
    PROVE  \A t \in Tasks : issued[t] <= issued'[t]
<1>1. \A t \in Tasks : issued[t] \in Nat
  BY DEF R!TypeOK
<1>2. CASE StepSchedule
  <2>1. \A t \in Tasks : issued'[t] = issued[t] \/ issued'[t] = issued[t] + 1
    BY <1>2 DEF StepSchedule, R!Assign
  <2> QED
    BY <1>1, <2>1
<1> QED
  BY <1>1, <1>2, IssuedStays

\* The table's invariant, the types and what they need of each other.
LEMMA TypesStep ==
    ASSUME RP!IInv, ServerTypes, [Next]_vars
    PROVE  RP!IInv' /\ ServerTypes'
<1>1. R!TypeOK /\ \A t \in Tasks : rows[t].state \in R!InFlight => rows[t].node \in Nodes
  BY TableFacts
<1>2. RP!IInv'
  <2>1. RP!RouterAssumption
    BY SameTable, DispatchTableAssumption
  <2>2. [RP!Next]_(RP!vars)
    BY <1>1, TableStep, SameTable DEF RP!vars, table
  <2> QED
    BY <2>1, <2>2, RP!StepIInv
<1>3. R!TypeOK'
  BY <1>2 DEF RP!IInv, R!TypeOK, RP!TypeOK, R!Row, RP!Row, R!Result, RP!Result,
              R!Open, RP!Open, R!InFlight, RP!InFlight, R!Terminal, RP!Terminal
<1>4. \A t \in Tasks : issued[t] <= issued'[t]
  BY <1>1, IssuedGrows
<1>5. RosterTypes' /\ LoopTypes'
  BY <1>1, <1>3, <1>4, RosterStep, LoopTypesStep
<1>6. LinkTypes' /\ AgentTypes'
  BY <1>1, <1>3, <1>4, LinkTypesStep, AgentTypesStep
<1> QED
  BY <1>2, <1>5, <1>6 DEF ServerTypes

-----------------------------------------------------------------------------
(***************************************************************************)
(* The connection map                                                      *)
(***************************************************************************)
\* No websocket is opened, accepted or served anew.
NothingOpens ==
    \A k \in Nodes, d \in Links :
        /\ link'[k][d].served => link[k][d].served
        /\ link'[k][d].accepting => link[k][d].accepting
        /\ link'[k][d].peer = "open" => link[k][d].peer = "open"
        /\ link'[k][d].peer = "unused" <=> link[k][d].peer = "unused"

\* One websocket changes, and the change does not open it.
LEMMA OneSocket ==
    ASSUME LinkTypes, NEW n \in Nodes, NEW c \in Links, NEW e,
           link' = [link EXCEPT ![n][c] = e],
           e.served => link[n][c].served, e.accepting => link[n][c].accepting,
           e.peer = link[n][c].peer \/ (e.peer = "gone" /\ link[n][c].peer # "unused")
    PROVE  NothingOpens
<1>1. /\ link'[n][c] = e
      /\ \A k \in Nodes, d \in Links : ~(k = n /\ d = c) => link'[k][d] = link[k][d]
  BY DEF LinkTypes
<1> QED
  BY <1>1 DEF NothingOpens

\* Traffic in either direction, and the end of a websocket, open none.
LEMMA TrafficOpensNothing ==
    ASSUME LinkTypes, NEW n \in Nodes, NEW c \in Links,
           \/ UNCHANGED link
           \/ \E up : link' = [link EXCEPT ![n][c].up = up]
           \/ \E down : link' = [link EXCEPT ![n][c].down = down]
           \/ link' = [link EXCEPT ![n][c].served = FALSE]
           \/ link' = [link EXCEPT ![n][c].accepting = FALSE]
           \/ /\ link[n][c].peer # "unused"
              /\ \E up, down :
                    link' = [link EXCEPT ![n][c] = [link[n][c] EXCEPT !.peer = "gone", !.up = up, !.down = down]]
    PROVE  NothingOpens
<1>0. link[n][c] \in Socket
  BY DEF LinkTypes
<1>1. ASSUME NEW e, link' = [link EXCEPT ![n][c] = e],
             e.served => link[n][c].served, e.accepting => link[n][c].accepting,
             e.peer = link[n][c].peer \/ (e.peer = "gone" /\ link[n][c].peer # "unused")
      PROVE  NothingOpens
  BY <1>1, OneSocket
<1>2. CASE UNCHANGED link
  BY <1>2 DEF NothingOpens
<1>3. CASE \E up : link' = [link EXCEPT ![n][c].up = up]
  <2>1. PICK up : link' = [link EXCEPT ![n][c].up = up]
    BY <1>3
  <2> DEFINE e == [link[n][c] EXCEPT !.up = up]
  <2>2. /\ link' = [link EXCEPT ![n][c] = e]
        /\ e.served = link[n][c].served /\ e.accepting = link[n][c].accepting /\ e.peer = link[n][c].peer
    BY <1>0, <2>1 DEF LinkTypes, Socket
  <2> HIDE DEF e
  <2> QED
    BY <1>1, <2>2
<1>4. CASE \E down : link' = [link EXCEPT ![n][c].down = down]
  <2>1. PICK down : link' = [link EXCEPT ![n][c].down = down]
    BY <1>4
  <2> DEFINE e == [link[n][c] EXCEPT !.down = down]
  <2>2. /\ link' = [link EXCEPT ![n][c] = e]
        /\ e.served = link[n][c].served /\ e.accepting = link[n][c].accepting /\ e.peer = link[n][c].peer
    BY <1>0, <2>1 DEF LinkTypes, Socket
  <2> HIDE DEF e
  <2> QED
    BY <1>1, <2>2
<1>5. CASE link' = [link EXCEPT ![n][c].served = FALSE]
  <2> DEFINE e == [link[n][c] EXCEPT !.served = FALSE]
  <2>2. /\ link' = [link EXCEPT ![n][c] = e]
        /\ e.served = FALSE /\ e.accepting = link[n][c].accepting /\ e.peer = link[n][c].peer
    BY <1>0, <1>5 DEF LinkTypes, Socket
  <2> HIDE DEF e
  <2> QED
    BY <1>1, <2>2
<1>6. CASE link' = [link EXCEPT ![n][c].accepting = FALSE]
  <2> DEFINE e == [link[n][c] EXCEPT !.accepting = FALSE]
  <2>2. /\ link' = [link EXCEPT ![n][c] = e]
        /\ e.served = link[n][c].served /\ e.accepting = FALSE /\ e.peer = link[n][c].peer
    BY <1>0, <1>6 DEF LinkTypes, Socket
  <2> HIDE DEF e
  <2> QED
    BY <1>1, <2>2
<1>7. CASE /\ link[n][c].peer # "unused"
           /\ \E up, down :
                 link' = [link EXCEPT ![n][c] = [link[n][c] EXCEPT !.peer = "gone", !.up = up, !.down = down]]
  <2>1. PICK up, down : link' = [link EXCEPT ![n][c] = [link[n][c] EXCEPT !.peer = "gone", !.up = up, !.down = down]]
    BY <1>7
  <2> DEFINE e == [link[n][c] EXCEPT !.peer = "gone", !.up = up, !.down = down]
  <2>2. /\ link' = [link EXCEPT ![n][c] = e]
        /\ e.served = link[n][c].served /\ e.accepting = link[n][c].accepting /\ e.peer = "gone"
    BY <1>0, <2>1 DEF Socket
  <2> HIDE DEF e
  <2> QED
    BY <1>1, <1>7, <2>2
<1> QED
  BY <1>2, <1>3, <1>4, <1>5, <1>6, <1>7

\* What LatestLink says of a step.
LatestStep ==
    \A n \in Nodes, c \in Links :
        Live(n, c)' /\ (Live(n, c) => conns[n] = c) =>
            conns'[n] = c \/ \E d \in 1..(c - 1) : Accepted(n, d)

LEMMA LinkStep ==
    ASSUME ServerTypes, LinkInv, [Next]_vars
    PROVE  LinkInv' /\ LatestStep
<1>0. LinkTypes /\ link \in [Nodes -> [Links -> Socket]] /\ conns \in [Nodes -> Links \cup {NoLink}]
      /\ jobs \in [Nodes -> SUBSET Jobs]
  BY DEF ServerTypes, LinkTypes, RosterTypes, AgentTypes
<1> DEFINE Holds == LinkInv' /\ LatestStep
<1>1. ASSUME NothingOpens, UNCHANGED conns PROVE Holds
  <2>1. LinkInv'
    BY <1>0, <1>1 DEF NothingOpens, LinkInv
  <2>2. LatestStep
    BY <1>1 DEF NothingOpens, LatestStep, Live
  <2> QED
    BY <2>1, <2>2
<1>2. UNCHANGED link => NothingOpens
  BY DEF NothingOpens
<1> DEFINE Done == NothingOpens /\ UNCHANGED conns
<1> HIDE DEF Done
<1>3. ASSUME NEW t \in Tasks, \/ \E k \in Keys : ClientSubmit(t, k)
                             \/ ClientCancel(t) \/ ClientDelete(t) \/ LeaseLapses(t)
      PROVE  Done
  BY <1>2, <1>3 DEF ClientSubmit, ClientCancel, ClientDelete, LeaseLapses, server, Done
<1>4. ASSUME NEW n \in Nodes, NEW c \in Links, OnMessage(n, c) PROVE Done
  <2>1. \E up : link' = [link EXCEPT ![n][c].up = up]
    BY <1>4 DEF OnMessage, OnHeartbeat, OnProgress, OnResult, OnLeave, Takes
  <2>2. NothingOpens
    BY <1>0, <2>1, TrafficOpensNothing
  <2> QED
    BY <1>4, <2>2 DEF OnMessage, OnHeartbeat, OnProgress, OnResult, OnLeave, server, Done
<1>5. ASSUME NEW n \in Nodes, NEW c \in Links, OnDisconnect(n, c) PROVE Holds
  <2>1. NothingOpens
    BY <1>0, <1>5, TrafficOpensNothing DEF OnDisconnect
  <2>2. link[n][c].peer = "gone"
    BY <1>5 DEF OnDisconnect
  <2>3. \A k \in Nodes : conns[k] # conns'[k] => k = n /\ conns[k] = c /\ conns'[k] = NoLink
    BY <1>0, <1>5 DEF OnDisconnect
  <2>4. LinkInv'
    <3>1. \A k \in Nodes : conns'[k] # NoLink => conns'[k] = conns[k]
      BY <2>3
    <3>2. \A k \in Nodes : conns[k] # NoLink => conns[k] \in Links
      BY <1>0
    <3>3. \A k \in Nodes : conns'[k] # NoLink => link'[k][conns'[k]].peer # "unused"
      BY <2>1, <3>1, <3>2 DEF NothingOpens, LinkInv
    <3>4. \A k \in Nodes, d \in Links :
             link'[k][d].accepting \/ link'[k][d].served => link'[k][d].peer # "unused"
      BY <2>1 DEF NothingOpens, LinkInv
    <3>5. \A k \in Nodes : \A d, e \in Links :
             /\ link'[k][d].peer # "unused" /\ e <= d => link'[k][e].peer # "unused"
             /\ link'[k][d].peer = "open" /\ link'[k][e].peer # "unused" => e <= d
      BY <2>1 DEF NothingOpens, LinkInv
    <3> QED
      BY <3>3, <3>4, <3>5 DEF LinkInv
  <2>5. LatestStep
    BY <2>1, <2>2, <2>3 DEF NothingOpens, LatestStep, Live
  <2> QED
    BY <2>4, <2>5
<1>20. ASSUME NEW n \in Nodes, NEW c \in Links, AcceptFails(n, c) PROVE Done
  <2>1. NothingOpens
    BY <1>0, <1>20, TrafficOpensNothing DEF AcceptFails
  <2> QED
    BY <1>20, <2>1 DEF AcceptFails, server, Done
<1>21. ASSUME NEW n \in Nodes, NEW c \in Links, Accepted(n, c) PROVE Holds
  <2>1. /\ link'[n][c].peer = link[n][c].peer /\ link[n][c].accepting
        /\ \A k \in Nodes, d \in Links : ~(k = n /\ d = c) => link'[k][d] = link[k][d]
    BY <1>0, <1>21 DEF Accepted, Socket
  <2>2. conns'[n] = c /\ \A k \in Nodes : k # n => conns'[k] = conns[k]
    BY <1>0, <1>21 DEF Accepted
  <2>3. link[n][c].peer # "unused" /\ \A k \in Nodes, d \in Links : link'[k][d].peer = link[k][d].peer
    BY <2>1 DEF LinkInv
  <2>4. LinkInv'
    BY <1>0, <2>1, <2>2, <2>3 DEF LinkInv
  <2>5. ASSUME NEW k \in Nodes, NEW d \in Links, Live(k, d)', Live(k, d) => conns[k] = d, conns'[k] # d
        PROVE  \E i \in 1..(d - 1) : Accepted(k, i)
    <3>1. ~(k = n /\ d = c)
      BY <2>2, <2>5
    <3>2. Live(k, d) /\ conns[k] = d
      BY <2>1, <2>5, <3>1 DEF Live
    <3>3. k = n /\ d # c
      BY <2>2, <2>5, <3>1, <3>2
    <3>4. c <= d
      BY <2>3, <3>2, <3>3 DEF Live, LinkInv
    <3>5. c \in 1..(d - 1)
      BY <3>3, <3>4, DispatchAssumption DEF Links
    <3> QED
      BY <1>21, <3>3, <3>5
  <2>6. LatestStep
    BY <2>5 DEF LatestStep
  <2> QED
    BY <2>4, <2>6
<1>6. ASSUME NEW n \in Nodes, Kick(n) PROVE Done
  <2>1. UNCHANGED conns
    BY <1>6 DEF Kick
  <2>2. CASE conns[n] = NoLink
    BY <1>2, <1>6, <2>1, <2>2 DEF Kick, Done
  <2>3. CASE conns[n] # NoLink
    <3>1. conns[n] \in Links
      BY <1>0, <2>3
    <3>2. link' = [link EXCEPT ![n][conns[n]] =
                      [link[n][conns[n]] EXCEPT !.peer = "gone", !.up = <<>>, !.down = <<>>]]
      BY <1>0, <1>6, <2>3, <3>1 DEF Kick
    <3>4. link[n][conns[n]].peer # "unused"
      BY <2>3 DEF LinkInv
    <3>3. NothingOpens
      BY <1>0, <3>1, <3>2, <3>4, TrafficOpensNothing
    <3> QED
      BY <2>1, <3>3 DEF Done
  <2> QED
    BY <2>2, <2>3
<1>7. ASSUME NEW n \in Nodes, HeartbeatLate(n) \/ GraceEnds(n) \/ AgentRegister(n) PROVE Done
  BY <1>2, <1>7 DEF HeartbeatLate, GraceEnds, AgentRegister, Done
<1>8. ASSUME NEW n \in Nodes, AgentConnect(n) PROVE Holds
  <2>1. PICK c \in Links : /\ link[n][c].peer = "unused"
                           /\ \A d \in Links : link[n][d].peer = "unused" => c <= d
                           /\ link' = [link EXCEPT ![n][c] = [Unused EXCEPT !.peer = "open", !.accepting = TRUE]]
    BY <1>8 DEF AgentConnect
  <2>2. UNCHANGED conns /\ \A d \in Links : link[n][d].peer # "open"
    BY <1>8 DEF AgentConnect, Open, server
  <2>3. /\ link'[n][c].peer = "open" /\ ~link'[n][c].served
        /\ \A k \in Nodes, d \in Links : ~(k = n /\ d = c) => link'[k][d] = link[k][d]
    BY <1>0, <2>1 DEF Unused
  <2>4. ASSUME NEW d \in Links, link[n][d].peer # "unused" PROVE d <= c
    <3>1. ~(c <= d)
      BY <2>1, <2>4 DEF LinkInv
    <3> QED
      BY <3>1, DispatchAssumption DEF Links
  <2>5. ASSUME NEW d \in Links, d <= c, d # c PROVE link[n][d].peer # "unused"
    <3>1. ~(c <= d)
      BY <2>5, DispatchAssumption DEF Links
    <3> QED
      BY <2>1, <3>1
  <2>6. LinkInv'
    <3> SUFFICES ASSUME NEW k \in Nodes
                 PROVE  /\ conns[k] # NoLink => link'[k][conns[k]].peer # "unused"
                        /\ \A d \in Links : link'[k][d].accepting \/ link'[k][d].served => link'[k][d].peer # "unused"
                        /\ \A d, e \in Links : link'[k][d].peer # "unused" /\ e <= d => link'[k][e].peer # "unused"
                        /\ \A d, e \in Links : link'[k][d].peer = "open" /\ link'[k][e].peer # "unused" => e <= d
      BY <2>2 DEF LinkInv
    <3>1. CASE k # n
      BY <1>0, <2>3, <3>1 DEF LinkInv
    <3>2. CASE k = n
      <4>1. conns[k] # NoLink => link'[k][conns[k]].peer # "unused"
        BY <1>0, <2>3, <3>2 DEF LinkInv
      <4>2. \A d \in Links : link'[k][d].accepting \/ link'[k][d].served => link'[k][d].peer # "unused"
        BY <2>3, <3>2 DEF LinkInv
      <4>3. \A d, e \in Links : link'[k][d].peer # "unused" /\ e <= d => link'[k][e].peer # "unused"
        BY <2>3, <2>5, <3>2 DEF LinkInv
      <4>4. \A d, e \in Links : link'[k][d].peer = "open" /\ link'[k][e].peer # "unused" => e <= d
        <5>1. c <= c
          BY DispatchAssumption DEF Links
        <5> QED
          BY <2>2, <2>3, <2>4, <3>2, <5>1
      <4> QED
        BY <4>1, <4>2, <4>3, <4>4
    <3> QED
      BY <3>1, <3>2
  <2>7. LatestStep
    BY <2>2, <2>3 DEF LatestStep, Live
  <2> QED
    BY <2>6, <2>7
<1>9. ASSUME NEW n \in Nodes, AgentHeartbeat(n) PROVE Done
  <2>1. PICK c \in Links : \E up : link' = [link EXCEPT ![n][c].up = up]
    BY <1>9 DEF AgentHeartbeat, Open, Up
  <2>2. NothingOpens
    BY <1>0, <2>1, TrafficOpensNothing
  <2> QED
    BY <1>9, <2>2 DEF AgentHeartbeat, server, Done
<1>10. ASSUME NEW n \in Nodes, NEW c \in Links, AgentAccepts(n, c) \/ AgentRevoked(n, c) PROVE Done
  <2>1. \E down : link' = [link EXCEPT ![n][c].down = down]
    BY <1>10 DEF AgentAccepts, AgentRevoked, Popped
  <2>2. NothingOpens
    BY <1>0, <2>1, TrafficOpensNothing
  <2> QED
    BY <1>10, <2>2 DEF AgentAccepts, AgentRevoked, server, Done
<1>11. ASSUME NEW n \in Nodes, NEW c \in Links, AgentRefuses(n, c) PROVE Done
  <2>1. PICK m : link' = [Popped(n, c) EXCEPT ![n][c].up = Append(@, m)]
    BY <1>11 DEF AgentRefuses
  <2> DEFINE x == Popped(n, c)
             e == [x[n][c] EXCEPT !.up = Append(x[n][c].up, m)]
  <2>2. /\ x = [link EXCEPT ![n][c] = [link[n][c] EXCEPT !.down = Tail(link[n][c].down)]]
        /\ link' = [x EXCEPT ![n][c] = e]
    BY <1>0, <2>1 DEF Popped
  <2>3. x[n][c] = [link[n][c] EXCEPT !.down = Tail(link[n][c].down)]
    BY <1>0, <2>2
  <2> HIDE DEF x
  <2>4. e.served = link[n][c].served /\ e.accepting = link[n][c].accepting /\ e.peer = link[n][c].peer
    BY <1>0, <2>3 DEF Socket
  <2> HIDE DEF e
  <2>5. link' = [link EXCEPT ![n][c] = e]
    BY <1>0, <2>2
  <2>6. NothingOpens
    BY <1>0, <2>4, <2>5, OneSocket
  <2> QED
    BY <1>11, <2>6 DEF AgentRefuses, server, Done
<1>12. ASSUME NEW n \in Nodes, NEW j \in jobs[n], JobStep(n, j) PROVE Done
  <2>1. /\ j.link \in Links /\ UNCHANGED server
        /\ UNCHANGED link \/ \E up : link' = [link EXCEPT ![n][j.link].up = up]
    <3>1. /\ j.link \in Links /\ UNCHANGED server
          /\ UNCHANGED link \/ \E m : link' = Up(n, j.link, m)
      BY <1>12, JobStepFacts
    <3>2. \A m : Up(n, j.link, m) = [link EXCEPT ![n][j.link].up = Append(link[n][j.link].up, m)]
      BY DEF Up
    <3> QED
      BY <3>1, <3>2
  <2>2. NothingOpens
    BY <1>0, <2>1, TrafficOpensNothing
  <2> QED
    BY <2>1, <2>2 DEF server, Done
<1>13. ASSUME NEW n \in Nodes, AgentDrops(n) \/ AgentCrash(n) \/ AgentLeave(n) PROVE Done
  <2>1. PICK c \in Open(n) : \E up :
           link' = [link EXCEPT ![n][c].peer = "gone", ![n][c].down = <<>>, ![n][c].up = up]
    BY <1>13 DEF AgentDrops, AgentCrash, AgentLeave, Dropped
  <2>5. c \in Links /\ link[n][c].peer = "open"
    BY DEF Open
  <2>2. PICK up : link' = [link EXCEPT ![n][c].peer = "gone", ![n][c].down = <<>>, ![n][c].up = up]
    BY <2>1
  <2>3. link' = [link EXCEPT ![n][c] = [link[n][c] EXCEPT !.peer = "gone", !.up = up, !.down = <<>>]]
    BY <1>0, <2>2, <2>5 DEF Socket
  <2>4. NothingOpens
    BY <1>0, <2>3, <2>5, TrafficOpensNothing
  <2> QED
    BY <1>13, <2>4 DEF AgentDrops, AgentCrash, AgentLeave, Dies, server, Done
<1>14. ASSUME StepAssign \/ StepRevoke PROVE Done
  <2> DEFINE n == Head(loop).node
  <2>1. n \in Nodes
    BY <1>14, HeadIsOp DEF StepAssign, StepRevoke, At, Ops
  <2>2. UNCHANGED link \/ (conns[n] # NoLink /\ \E m : link' = Sent(n, m))
    BY <1>14 DEF StepAssign, StepRevoke
  <2>3. UNCHANGED link \/ (conns[n] # NoLink /\ \E down : link' = [link EXCEPT ![n][conns[n]].down = down])
    BY <2>2 DEF Sent
  <2> HIDE DEF n
  <2>4. NothingOpens
    BY <1>0, <1>2, <2>1, <2>3, TrafficOpensNothing
  <2> QED
    BY <1>14, <2>4 DEF StepAssign, StepRevoke, Done
<1>15. ASSUME \/ StepSchedule \/ StepReady \/ StepCompact \/ StepDelete \/ StepClear \/ StepKick
              \/ StepLost \/ StepExpire \/ Resume \/ Tick \/ ClearQueue \/ UNCHANGED vars
       PROVE  Done
  BY <1>2, <1>15 DEF StepSchedule, StepReady, StepCompact, StepDelete, StepClear, StepKick, StepLost,
                     StepExpire, Resume, Tick, ClearQueue, vars, server, Done
<1>16. ASSUME ServerRestart PROVE Holds
  <2>1. /\ \A k \in Nodes : conns'[k] = NoLink
        /\ \A k \in Nodes, d \in Links :
              /\ link[k][d].peer = "unused" => link'[k][d] = Unused
              /\ link[k][d].peer # "unused" => link'[k][d] = [Unused EXCEPT !.peer = "gone"]
    BY <1>16 DEF ServerRestart
  <2>2. \A k \in Nodes, d \in Links :
           /\ ~link'[k][d].served /\ ~link'[k][d].accepting /\ link'[k][d].peer # "open"
           /\ link'[k][d].peer = "unused" <=> link[k][d].peer = "unused"
    BY <2>1 DEF Unused
  <2>3. LinkInv'
    BY <2>1, <2>2 DEF LinkInv
  <2>4. LatestStep
    BY <2>2 DEF LatestStep, Live
  <2> QED
    BY <2>3, <2>4
<1>17. ASSUME NEW n \in Nodes, AgentStep(n) PROVE Done \/ Holds
  BY <1>7, <1>8, <1>9, <1>10, <1>11, <1>12, <1>13, <1>17 DEF AgentStep, JobStep
<1>18. LoopStep => Done
  BY <1>14, <1>15 DEF LoopStep
<1>19. Done \/ Holds
  <2> HIDE DEF Holds
  <2> QED
    BY <1>3, <1>4, <1>5, <1>6, <1>7, <1>15, <1>16, <1>17, <1>18, <1>20, <1>21 DEF Next
<1> QED
  BY <1>1, <1>19 DEF Done

-----------------------------------------------------------------------------
(***************************************************************************)
(* What handlers have left to do                                           *)
(***************************************************************************)
\* The nodes a tick found stale come first.
LostFirst(ops) == \A i \in DOMAIN ops : ops[i].op = "lost" => \A k \in 1..i : ops[k].op = "lost"
\* A handler that begins sends no assignment: that is for its scheduling pass.
Begins(ops) == LostFirst(ops) /\ \A i \in DOMAIN ops : ops[i].op # "assign"
Tame(ops) == \A i \in DOMAIN ops : ops[i].op \notin {"lost", "assign"}

\* What a step does to the running handler and the suspended ones.
LEMMA LoopMoves ==
    ASSUME ServerTypes, [Next]_vars
    PROVE  \/ UNCHANGED <<loop, parked>>
           \/ loop # <<>> /\ loop' = Rest /\ UNCHANGED parked
           \/ loop # <<>> /\ Head(loop).op \in {"assign", "tell", "revoke"} /\ GoOn(Rest)
           \/ StepSchedule
           \/ Resume
           \/ Idle /\ Begins(loop') /\ UNCHANGED parked
           \/ Idle /\ \E rest : Tame(rest) /\ GoOn(rest)
           \/ /\ loop # <<>> /\ Head(loop).op = "compact"
              /\ loop' = [loop EXCEPT ![1] = Schedule] /\ UNCHANGED parked
           \/ loop' = <<>> /\ (parked' = {} \/ UNCHANGED parked)
<1> USE DEF server
<1>0. ASSUME NEW o, o.op \notin {"assign", "lost"} PROVE Begins(<<o>>)
  BY <1>0 DEF Begins, LostFirst
<1>1. ASSUME NEW t \in Tasks, NEW k \in Keys, ClientSubmit(t, k) PROVE Idle /\ Begins(loop') /\ UNCHANGED parked
  BY <1>0, <1>1 DEF ClientSubmit, Schedule, Op
<1>2. ASSUME NEW t \in Tasks, ClientCancel(t) PROVE Idle /\ Begins(loop') /\ UNCHANGED parked
  BY <1>2 DEF ClientCancel, Begins, LostFirst, Op
<1>3. ASSUME NEW t \in Tasks, ClientDelete(t) PROVE Idle /\ Begins(loop') /\ UNCHANGED parked
  <2>1. \/ loop' = Revocation(t) \o <<Op("delete", NoNode, t, 0)>>
        \/ loop' = <<>> \o <<Op("delete", NoNode, t, 0)>>
    BY <1>3 DEF ClientDelete
  <2>2. Begins(loop')
    BY <2>1 DEF Revocation, Begins, LostFirst, Op
  <2> QED
    BY <1>3, <2>2 DEF ClientDelete
<1>4. CASE ClearQueue
  <2>1. PICK order \in SetToSeqs(R!Has(R!InFlight)) :
           loop' = [i \in 1..2 * Len(order) |-> Revocation(order[(i + 1) \div 2])[2 - (i % 2)]]
                   \o <<Op("clear", NoNode, NoTask, 0)>>
    BY <1>4 DEF ClearQueue
  <2> DEFINE ops == [i \in 1..2 * Len(order) |-> Revocation(order[(i + 1) \div 2])[2 - (i % 2)]]
             last == <<Op("clear", NoNode, NoTask, 0)>>
             All == {ops[i] : i \in DOMAIN ops} \cup {last[1]}
  <2>2. Len(order) \in Nat
    BY FiniteTasks, OrderFacts
  <2>3. \A i \in 1..2 * Len(order) : ops[i].op \in {"revoke", "ready"}
    <3> TAKE i \in 1..2 * Len(order)
    <3>1. 2 - (i % 2) \in {1, 2}
      BY <2>2
    <3> QED
      BY <3>1 DEF Revocation, Op
  <2>4. ops \in [1..2 * Len(order) -> All] /\ 2 * Len(order) \in Nat /\ last \in Seq(All)
    BY <2>2
  <2>5. loop' = ops \o last /\ last[1].op = "clear" /\ Len(last) = 1
    BY <2>1 DEF Op
  <2> HIDE DEF ops, last, All
  <2>6. ops \in Seq(All) /\ Len(ops) = 2 * Len(order)
    BY <2>4, FunctionIsSeq
  <2>7. /\ DOMAIN loop' = 1..Len(ops) + Len(last)
        /\ \A i \in 1..Len(ops) : loop'[i] = ops[i]
        /\ \A i \in 1..Len(last) : loop'[Len(ops) + i] = last[i]
    <3>1. ops \in Seq(All) /\ last \in Seq(All) /\ loop' = ops \o last
      BY <2>4, <2>5, <2>6
    <3> QED
      BY <3>1, ConcatIs
  <2>8. /\ DOMAIN loop' = 1..2 * Len(order) + 1
        /\ \A i \in 1..2 * Len(order) : loop'[i] = ops[i]
        /\ loop'[2 * Len(order) + 1] = last[1]
    BY <2>5, <2>6, <2>7
  <2>9. \A i \in DOMAIN loop' : loop'[i].op \in {"revoke", "ready", "clear"}
    <3>1. \A i \in DOMAIN loop' : i \in 1..2 * Len(order) \/ i = 2 * Len(order) + 1
      BY <2>2, <2>8
    <3> QED
      BY <2>3, <2>5, <2>8, <3>1
  <2> QED
    BY <1>4, <2>9 DEF ClearQueue, Begins, LostFirst
<1>5. CASE Tick
  <2>1. PICK order \in SetToSeqs(Stale) :
           loop' = [i \in DOMAIN order |-> Op("lost", order[i], NoTask, 0)]
                   \o <<Op("expire", NoNode, NoTask, 0), Schedule>>
    BY <1>5 DEF Tick
  <2> DEFINE ops == [i \in DOMAIN order |-> Op("lost", order[i], NoTask, 0)]
             rest == <<Op("expire", NoNode, NoTask, 0), Schedule>>
  <2>2. Len(order) \in Nat /\ DOMAIN order = 1..Len(order) /\ \A i \in DOMAIN order : order[i] \in Nodes
    BY FS_Subset, DispatchAssumption, OrderFacts DEF Stale
  <2>3. ops \in [1..Len(order) -> Ops] /\ rest \in Seq(Ops) /\ Len(rest) = 2
    BY <2>2, OpsMade
  <2>4. ops \in Seq(Ops) /\ Len(ops) = Len(order)
    BY <2>2, <2>3, FunctionIsSeq
  <2>5. \A i \in 1..Len(order) : ops[i].op = "lost"
    BY <2>2 DEF Op
  <2>6. rest[1].op = "expire" /\ rest[2].op = "schedule"
    BY DEF Op, Schedule
  <2> HIDE DEF ops, rest
  <2>7. /\ loop' \in Seq(Ops) /\ Len(loop') = Len(order) + 2
        /\ \A i \in 1..Len(order) + 2 :
              loop'[i] = IF i <= Len(order) THEN ops[i] ELSE rest[i - Len(order)]
    BY <2>1, <2>3, <2>4, ConcatProperties DEF ops, rest
  <2>8. DOMAIN loop' = 1..Len(order) + 2
    BY <2>7, LenProperties
  <2>9. \A i \in DOMAIN loop' : IF i <= Len(order) THEN loop'[i].op = "lost"
                                ELSE loop'[i].op \in {"expire", "schedule"}
    <3> TAKE i \in DOMAIN loop'
    <3>1. CASE i <= Len(order)
      BY <2>2, <2>5, <2>7, <2>8, <3>1
    <3>2. CASE ~(i <= Len(order))
      <4>1. i - Len(order) \in {1, 2}
        BY <2>2, <2>8, <3>2
      <4> QED
        BY <2>6, <2>7, <2>8, <3>2, <4>1
    <3> QED
      BY <3>1, <3>2
  <2>10. Begins(loop')
    <3>1. \A i \in DOMAIN loop' : loop'[i].op = "lost" => i <= Len(order)
      BY <2>9
    <3>2. \A i \in DOMAIN loop' : \A k \in 1..i : k \in DOMAIN loop' /\ (i <= Len(order) => k <= Len(order))
      BY <2>2, <2>8
    <3> QED
      BY <2>9, <3>1, <3>2 DEF Begins, LostFirst
  <2> QED
    BY <1>5, <2>10 DEF Tick
<1>6. ASSUME NEW n \in Nodes, Kick(n)
      PROVE  \/ Idle /\ Begins(loop') /\ UNCHANGED parked
             \/ Idle /\ \E rest : Tame(rest) /\ GoOn(rest)
  <2>1. Begins(<<Op("kick", n, NoTask, 0)>>) /\ Tame(<<Op("kick", n, NoTask, 0)>>)
    BY <1>0 DEF Op, Tame
  <2> QED
    BY <1>6, <2>1 DEF Kick
<1>7. ASSUME NEW n \in Nodes, NEW c \in Links,
             OnMessage(n, c) \/ OnDisconnect(n, c) \/ Accepted(n, c) \/ AcceptFails(n, c)
      PROVE  \/ UNCHANGED <<loop, parked>>
             \/ Idle /\ Begins(loop') /\ UNCHANGED parked
             \/ Idle /\ \E rest : Tame(rest) /\ GoOn(rest)
  <2>1. Begins(<<Schedule>>)
    BY <1>0 DEF Schedule, Op
  <2>2. CASE OnHeartbeat(n, c)
    BY <2>1, <2>2 DEF OnHeartbeat, Takes
  <2>3. CASE OnResult(n, c)
    <3>1. \A outcome : \A rest \in Wrapup(n, outcome) : Tame(rest)
      BY WrapupIs DEF Tame, Op, Schedule
    <3>2. Idle
      BY <2>3 DEF OnResult, Takes
    <3>3. CASE \E outcome : \E rest \in Wrapup(n, outcome) : GoOn(rest)
      BY <3>1, <3>2, <3>3
    <3>4. CASE loop' = <<Schedule>> /\ UNCHANGED parked
      BY <2>1, <3>2, <3>4
    <3> QED
      BY <2>3, <3>3, <3>4 DEF OnResult
  <2>4. CASE OnLeave(n, c)
    BY <2>1, <2>4 DEF OnLeave, Takes
  <2>5. CASE OnProgress(n, c)
    BY <2>5 DEF OnProgress
  <2>6. CASE OnDisconnect(n, c) \/ Accepted(n, c) \/ AcceptFails(n, c)
    BY <2>6 DEF OnDisconnect, Accepted, AcceptFails
  <2> QED
    BY <1>7, <2>2, <2>3, <2>4, <2>5, <2>6 DEF OnMessage
<1>8. ASSUME NEW n \in Nodes, HeartbeatLate(n) \/ GraceEnds(n) \/ AgentStep(n) PROVE UNCHANGED <<loop, parked>>
  BY <1>8 DEF HeartbeatLate, GraceEnds, AgentStep, AgentRegister, AgentConnect,
              AgentHeartbeat, AgentRefuses, AgentAccepts, AgentRevoked, JobBegins, JobReports,
              JobCancelled, JobLeaves, AgentDrops, AgentCrash, AgentLeave, Dies
<1>9. ASSUME NEW t \in Tasks, LeaseLapses(t) PROVE UNCHANGED <<loop, parked>>
  BY <1>9 DEF LeaseLapses
<1>10. CASE StepAssign \/ StepRevoke
  BY <1>10 DEF StepAssign, StepRevoke, At
<1>11. CASE StepReady \/ StepDelete \/ StepClear \/ StepKick \/ StepLost \/ StepExpire
  BY <1>11 DEF StepReady, StepDelete, StepClear, StepKick, StepLost, StepExpire, At
<1>13. CASE StepCompact
  BY <1>13 DEF StepCompact, At
<1>12. CASE ServerRestart \/ UNCHANGED vars
  BY <1>12 DEF ServerRestart, vars
<1> QED
  BY <1>1, <1>2, <1>3, <1>4, <1>5, <1>6, <1>7, <1>8, <1>9, <1>10, <1>11, <1>12, <1>13 DEF Next, LoopStep

\* What is left after a step is what was left before, without the first.
LEMMA RestFacts ==
    ASSUME ServerTypes, loop # <<>>
    PROVE  /\ DOMAIN loop = 1..Len(loop) /\ Len(loop) \in Nat \ {0} /\ Head(loop) = loop[1]
           /\ DOMAIN Rest = 1..Len(loop) - 1
           /\ \A i \in DOMAIN Rest : Rest[i] = loop[i + 1] /\ i + 1 \in DOMAIN loop
<1>1. loop \in Seq(Ops) /\ Len(loop) \in Nat \ {0} /\ DOMAIN loop = 1..Len(loop)
  BY EmptySeq, LenProperties DEF ServerTypes, LoopTypes
<1>2. /\ Rest \in Seq(Ops) /\ Len(Rest) = Len(loop) - 1
      /\ \A i \in 1..Len(Rest) : Rest[i] = loop[i + 1]
  BY <1>1, HeadTailProperties DEF Rest
<1>3. DOMAIN Rest = 1..Len(loop) - 1
  BY <1>2, LenProperties
<1>4. Head(loop) = loop[1]
  BY <1>1
<1> QED
  BY <1>1, <1>2, <1>3, <1>4

\* A handler that is not at a lost node has no lost node left.
LEMMA NoneLost ==
    ASSUME ServerTypes, SweepInv, loop # <<>>, Head(loop).op # "lost"
    PROVE  \A i \in DOMAIN loop : loop[i].op # "lost"
<1>1. \A i \in DOMAIN loop : 1 \in 1..i
  BY RestFacts
<1> QED
  BY <1>1, RestFacts DEF SweepInv

\* When a summary is submitted, a scheduling pass takes the first place.
LEMMA PassInstead ==
    ASSUME ServerTypes, loop # <<>>, loop' = [loop EXCEPT ![1] = Schedule]
    PROVE  /\ DOMAIN loop' = DOMAIN loop
           /\ \A i \in DOMAIN loop : loop'[i] = IF i = 1 THEN Schedule ELSE loop[i]
<1>1. loop \in [1..Len(loop) -> Ops]
  BY LenProperties DEF ServerTypes, LoopTypes
<1> QED
  BY <1>1

LEMMA SweepStep ==
    ASSUME ServerTypes, SweepInv, [Next]_vars
    PROVE  SweepInv'
<1>0. \A rest \in parked : \A i \in DOMAIN rest : rest[i].op # "lost"
  BY DEF SweepInv
<1> DEFINE Lostless(ops) == \A i \in DOMAIN ops : ops[i].op # "lost"
<1>1. ASSUME Lostless(loop') \/ LostFirst(loop'), \A rest \in parked' : rest \in parked \/ Lostless(rest)
      PROVE  SweepInv'
  BY <1>0, <1>1 DEF SweepInv, LostFirst
<1>2. LostFirst(loop)
  BY DEF SweepInv, LostFirst
<1>3. Lostless(<<>>)
  OBVIOUS
<1>4. ASSUME loop # <<>> PROVE LostFirst(Rest)
  <2> SUFFICES ASSUME NEW i \in DOMAIN Rest, Rest[i].op = "lost", NEW k \in 1..i PROVE Rest[k].op = "lost"
    BY DEF LostFirst
  <2>1. i + 1 \in DOMAIN loop /\ loop[i + 1].op = "lost"
    BY <1>4, RestFacts
  <2>2. k + 1 \in 1..i + 1 /\ k \in DOMAIN Rest
    BY <1>4, RestFacts
  <2> QED
    BY <1>2, <1>4, <2>1, <2>2, RestFacts DEF LostFirst
<1>5. ASSUME loop # <<>>, Head(loop).op # "lost" PROVE Lostless(loop) /\ Lostless(Rest)
  BY <1>5, NoneLost, RestFacts
<1>6. \A rest : Tame(rest) => Lostless(rest)
  BY DEF Tame
<1>7. ASSUME NEW rest, Lostless(rest), GoOn(rest) PROVE SweepInv'
  <2>1. CASE loop' = rest /\ UNCHANGED parked
    BY <1>1, <1>7, <2>1
  <2>2. CASE loop' = <<>> /\ parked' = parked \cup {rest}
    BY <1>1, <1>3, <1>7, <2>2
  <2> QED
    BY <1>7, <2>1, <2>2 DEF GoOn
<1> HIDE DEF Lostless
<1>8. CASE UNCHANGED <<loop, parked>>
  BY <1>1, <1>2, <1>8
<1>9. CASE loop # <<>> /\ loop' = Rest /\ UNCHANGED parked
  BY <1>1, <1>4, <1>9
<1>10. CASE loop # <<>> /\ Head(loop).op \in {"assign", "tell", "revoke"} /\ GoOn(Rest)
  BY <1>5, <1>7, <1>10
<1>11. CASE Resume
  <2>1. PICK rest \in parked : loop' = rest /\ parked' = parked \ {rest}
    BY <1>11 DEF Resume
  <2> QED
    BY <1>0, <1>1, <2>1 DEF Lostless
<1>12. CASE Idle /\ Begins(loop') /\ UNCHANGED parked
  BY <1>1, <1>12 DEF Begins
<1>13. CASE \E rest : Tame(rest) /\ GoOn(rest)
  BY <1>6, <1>7, <1>13
<1>16. CASE /\ loop # <<>> /\ Head(loop).op = "compact"
            /\ loop' = [loop EXCEPT ![1] = Schedule] /\ UNCHANGED parked
  <2>1. Schedule.op # "lost" /\ Head(loop).op # "lost"
    BY <1>16 DEF Schedule, Op
  <2>2. Lostless(loop')
    BY <1>5, <1>16, <2>1, PassInstead DEF Lostless
  <2> QED
    BY <1>1, <1>16, <2>2
<1>14. CASE loop' = <<>> /\ (parked' = {} \/ UNCHANGED parked)
  BY <1>1, <1>3, <1>14
<1>15. CASE StepSchedule
  <2>1. PICK S \in SUBSET R!Has({"queued"}) : \E asg \in [S -> ReadyNodes], order \in SetToSeqs(S) :
           loop' = Batch(asg, order) \o Rest
    BY <1>15 DEF StepSchedule
  <2>2. PICK asg \in [S -> ReadyNodes], order \in SetToSeqs(S) : loop' = Batch(asg, order) \o Rest
    BY <2>1
  <2>3. loop # <<>> /\ Head(loop).op = "schedule" /\ UNCHANGED parked
    BY <1>15 DEF StepSchedule, At
  <2> DEFINE b == Batch(asg, order)
             All == {b[i] : i \in 1..Len(order)} \cup {Rest[i] : i \in DOMAIN Rest}
  <2>4. /\ Len(order) \in Nat /\ DOMAIN b = 1..Len(order)
        /\ \A i \in 1..Len(order) : b[i].op = "assign"
    BY BatchFacts, OpFields
  <2>5. b \in [1..Len(order) -> All] /\ Rest \in Seq(All)
    <3>1. b = [i \in DOMAIN b |-> b[i]]
      BY DEF Batch
    <3>2. Rest \in [1..Len(Rest) -> All] /\ Len(Rest) \in Nat
      BY <2>3, HeadIsOp, LenProperties
    <3> QED
      BY <2>4, <3>1, <3>2, FunctionIsSeq
  <2>6. loop' = b \o Rest
    BY <2>2
  <2> HIDE DEF b, All
  <2>7. b \in Seq(All) /\ Len(b) = Len(order)
    BY <2>4, <2>5, FunctionIsSeq
  <2>8. /\ \A i \in 1..Len(b) : loop'[i] = b[i]
        /\ \A i \in 1..Len(Rest) : loop'[Len(b) + i] = Rest[i]
        /\ \A i \in DOMAIN loop' : i \in 1..Len(b) \/ i - Len(b) \in 1..Len(Rest)
        /\ DOMAIN Rest = 1..Len(Rest) /\ Len(b) \in Nat /\ DOMAIN loop' = 1..Len(b) + Len(Rest)
    <3>1. b \in Seq(All) /\ Rest \in Seq(All) /\ loop' = b \o Rest
      BY <2>5, <2>6, <2>7
    <3> QED
      BY <3>1, ConcatIs
  <2>9. Lostless(loop')
    <3> SUFFICES ASSUME NEW i \in DOMAIN loop' PROVE loop'[i].op # "lost"
      BY DEF Lostless
    <3>1. CASE i \in 1..Len(b)
      BY <2>4, <2>7, <2>8, <3>1
    <3>2. CASE i - Len(b) \in 1..Len(Rest)
      <4>1. loop'[i] = Rest[i - Len(b)]
        <5>1. Len(b) + (i - Len(b)) = i
          BY <2>8
        <5> QED
          BY <2>8, <3>2, <5>1
      <4> QED
        BY <1>5, <2>3, <2>8, <3>2, <4>1 DEF Lostless
    <3> QED
      BY <2>8, <3>1, <3>2
  <2> QED
    BY <1>1, <2>3, <2>9
<1> QED
  BY <1>8, <1>9, <1>10, <1>11, <1>12, <1>13, <1>14, <1>15, <1>16, LoopMoves
-----------------------------------------------------------------------------
(***************************************************************************)
(* Who takes a task from its node                                          *)
(***************************************************************************)
LiveRowsStay ==
    \A t \in Tasks : rows'[t].state \in R!InFlight =>
        /\ rows[t].state \in R!InFlight
        /\ rows'[t].attempt = rows[t].attempt /\ rows'[t].node = rows[t].node

\* Only a scheduling pass takes a task in flight.
LEMMA LiveStays ==
    ASSUME R!TypeOK, ServerTypes, [Next]_vars
    PROVE  LiveRowsStay \/ StepSchedule
<1> USE DEF R!InFlight
<1>0. rows \in [Tasks -> R!Row]
  BY DEF R!TypeOK
<1>1. ASSUME UNCHANGED table PROVE LiveRowsStay
  BY <1>1 DEF table, LiveRowsStay
<1>2. ASSUME NEW t \in Tasks, NEW k \in Keys, R!Submit(t, k) PROVE LiveRowsStay
  BY <1>0, <1>2 DEF R!Submit, R!NoRow, LiveRowsStay
<1>3. ASSUME NEW t, R!Cancel(t) \/ R!Delete(t) \/ R!LeaseLapses(t) PROVE LiveRowsStay
  <2>1. CASE R!Cancel(t)
    BY <1>0, <2>1 DEF R!Cancel, LiveRowsStay, R!Row
  <2>2. CASE R!Delete(t)
    BY <1>0, <2>2 DEF R!Delete, R!NoRow, LiveRowsStay
  <2>3. CASE R!LeaseLapses(t)
    BY <1>0, <2>3 DEF R!LeaseLapses, LiveRowsStay, R!Row
  <2> QED
    BY <1>3, <2>1, <2>2, <2>3
<1>4. ASSUME NEW t, NEW a, R!MarkRunning(t, a) PROVE LiveRowsStay
  BY <1>0, <1>4 DEF R!MarkRunning, LiveRowsStay, R!Row
<1>5. ASSUME NEW t, NEW a, NEW outcome \in {"succeeded", "failed"},
             R!Retry(t, a, outcome) \/ R!Commit(t, a, outcome)
      PROVE  LiveRowsStay
  <2>1. CASE R!Retry(t, a, outcome)
    BY <1>0, <2>1 DEF R!Retry, R!Requeued, LiveRowsStay, R!Row
  <2>2. CASE R!Commit(t, a, outcome)
    BY <1>0, <2>2 DEF R!Commit, LiveRowsStay, R!Row
  <2> QED
    BY <1>5, <2>1, <2>2
<1>6. ASSUME NEW lost, R!LoseNodes(lost) PROVE LiveRowsStay
  <2>1. \A t \in Tasks : R!AfterLoss(rows[t]).state \in {"queued", "failed"}
    BY <1>0 DEF R!AfterLoss, R!Requeued, R!Row
  <2> QED
    BY <1>6, <2>1 DEF R!LoseNodes, LiveRowsStay
<1>7. ASSUME NEW n, LoseNode(n) PROVE LiveRowsStay
  BY <1>1, <1>6, <1>7 DEF LoseNode, R!OnNodeLost
<1>8. ASSUME NEW t \in Tasks, \/ \E k \in Keys : ClientSubmit(t, k)
                             \/ ClientCancel(t) \/ ClientDelete(t) \/ LeaseLapses(t)
      PROVE  LiveRowsStay
  BY <1>1, <1>2, <1>3, <1>8 DEF ClientSubmit, ClientCancel, ClientDelete, LeaseLapses
<1>9. ASSUME NEW n \in Nodes, NEW c \in Links,
             \/ OnHeartbeat(n, c) \/ OnProgress(n, c) \/ OnLeave(n, c) \/ OnDisconnect(n, c)
             \/ Accepted(n, c) \/ AcceptFails(n, c)
      PROVE  LiveRowsStay
  BY <1>1, <1>4, <1>7, <1>9 DEF OnHeartbeat, OnProgress, OnLeave, OnDisconnect, Accepted, AcceptFails
<1>10. ASSUME NEW n \in Nodes, NEW c \in Links, OnResult(n, c) PROVE LiveRowsStay
  <2>1. Head(link[n][c].up) \in Ups /\ Head(link[n][c].up).type = "result"
    BY <1>10, TakenIsSent DEF OnResult
  <2> QED
    BY <1>1, <1>5, <1>10, <2>1 DEF OnResult, Ups
<1>11. ASSUME NEW n \in Nodes, Kick(n) \/ HeartbeatLate(n) \/ GraceEnds(n) \/ AgentStep(n)
       PROVE  LiveRowsStay
  BY <1>1, <1>11 DEF Kick, HeartbeatLate, GraceEnds, AgentStep, AgentRegister, AgentConnect,
              AgentHeartbeat, AgentRefuses, AgentAccepts, AgentRevoked, JobBegins, JobReports,
              JobCancelled, JobLeaves, AgentDrops, AgentCrash, AgentLeave, Dies
<1>12. CASE StepAssign \/ StepKick \/ StepLost
  BY <1>1, <1>7, <1>12 DEF StepAssign, StepKick, StepLost
<1>13. CASE StepDelete \/ StepExpire \/ StepCompact
  BY <1>1, <1>2, <1>3, <1>6, <1>13 DEF StepDelete, StepExpire, StepCompact, R!ExpireLeases
<1>14. CASE StepClear
  BY <1>14 DEF StepClear, R!Clear, R!NoRow, LiveRowsStay
<1>15. CASE StepRevoke \/ StepReady \/ Resume \/ Tick \/ ClearQueue \/ UNCHANGED vars
  BY <1>1, <1>15 DEF StepRevoke, StepReady, Resume, Tick, ClearQueue, vars
<1>16. CASE ServerRestart
  BY <1>16 DEF ServerRestart, R!Restart, LiveRowsStay
<1> QED
  BY <1>8, <1>9, <1>10, <1>11, <1>12, <1>13, <1>14, <1>15, <1>16 DEF Next, OnMessage, LoopStep

\* A node whose tasks are taken from it is left with none.
LEMMA LoseNodeEmpties ==
    ASSUME R!TypeOK, NEW n \in Nodes, LoseNode(n)
    PROVE  R!Load(n)' = {}
<1>1. CASE R!Load(n) = {}
  <2>1. UNCHANGED rows
    BY <1>1 DEF LoseNode, table
  <2> QED
    BY <1>1, <2>1 DEF R!Load, R!Has
<1>2. CASE R!Load(n) # {}
  <2>1. \A t \in Tasks : rows'[t] = IF t \in R!Load(n) THEN R!AfterLoss(rows[t]) ELSE rows[t]
    BY <1>2 DEF LoseNode, R!OnNodeLost, R!LoseNodes, R!Load, R!Has
  <2>2. \A t \in Tasks : R!AfterLoss(rows[t]).state \in {"queued", "failed"}
    BY DEF R!AfterLoss, R!Requeued, R!TypeOK, R!Row
  <2> QED
    BY <2>1, <2>2 DEF R!Load, R!Has, R!InFlight
<1> QED
  BY <1>1, <1>2

\* Who marks a node offline takes its tasks, but for the tick.
LEMMA GoesOffline ==
    ASSUME R!TypeOK, ServerTypes, [Next]_vars, NEW n \in Nodes, Online(n), ~Online(n)'
    PROVE  LoseNode(n) \/ (Tick /\ n \in Stale)
<1>0. roster \in [Nodes -> RosterRow]
  BY DEF ServerTypes, RosterTypes
<1>1. ~UNCHANGED roster
  BY DEF Online
<1>2. \A k \in Nodes, status \in {"ready", "busy"} : \A current : roster' # SetStatus(roster, k, status, current)
  BY <1>0 DEF SetStatus, Online, RosterRow
<1>3. ASSUME NEW k \in Nodes, \/ \E status, current : roster' = SetStatus(roster, k, status, current)
                             \/ roster' = Removed(roster, k)
      PROVE  k = n
  BY <1>0, <1>3 DEF SetStatus, Removed, Online
<1>4. ASSUME NEW t \in Tasks, \/ \E k \in Keys : ClientSubmit(t, k)
                             \/ ClientCancel(t) \/ ClientDelete(t) \/ LeaseLapses(t)
      PROVE  FALSE
  BY <1>1, <1>4 DEF ClientSubmit, ClientCancel, ClientDelete, LeaseLapses, server
<1>5. ASSUME NEW k \in Nodes, NEW c \in Links,
             OnMessage(k, c) \/ OnDisconnect(k, c) \/ Accepted(k, c) \/ AcceptFails(k, c)
      PROVE  LoseNode(n)
  <2>1. CASE OnHeartbeat(k, c)
    <3>1. Head(link[k][c].up) \in Ups /\ Head(link[k][c].up).type = "heartbeat"
      BY <2>1, TakenIsSent DEF OnHeartbeat
    <3>2. Head(link[k][c].up).info \in {"busy", "ready"}
      BY <3>1 DEF Ups
    <3>3. roster' = Heartbeat(roster, k, Head(link[k][c].up))
      BY <2>1 DEF OnHeartbeat
    <3> QED
      BY <1>0, <3>2, <3>3 DEF Heartbeat, Online
  <2>2. CASE OnResult(k, c)
    BY <1>1, <1>2, <2>2 DEF OnResult
  <2>3. CASE OnLeave(k, c)
    BY <1>3, <2>3 DEF OnLeave
  <2>4. CASE OnProgress(k, c) \/ OnDisconnect(k, c) \/ Accepted(k, c) \/ AcceptFails(k, c)
    BY <1>1, <2>4 DEF OnProgress, OnDisconnect, Accepted, AcceptFails, server
  <2> QED
    BY <1>5, <2>1, <2>2, <2>3, <2>4 DEF OnMessage
<1>6. ASSUME NEW k \in Nodes, HeartbeatLate(k) \/ GraceEnds(k) \/ AgentRegister(k) PROVE FALSE
  BY <1>0, <1>6 DEF HeartbeatLate, GraceEnds, AgentRegister, Registered, Online, RosterRow
<1>7. ASSUME NEW k \in Nodes, \/ Kick(k) \/ AgentConnect(k) \/ AgentHeartbeat(k) \/ AgentDrops(k)
                             \/ AgentCrash(k) \/ AgentLeave(k)
      PROVE  FALSE
  BY <1>1, <1>7 DEF Kick, AgentConnect, AgentHeartbeat, AgentDrops, AgentCrash, AgentLeave, Dies, server
<1>8. ASSUME NEW k \in Nodes, NEW c \in Links, AgentRefuses(k, c) \/ AgentAccepts(k, c) \/ AgentRevoked(k, c)
      PROVE  FALSE
  BY <1>1, <1>8 DEF AgentRefuses, AgentAccepts, AgentRevoked, server
<1>9. ASSUME NEW k \in Nodes, NEW j \in jobs[k], JobStep(k, j) PROVE FALSE
  BY <1>1, <1>9, JobStepFacts DEF server
<1>10. ASSUME StepAssign PROVE LoseNode(n)
  <2>1. Head(loop).node \in Nodes
    BY <1>10, HeadIsOp DEF StepAssign, At, Ops
  <2> QED
    BY <1>1, <1>2, <1>3, <1>10, <2>1 DEF StepAssign
<1>11. ASSUME StepReady PROVE FALSE
  <2>1. Head(loop).node \in Nodes
    BY <1>11, HeadIsOp DEF StepReady, At, Ops
  <2> QED
    BY <1>2, <1>11, <2>1 DEF StepReady
<1>12. ASSUME StepKick PROVE LoseNode(n)
  <2>1. Head(loop).node \in Nodes
    BY <1>12, HeadIsOp DEF StepKick, At, Ops
  <2> QED
    BY <1>3, <1>12, <2>1 DEF StepKick
<1>13. ASSUME \/ StepSchedule \/ StepRevoke \/ StepCompact \/ StepDelete \/ StepClear \/ StepLost
              \/ StepExpire \/ Resume \/ ClearQueue \/ ServerRestart \/ UNCHANGED vars
       PROVE  FALSE
  BY <1>1, <1>13 DEF StepSchedule, StepRevoke, StepCompact, StepDelete, StepClear, StepLost, StepExpire,
                     Resume, ClearQueue, ServerRestart, vars, server
<1>14. ASSUME Tick PROVE n \in Stale
  <2>1. roster'[n] = Swept[n]
    BY <1>14 DEF Tick
  <2> QED
    BY <1>0, <2>1 DEF Swept, Online
<1>15. ASSUME NEW k \in Nodes, AgentStep(k) PROVE FALSE
  BY <1>6, <1>7, <1>8, <1>9, <1>15 DEF AgentStep, JobStep
<1>16. LoopStep => LoseNode(n)
  BY <1>10, <1>11, <1>12, <1>13 DEF LoopStep
<1> QED
  BY <1>4, <1>5, <1>6, <1>7, <1>13, <1>14, <1>15, <1>16 DEF Next

\* A handler at a lost node goes on with it.
LEMMA SweepGoesOn ==
    ASSUME ServerTypes, [Next]_vars, loop # <<>>, Head(loop).op = "lost"
    PROVE  StepLost \/ ServerRestart \/ UNCHANGED vars
<1>0. ~Idle
  BY DEF Idle
<1>1. ASSUME NEW t \in Tasks, \/ \E k \in Keys : ClientSubmit(t, k)
                             \/ ClientCancel(t) \/ ClientDelete(t) \/ LeaseLapses(t)
      PROVE  FALSE
  BY <1>0, <1>1 DEF ClientSubmit, ClientCancel, ClientDelete, LeaseLapses
<1>2. ASSUME NEW n \in Nodes, NEW c \in Links,
             OnMessage(n, c) \/ OnDisconnect(n, c) \/ Accepted(n, c) \/ AcceptFails(n, c)
      PROVE  FALSE
  BY <1>0, <1>2 DEF OnMessage, OnHeartbeat, OnProgress, OnResult, OnLeave, OnDisconnect, Accepted,
                    AcceptFails, Takes
<1>3. ASSUME NEW n \in Nodes, Kick(n) \/ HeartbeatLate(n) \/ GraceEnds(n) \/ AgentStep(n) PROVE FALSE
  BY <1>0, <1>3 DEF Kick, HeartbeatLate, GraceEnds, AgentStep, AgentRegister, AgentConnect,
              AgentHeartbeat, AgentRefuses, AgentAccepts, AgentRevoked, Receives, JobBegins,
              JobReports, JobCancelled, JobLeaves, AgentDrops, AgentCrash, AgentLeave
<1>4. LoopStep => StepLost
  BY DEF LoopStep, StepSchedule, StepAssign, StepRevoke, StepReady, StepCompact, StepDelete, StepClear, StepKick,
         StepExpire, At
<1>5. ~Resume /\ ~Tick /\ ~ClearQueue
  BY <1>0 DEF Resume, Tick, ClearQueue
<1> QED
  BY <1>1, <1>2, <1>3, <1>4, <1>5 DEF Next

LEMMA StrandingStep ==
    ASSUME R!TypeOK, ServerTypes, SweepInv, [Next]_vars, NEW n \in Nodes, Stranded(n)'
    PROVE  Stranded(n) \/ ServerRestart
<1>0. /\ ~Online(n)' /\ R!Load(n)' # {}
      /\ \A i \in DOMAIN loop' : ~(loop'[i].op = "lost" /\ loop'[i].node = n)
  BY DEF Stranded
<1>1. PICK t \in Tasks : rows'[t].state \in R!InFlight /\ rows'[t].node = n
  BY <1>0 DEF R!Load, R!Has, R!InFlight
<1>2. CASE StepSchedule
  <2>1. PICK S \in SUBSET R!Has({"queued"}) : \E asg \in [S -> ReadyNodes] : R!Assign(asg)
    BY <1>2 DEF StepSchedule
  <2>2. PICK asg \in [S -> ReadyNodes] : R!Assign(asg)
    BY <2>1
  <2>3. ~Online(n)
    BY <1>0, <1>2 DEF StepSchedule, Online
  <2>4. n \notin ReadyNodes
    BY <2>3 DEF Online, ReadyNodes
  <2>5. t \notin S
    <3>1. t \in S => rows'[t].node = asg[t]
      BY <2>2 DEF R!Assign, R!Assigned, R!TypeOK, R!Row
    <3> QED
      BY <1>1, <2>4, <3>1
  <2>6. R!Load(n) # {}
    BY <1>1, <2>2, <2>5 DEF R!Assign, R!Load, R!Has
  <2>7. \A i \in DOMAIN loop : loop[i].op # "lost"
    BY <1>2, NoneLost DEF StepSchedule, At
  <2> QED
    BY <2>3, <2>6, <2>7 DEF Stranded
<1>3. CASE LiveRowsStay
  <2>1. R!Load(n) # {}
    BY <1>1, <1>3 DEF LiveRowsStay, R!Load, R!Has
  <2>2. ~LoseNode(n)
    BY <1>0, LoseNodeEmpties
  <2>3. ASSUME NEW i \in DOMAIN loop, loop[i].op = "lost", loop[i].node = n PROVE ServerRestart
    <3>1. loop # <<>> /\ Head(loop).op = "lost"
      <4>1. loop # <<>>
        BY <2>3
      <4>2. 1 \in 1..i
        BY <4>1, RestFacts
      <4> QED
        BY <2>3, <4>1, <4>2, RestFacts DEF SweepInv
    <3>2. CASE StepLost
      <4>1. LoseNode(loop[1].node) /\ loop' = Rest
        BY <3>1, <3>2, RestFacts DEF StepLost
      <4>2. i # 1
        BY <2>2, <2>3, <4>1
      <4>3. i - 1 \in DOMAIN Rest /\ Rest[i - 1] = loop[i]
        BY <3>1, <4>2, RestFacts
      <4> QED
        BY <1>0, <2>3, <4>1, <4>3
    <3>3. CASE UNCHANGED vars
      BY <1>0, <2>3, <3>3 DEF vars, server
    <3> QED
      BY <3>1, <3>2, <3>3, SweepGoesOn
  <2>4. ASSUME Online(n) PROVE FALSE
    <3>1. Tick /\ n \in Stale
      BY <1>0, <2>2, <2>4, GoesOffline
    <3>2. PICK order \in SetToSeqs(Stale) :
             loop' = [i \in DOMAIN order |-> Op("lost", order[i], NoTask, 0)]
                     \o <<Op("expire", NoNode, NoTask, 0), Schedule>>
      BY <3>1 DEF Tick
    <3>3. /\ Len(order) \in Nat /\ DOMAIN order = 1..Len(order) /\ \A i \in DOMAIN order : order[i] \in Nodes
          /\ \E i \in DOMAIN order : order[i] = n
      BY <3>1, FS_Subset, DispatchAssumption, OrderFacts DEF Stale
    <3>4. PICK i \in DOMAIN order : order[i] = n
      BY <3>3
    <3> DEFINE ops == [k \in DOMAIN order |-> Op("lost", order[k], NoTask, 0)]
               rest == <<Op("expire", NoNode, NoTask, 0), Schedule>>
    <3>5. ops \in [1..Len(order) -> Ops] /\ rest \in Seq(Ops) /\ ops[i] = Op("lost", n, NoTask, 0)
      BY <3>3, <3>4, OpsMade
    <3>6. ops \in Seq(Ops) /\ Len(ops) = Len(order)
      BY <3>3, <3>5, FunctionIsSeq
    <3>7. loop' = ops \o rest
      BY <3>2
    <3> HIDE DEF ops, rest
    <3>8. /\ ops \o rest \in Seq(Ops) /\ Len(ops \o rest) = Len(ops) + Len(rest)
          /\ \A k \in 1..Len(ops) + Len(rest) :
                (ops \o rest)[k] = IF k <= Len(ops) THEN ops[k] ELSE rest[k - Len(ops)]
      BY <3>5, <3>6, ConcatProperties, Zenon
    <3>9. Len(rest) \in Nat /\ DOMAIN loop' = 1..Len(ops) + Len(rest)
      BY <3>5, <3>7, <3>8, LenProperties
    <3>10. i \in DOMAIN loop' /\ loop'[i] = Op("lost", n, NoTask, 0)
      BY <3>3, <3>5, <3>6, <3>7, <3>8, <3>9
    <3> QED
      BY <1>0, <3>10 DEF Op
  <2> QED
    BY <2>1, <2>3, <2>4 DEF Stranded
<1> QED
  BY <1>2, <1>3, LiveStays

-----------------------------------------------------------------------------
(***************************************************************************)
(* Where an attempt is                                                     *)
(***************************************************************************)
AtLoop(t, a) == {<<"loop", loop[i].node, 0, i>> : i \in ToSend(t, a, loop)}
AtParked(t, a) ==
    UNION {{<<"parked", p[i].node, p, i>> : i \in ToSend(t, a, p)} : p \in parked}
AtLink(t, a) ==
    UNION {UNION {{<<"sent", n, c, i>> : i \in OnItsWay(t, a, link[n][c].down)} : c \in Links} : n \in Nodes}
AtJobs(t, a) == UNION {{<<"job", n, j, 0>> : j \in JobsOf(t, a, n)} : n \in Nodes}

LEMMA PlacesAre ==
    ASSUME NEW t, NEW a
    PROVE  /\ Places(t, a) = AtLoop(t, a) \cup AtParked(t, a) \cup AtLink(t, a) \cup AtJobs(t, a)
           /\ Places(t, a)' = AtLoop(t, a)' \cup AtParked(t, a)' \cup AtLink(t, a)' \cup AtJobs(t, a)'
  BY DEF Places, AtLoop, AtParked, AtLink, AtJobs

LEMMA PlaceKinds ==
    ASSUME NEW t, NEW a
    PROVE  /\ \A i \in ToSend(t, a, loop) : <<"loop", loop[i].node, 0, i>> \in Places(t, a)
           /\ \A rest \in parked : \A i \in ToSend(t, a, rest) :
                 <<"parked", rest[i].node, rest, i>> \in Places(t, a)
           /\ \A n \in Nodes, c \in Links : \A i \in OnItsWay(t, a, link[n][c].down) :
                 <<"sent", n, c, i>> \in Places(t, a)
           /\ \A n \in Nodes : \A j \in JobsOf(t, a, n) : <<"job", n, j, 0>> \in Places(t, a)
           /\ \A p \in AtLoop(t, a) : p[1] = "loop"
           /\ \A p \in AtParked(t, a) : p[1] = "parked"
           /\ \A p \in AtLink(t, a) : p[1] = "sent"
           /\ \A p \in AtJobs(t, a) : p[1] = "job"
<1>1. \A i \in ToSend(t, a, loop) : <<"loop", loop[i].node, 0, i>> \in AtLoop(t, a)
  BY DEF AtLoop
<1>2. \A rest \in parked : \A i \in ToSend(t, a, rest) :
         <<"parked", rest[i].node, rest, i>> \in AtParked(t, a)
  BY DEF AtParked
<1>3. \A n \in Nodes, c \in Links : \A i \in OnItsWay(t, a, link[n][c].down) :
         <<"sent", n, c, i>> \in AtLink(t, a)
  BY DEF AtLink
<1>4. \A n \in Nodes : \A j \in JobsOf(t, a, n) : <<"job", n, j, 0>> \in AtJobs(t, a)
  BY DEF AtJobs
<1>5. \A p \in AtLoop(t, a) : p[1] = "loop"
  BY DEF AtLoop
<1>6. \A p \in AtParked(t, a) : p[1] = "parked"
  BY DEF AtParked
<1>7. \A p \in AtLink(t, a) : p[1] = "sent"
  BY DEF AtLink
<1>8. \A p \in AtJobs(t, a) : p[1] = "job"
  BY DEF AtJobs
<1> QED
  BY <1>1, <1>2, <1>3, <1>4, <1>5, <1>6, <1>7, <1>8, PlacesAre

\* A step moves the places of an attempt, each to one place on the same node.
LEMMA HomedMovesOne ==
    ASSUME NEW t \in Tasks, NEW a, Homed(t, a), NEW f,
           rows'[t].state \in R!InFlight /\ rows'[t].attempt = a =>
              /\ rows[t].state \in R!InFlight
              /\ rows[t].attempt = a /\ rows'[t].node = rows[t].node,
           \A p \in Places(t, a)' : \E q \in Places(t, a) : p = f[q] /\ p[2] = q[2]
    PROVE  Homed(t, a)'
<1>1. \A p, q \in Places(t, a)' : p = q
  BY DEF Homed
<1>2. ASSUME rows'[t].state \in R!InFlight, rows'[t].attempt = a, NEW p \in Places(t, a)'
      PROVE  p[2] = rows'[t].node
  BY <1>2 DEF Homed
<1>3. (rows[t].state \in R!InFlight)' <=> rows'[t].state \in R!InFlight
  BY DEF R!InFlight
<1> QED
  BY <1>1, <1>2, <1>3 DEF Homed

LEMMA HomedMoves ==
    ASSUME LiveRowsStay, NEW t \in Tasks, NEW a, Homed(t, a), NEW f,
           \A p \in Places(t, a)' : \E q \in Places(t, a) : p = f[q] /\ p[2] = q[2]
    PROVE  Homed(t, a)'
  BY HomedMovesOne DEF LiveRowsStay

LEMMA HomedShrinks ==
    ASSUME LiveRowsStay, NEW t \in Tasks, NEW a, Homed(t, a), Places(t, a)' \subseteq Places(t, a)
    PROVE  Homed(t, a)'
<1> DEFINE f == [p \in Places(t, a) |-> p]
<1>1. \A p \in Places(t, a)' : p = f[p]
  OBVIOUS
<1> HIDE DEF f
<1> QED
  BY <1>1, HomedMoves

\* The rest of a handler is each place one step nearer.
LEMMA RestPlaces ==
    ASSUME ServerTypes, loop # <<>>, NEW t, NEW a, NEW i \in ToSend(t, a, Rest)
    PROVE  /\ i + 1 \in ToSend(t, a, loop) /\ i \in Nat /\ i + 1 # 1
           /\ loop[i + 1].node = Rest[i].node
           /\ <<"loop", Rest[i].node, 0, i + 1>> \in Places(t, a)
<1>1. /\ i + 1 \in ToSend(t, a, loop) /\ i \in Nat /\ i + 1 # 1
      /\ loop[i + 1].node = Rest[i].node
  BY RestFacts DEF ToSend
<1>2. <<"loop", loop[i + 1].node, 0, i + 1>> \in Places(t, a)
  BY <1>1, PlaceKinds
<1> QED
  BY <1>1, <1>2

\* Nothing on the websockets and with the agents is new.
SentStays(t, a) == AtLink(t, a)' \subseteq AtLink(t, a)
JobsStay(t, a) == AtJobs(t, a)' \subseteq AtJobs(t, a)

\* The running handler goes on, or is suspended; it may just have sent e.
LEMMA HomedGoOn ==
    ASSUME ServerTypes, LiveRowsStay, NEW t \in Tasks, NEW a, Homed(t, a),
           loop # <<>>, GoOn(Rest), JobsStay(t, a), NEW e,
           \A p \in AtLink(t, a)' :
              \/ p \in AtLink(t, a)
              \/ 1 \in ToSend(t, a, loop) /\ p = e /\ e[2] = loop[1].node
    PROVE  Homed(t, a)'
<1>1. ASSUME NEW f, NEW p \in AtLink(t, a)' \cup AtJobs(t, a)',
             \A q \in Places(t, a) : q[1] # "loop" => f[q] = q,
             \A q \in Places(t, a) : q[1] = "loop" /\ q[4] = 1 => f[q] = e
      PROVE  \E q \in Places(t, a) : p = f[q] /\ p[2] = q[2]
  <2>1. CASE p \in AtLink(t, a) \cup AtJobs(t, a)
    <3>1. p \in Places(t, a) /\ p[1] # "loop"
      BY <2>1, PlacesAre, PlaceKinds
    <3> QED
      BY <1>1, <3>1
  <2>2. CASE 1 \in ToSend(t, a, loop) /\ p = e /\ e[2] = loop[1].node
    <3> DEFINE q == <<"loop", loop[1].node, 0, 1>>
    <3>1. q \in Places(t, a)
      BY <2>2, PlaceKinds
    <3>2. q[1] = "loop" /\ q[4] = 1 /\ q[2] = loop[1].node
      OBVIOUS
    <3> HIDE DEF q
    <3> QED
      BY <1>1, <2>2, <3>1, <3>2
  <2> QED
    BY <1>1, <2>1, <2>2 DEF JobsStay
<1>2. CASE loop' = Rest /\ UNCHANGED parked
  <2> DEFINE f == [q \in Places(t, a) |-> IF q[1] # "loop" THEN q
                                          ELSE IF q[4] = 1 THEN e ELSE <<"loop", q[2], 0, q[4] - 1>>]
  <2>1. /\ \A q \in Places(t, a) : q[1] # "loop" => f[q] = q
        /\ \A q \in Places(t, a) : q[1] = "loop" /\ q[4] = 1 => f[q] = e
        /\ \A q \in Places(t, a) : q[1] = "loop" /\ q[4] # 1 => f[q] = <<"loop", q[2], 0, q[4] - 1>>
    OBVIOUS
  <2> HIDE DEF f
  <2>2. ASSUME NEW p \in AtLoop(t, a)' PROVE \E q \in Places(t, a) : p = f[q] /\ p[2] = q[2]
    <3>1. PICK i \in ToSend(t, a, Rest) : p = <<"loop", Rest[i].node, 0, i>>
      BY <1>2 DEF AtLoop, ToSend
    <3> DEFINE q == <<"loop", Rest[i].node, 0, i + 1>>
    <3>2. q \in Places(t, a) /\ i \in Nat /\ i + 1 # 1
      BY RestPlaces
    <3>3. q[1] = "loop" /\ q[2] = p[2] /\ q[4] = i + 1 /\ p = <<"loop", q[2], 0, i>>
      BY <3>1
    <3>4. (i + 1) - 1 = i
      BY <3>2
    <3> HIDE DEF q
    <3> QED
      BY <2>1, <3>2, <3>3, <3>4
  <2>3. ASSUME NEW p \in AtParked(t, a)' PROVE \E q \in Places(t, a) : p = f[q] /\ p[2] = q[2]
    <3>1. p \in AtParked(t, a)
      BY <1>2 DEF AtParked, ToSend
    <3>2. p \in Places(t, a) /\ p[1] # "loop"
      BY <3>1, PlacesAre, PlaceKinds
    <3> QED
      BY <2>1, <3>2
  <2>4. \A p \in AtLink(t, a)' \cup AtJobs(t, a)' : \E q \in Places(t, a) : p = f[q] /\ p[2] = q[2]
    BY <1>1, <2>1
  <2>5. \A p \in Places(t, a)' : \E q \in Places(t, a) : p = f[q] /\ p[2] = q[2]
    BY <2>2, <2>3, <2>4, PlacesAre
  <2> QED
    BY <2>5, HomedMoves
<1>3. CASE loop' = <<>> /\ parked' = parked \cup {Rest}
  <2> DEFINE f == [q \in Places(t, a) |-> IF q[1] # "loop" THEN q
                                          ELSE IF q[4] = 1 THEN e ELSE <<"parked", q[2], Rest, q[4] - 1>>]
  <2>1. /\ \A q \in Places(t, a) : q[1] # "loop" => f[q] = q
        /\ \A q \in Places(t, a) : q[1] = "loop" /\ q[4] = 1 => f[q] = e
        /\ \A q \in Places(t, a) : q[1] = "loop" /\ q[4] # 1 => f[q] = <<"parked", q[2], Rest, q[4] - 1>>
    OBVIOUS
  <2> HIDE DEF f
  <2>2. AtLoop(t, a)' = {}
    BY <1>3 DEF AtLoop, ToSend
  <2>3. ASSUME NEW p \in AtParked(t, a)' PROVE \E q \in Places(t, a) : p = f[q] /\ p[2] = q[2]
    <3>1. PICK r \in parked \cup {Rest} : \E i \in ToSend(t, a, r) : p = <<"parked", r[i].node, r, i>>
      BY <1>3 DEF AtParked, ToSend
    <3>2. PICK i \in ToSend(t, a, r) : p = <<"parked", r[i].node, r, i>>
      BY <3>1
    <3>3. CASE r \in parked
      <4>1. p \in Places(t, a) /\ p[1] # "loop"
        BY <3>2, <3>3, PlaceKinds
      <4> QED
        BY <2>1, <4>1
    <3>4. CASE r = Rest
      <4> DEFINE q == <<"loop", Rest[i].node, 0, i + 1>>
      <4>0. i \in ToSend(t, a, Rest)
        BY <3>4
      <4>1. q \in Places(t, a) /\ i \in Nat /\ i + 1 # 1
        BY <4>0, RestPlaces
      <4>3. (i + 1) - 1 = i
        BY <4>1
      <4>2. q[1] = "loop" /\ q[2] = p[2] /\ q[4] = i + 1 /\ p = <<"parked", q[2], Rest, i>>
        BY <3>2, <3>4
      <4> HIDE DEF q
      <4> QED
        BY <2>1, <4>1, <4>2, <4>3
    <3> QED
      BY <3>3, <3>4
  <2>4. \A p \in AtLink(t, a)' \cup AtJobs(t, a)' : \E q \in Places(t, a) : p = f[q] /\ p[2] = q[2]
    BY <1>1, <2>1
  <2>5. \A p \in Places(t, a)' : \E q \in Places(t, a) : p = f[q] /\ p[2] = q[2]
    BY <2>2, <2>3, <2>4, PlacesAre
  <2> QED
    BY <2>5, HomedMoves
<1> QED
  BY <1>2, <1>3 DEF GoOn

\* A suspended handler is resumed.
LEMMA HomedResume ==
    ASSUME ServerTypes, LiveRowsStay, NEW t \in Tasks, NEW a, Homed(t, a),
           Idle, NEW rest \in parked, loop' = rest, parked' = parked \ {rest},
           SentStays(t, a), JobsStay(t, a)
    PROVE  Homed(t, a)'
<1> DEFINE f == [q \in Places(t, a) |-> IF q[1] = "parked" /\ q[3] = rest
                                        THEN <<"loop", q[2], 0, q[4]>> ELSE q]
<1>1. /\ \A q \in Places(t, a) : q[1] = "parked" /\ q[3] = rest => f[q] = <<"loop", q[2], 0, q[4]>>
      /\ \A q \in Places(t, a) : ~(q[1] = "parked" /\ q[3] = rest) => f[q] = q
  OBVIOUS
<1> HIDE DEF f
<1>2. ASSUME NEW p \in AtLoop(t, a)' PROVE \E q \in Places(t, a) : p = f[q] /\ p[2] = q[2]
  <2>1. PICK i \in ToSend(t, a, rest) : p = <<"loop", rest[i].node, 0, i>>
    BY DEF AtLoop, ToSend
  <2> DEFINE q == <<"parked", rest[i].node, rest, i>>
  <2>2. q \in Places(t, a)
    BY PlaceKinds
  <2>3. q[1] = "parked" /\ q[2] = p[2] /\ q[3] = rest /\ p = <<"loop", q[2], 0, q[4]>>
    BY <2>1
  <2> HIDE DEF q
  <2> QED
    BY <1>1, <2>2, <2>3
<1>3. ASSUME NEW p \in AtParked(t, a)' PROVE \E q \in Places(t, a) : p = f[q] /\ p[2] = q[2]
  <2>1. PICK r \in parked \ {rest} : \E i \in ToSend(t, a, r) : p = <<"parked", r[i].node, r, i>>
    BY DEF AtParked, ToSend
  <2>2. p \in Places(t, a) /\ p[3] # rest
    BY <2>1, PlaceKinds
  <2> QED
    BY <1>1, <2>2
<1>4. ASSUME NEW p \in AtLink(t, a)' \cup AtJobs(t, a)'
      PROVE  \E q \in Places(t, a) : p = f[q] /\ p[2] = q[2]
  <2>1. p \in AtLink(t, a) \cup AtJobs(t, a)
    BY DEF SentStays, JobsStay
  <2>2. p \in Places(t, a) /\ p[1] # "parked"
    BY <2>1, PlacesAre, PlaceKinds
  <2> QED
    BY <1>1, <2>2
<1> QED
  BY <1>2, <1>3, <1>4, PlacesAre, HomedMoves

\* A handler begins or ends, or none moves.
LEMMA HomedStays ==
    ASSUME LiveRowsStay, NEW t \in Tasks, NEW a, Homed(t, a),
           loop' = loop \/ ToSend(t, a, loop') = {},
           \A rest \in parked' : rest \in parked \/ ToSend(t, a, rest) = {},
           SentStays(t, a), JobsStay(t, a)
    PROVE  Homed(t, a)'
<1>1. AtLoop(t, a)' \subseteq AtLoop(t, a)
  BY DEF AtLoop, ToSend
<1>2. AtParked(t, a)' \subseteq AtParked(t, a)
  BY DEF AtParked, ToSend
<1> QED
  BY <1>1, <1>2, PlacesAre, HomedShrinks DEF SentStays, JobsStay

\* A scheduling pass takes the place of the step that submitted a summary.
LEMMA HomedPass ==
    ASSUME ServerTypes, LiveRowsStay, NEW t \in Tasks, NEW a, Homed(t, a),
           loop # <<>>, loop' = [loop EXCEPT ![1] = Schedule], UNCHANGED parked,
           SentStays(t, a), JobsStay(t, a)
    PROVE  Homed(t, a)'
<1>1. \A i \in ToSend(t, a, loop') : i \in ToSend(t, a, loop) /\ loop'[i] = loop[i]
  <2>1. Schedule.op # "assign"
    BY DEF Schedule, Op
  <2> QED
    BY <2>1, PassInstead DEF ToSend
<1>2. AtLoop(t, a)' \subseteq AtLoop(t, a)
  BY <1>1 DEF AtLoop, ToSend
<1>3. AtParked(t, a)' \subseteq AtParked(t, a)
  BY DEF AtParked, ToSend
<1> QED
  BY <1>2, <1>3, PlacesAre, HomedShrinks DEF SentStays, JobsStay

\* Jobs of an agent change their phase.
LEMMA HomedPhases ==
    ASSUME LiveRowsStay, NEW t \in Tasks, NEW a, Homed(t, a),
           UNCHANGED <<loop, parked>>, SentStays(t, a), NEW g,
           \A p \in AtJobs(t, a)' : \E q \in AtJobs(t, a) : p = g[q] /\ p[2] = q[2]
    PROVE  Homed(t, a)'
<1> DEFINE f == [q \in Places(t, a) |-> IF q[1] = "job" THEN g[q] ELSE q]
<1>1. /\ \A q \in Places(t, a) : q[1] = "job" => f[q] = g[q]
      /\ \A q \in Places(t, a) : q[1] # "job" => f[q] = q
  OBVIOUS
<1> HIDE DEF f
<1>2. ASSUME NEW p \in AtJobs(t, a)' PROVE \E q \in Places(t, a) : p = f[q] /\ p[2] = q[2]
  <2>1. PICK q \in AtJobs(t, a) : p = g[q] /\ p[2] = q[2]
    OBVIOUS
  <2>2. q \in Places(t, a) /\ q[1] = "job"
    BY PlacesAre, PlaceKinds
  <2> QED
    BY <1>1, <2>1, <2>2
<1>3. ASSUME NEW p \in AtLoop(t, a)' \cup AtParked(t, a)' \cup AtLink(t, a)'
      PROVE  \E q \in Places(t, a) : p = f[q] /\ p[2] = q[2]
  <2>1. p \in AtLoop(t, a) \cup AtParked(t, a) \cup AtLink(t, a)
    BY DEF AtLoop, AtParked, ToSend, SentStays
  <2>2. p \in Places(t, a) /\ p[1] # "job"
    BY <2>1, PlacesAre, PlaceKinds
  <2> QED
    BY <1>1, <2>2
<1> QED
  BY <1>2, <1>3, PlacesAre, HomedMoves

\* An agent takes a message off its websocket, which may become a job.
LEMMA HomedReceives ==
    ASSUME LiveRowsStay, LinkTypes, NEW t \in Tasks, NEW a, Homed(t, a),
           UNCHANGED <<loop, parked>>,
           NEW n \in Nodes, NEW c \in Links, link[n][c].down # <<>>,
           link'[n][c].down = Tail(link[n][c].down),
           \A k \in Nodes, d \in Links : ~(k = n /\ d = c) => link'[k][d].down = link[k][d].down,
           NEW g,
           \A p \in AtJobs(t, a)' :
              \/ \E q \in AtJobs(t, a) : p = g[q] /\ p[2] = q[2]
              \/ 1 \in OnItsWay(t, a, link[n][c].down) /\ p = g[<<"sent", n, c, 1>>] /\ p[2] = n
    PROVE  Homed(t, a)'
<1> DEFINE here(q) == q[1] = "sent" /\ q[2] = n /\ q[3] = c
           f == [q \in Places(t, a) |-> IF q[1] = "job" THEN g[q]
                                        ELSE IF ~here(q) THEN q
                                        ELSE IF q[4] = 1 THEN g[<<"sent", n, c, 1>>]
                                        ELSE <<"sent", n, c, q[4] - 1>>]
<1>1. /\ \A q \in Places(t, a) : q[1] = "job" => f[q] = g[q]
      /\ \A q \in Places(t, a) : q[1] # "job" /\ ~here(q) => f[q] = q
      /\ \A q \in Places(t, a) : here(q) /\ q[4] = 1 => f[q] = g[<<"sent", n, c, 1>>]
      /\ \A q \in Places(t, a) : here(q) /\ q[4] # 1 => f[q] = <<"sent", n, c, q[4] - 1>>
  OBVIOUS
<1> HIDE DEF f
<1>2. ASSUME NEW p \in AtJobs(t, a)' PROVE \E q \in Places(t, a) : p = f[q] /\ p[2] = q[2]
  <2>1. CASE \E q \in AtJobs(t, a) : p = g[q] /\ p[2] = q[2]
    <3>1. PICK q \in AtJobs(t, a) : p = g[q] /\ p[2] = q[2]
      BY <2>1
    <3>2. q \in Places(t, a) /\ q[1] = "job"
      BY PlacesAre, PlaceKinds
    <3> QED
      BY <1>1, <3>1, <3>2
  <2>2. CASE 1 \in OnItsWay(t, a, link[n][c].down) /\ p = g[<<"sent", n, c, 1>>] /\ p[2] = n
    <3> DEFINE q == <<"sent", n, c, 1>>
    <3>1. q \in Places(t, a)
      BY <2>2, PlaceKinds
    <3>2. here(q) /\ q[4] = 1 /\ q[2] = n
      OBVIOUS
    <3> HIDE DEF q
    <3> QED
      BY <1>1, <2>2, <3>1, <3>2
  <2> QED
    BY <2>1, <2>2
<1>3. ASSUME NEW p \in AtLoop(t, a)' \cup AtParked(t, a)'
      PROVE  \E q \in Places(t, a) : p = f[q] /\ p[2] = q[2]
  <2>1. p \in AtLoop(t, a) \cup AtParked(t, a)
    BY DEF AtLoop, AtParked, ToSend
  <2>2. p \in Places(t, a) /\ p[1] # "job" /\ p[1] # "sent"
    BY <2>1, PlacesAre, PlaceKinds
  <2> QED
    BY <1>1, <2>2
<1>4. ASSUME NEW p \in AtLink(t, a)' PROVE \E q \in Places(t, a) : p = f[q] /\ p[2] = q[2]
  <2>1. PICK k \in Nodes : \E d \in Links : \E i \in OnItsWay(t, a, link[k][d].down)' : p = <<"sent", k, d, i>>
    BY DEF AtLink
  <2>2. PICK d \in Links : \E i \in OnItsWay(t, a, link[k][d].down)' : p = <<"sent", k, d, i>>
    BY <2>1
  <2>3. PICK i \in OnItsWay(t, a, link[k][d].down)' : p = <<"sent", k, d, i>>
    BY <2>2
  <2>4. CASE ~(k = n /\ d = c)
    <3>1. i \in OnItsWay(t, a, link[k][d].down)
      BY <2>3, <2>4 DEF OnItsWay
    <3>2. p \in Places(t, a)
      BY <2>3, <3>1, PlaceKinds
    <3>3. p[1] = "sent" /\ ~here(p)
      BY <2>3, <2>4
    <3> QED
      BY <1>1, <3>2, <3>3
  <2>5. CASE k = n /\ d = c
    <3> DEFINE down == link[n][c].down
    <3>1. down \in Seq(Downs)
      BY DEF LinkTypes, Socket
    <3>2. Tail(down) \in Seq(Downs) /\ Len(Tail(down)) = Len(down) - 1
          /\ \A j \in 1..Len(Tail(down)) : Tail(down)[j] = down[j + 1]
      BY <3>1, HeadTailProperties
    <3>3. Len(down) \in Nat /\ DOMAIN down = 1..Len(down) /\ DOMAIN Tail(down) = 1..Len(Tail(down))
      BY <3>1, <3>2, LenProperties
    <3>4. i \in DOMAIN Tail(down) /\ Tail(down)[i] = Msg("assign", t, a, "")
      BY <2>3, <2>5 DEF OnItsWay, Msg
    <3> HIDE DEF down
    <3>5. i \in 1..Len(down) - 1
      BY <3>2, <3>3, <3>4
    <3>6. i \in Nat /\ i + 1 # 1 /\ i + 1 \in DOMAIN down /\ (i + 1) - 1 = i
      BY <3>3, <3>5
    <3>7. i + 1 \in DOMAIN down /\ down[i + 1] = Msg("assign", t, a, "")
      BY <3>2, <3>3, <3>4, <3>6
    <3> DEFINE q == <<"sent", n, c, i + 1>>
    <3>8. q \in Places(t, a)
      BY <3>7, PlaceKinds DEF OnItsWay, down
    <3>9. here(q) /\ q[4] # 1 /\ q[2] = n /\ <<"sent", n, c, q[4] - 1>> = p /\ p[2] = n
      BY <2>3, <2>5, <3>6
    <3> HIDE DEF q
    <3> QED
      BY <1>1, <3>8, <3>9
  <2> QED
    BY <2>4, <2>5
<1> QED
  BY <1>2, <1>3, <1>4, PlacesAre, HomedMoves

\* No message is added to what the server has sent.
LEMMA NothingSent ==
    ASSUME \A k \in Nodes, d \in Links : link'[k][d].down = link[k][d].down \/ link'[k][d].down = <<>>
    PROVE  \A t, a : SentStays(t, a)
<1> SUFFICES ASSUME NEW t, NEW a, NEW p \in AtLink(t, a)' PROVE p \in AtLink(t, a)
  BY DEF SentStays
<1>1. PICK k \in Nodes : \E d \in Links : \E i \in OnItsWay(t, a, link[k][d].down)' : p = <<"sent", k, d, i>>
  BY DEF AtLink
<1>2. PICK d \in Links : \E i \in OnItsWay(t, a, link[k][d].down)' : p = <<"sent", k, d, i>>
  BY <1>1
<1>3. PICK i \in OnItsWay(t, a, link[k][d].down)' : p = <<"sent", k, d, i>>
  BY <1>2
<1>4. link'[k][d].down # <<>>
  <2>1. ASSUME link'[k][d].down = <<>> PROVE DOMAIN link'[k][d].down = {}
    BY <2>1
  <2> QED
    BY <1>3, <2>1 DEF OnItsWay
<1>5. i \in OnItsWay(t, a, link[k][d].down)
  BY <1>3, <1>4 DEF OnItsWay, Msg
<1> QED
  BY <1>3, <1>5 DEF AtLink

LEMMA NothingSentOn ==
    ASSUME LinkTypes, NEW n \in Nodes, NEW c \in Links, NEW e,
           link' = [link EXCEPT ![n][c] = e],
           e.down = link[n][c].down \/ e.down = <<>>
    PROVE  \A t, a : SentStays(t, a)
<1>1. /\ link'[n][c] = e
      /\ \A k \in Nodes, d \in Links : ~(k = n /\ d = c) => link'[k][d] = link[k][d]
  BY DEF LinkTypes
<1> QED
  BY <1>1, NothingSent

\* Traffic to the server, and the end of a websocket, add none.
LEMMA UpwardTraffic ==
    ASSUME LinkTypes, NEW n \in Nodes, NEW c \in Links,
           \/ \E type : Takes(n, c, type)
           \/ \E m : link' = Up(n, c, m)
           \/ Dropped(n, c)
           \/ link' = [link EXCEPT ![n][c].served = FALSE]
           \/ link' = [link EXCEPT ![n][c].accepting = FALSE]
           \/ link' = [link EXCEPT ![n][c].accepting = FALSE, ![n][c].served = TRUE]
    PROVE  \A t, a : SentStays(t, a)
<1>0. link[n][c] \in Socket
  BY DEF LinkTypes
<1>1. ASSUME NEW up, link' = [link EXCEPT ![n][c].up = up] PROVE \A t, a : SentStays(t, a)
  <2> DEFINE e == [link[n][c] EXCEPT !.up = up]
  <2>1. link' = [link EXCEPT ![n][c] = e]
    BY <1>1 DEF LinkTypes
  <2>2. e.down = link[n][c].down
    BY <1>0 DEF Socket
  <2> HIDE DEF e
  <2> QED
    BY <2>1, <2>2, NothingSentOn
<1>2. CASE \E type : Takes(n, c, type)
  <2>1. link' = [link EXCEPT ![n][c].up = Tail(link[n][c].up)]
    BY <1>2 DEF Takes
  <2> QED
    BY <1>1, <2>1
<1>3. CASE \E m : link' = Up(n, c, m)
  <2>1. PICK m : link' = [link EXCEPT ![n][c].up = Append(link[n][c].up, m)]
    BY <1>3 DEF Up
  <2> QED
    BY <1>1, <2>1
<1>4. CASE Dropped(n, c)
  <2>1. PICK k : link' = [link EXCEPT ![n][c].peer = "gone", ![n][c].down = <<>>,
                                      ![n][c].up = SubSeq(link[n][c].up, 1, k)]
    BY <1>4 DEF Dropped
  <2> DEFINE x == SubSeq(link[n][c].up, 1, k)
             e == [link[n][c] EXCEPT !.peer = "gone", !.down = <<>>, !.up = x]
  <2>4. link' = [link EXCEPT ![n][c].peer = "gone", ![n][c].down = <<>>, ![n][c].up = x]
    BY <2>1
  <2> HIDE DEF x
  <2>2. link' = [link EXCEPT ![n][c] = e]
    BY <2>4 DEF LinkTypes
  <2>3. e.down = <<>>
    BY <1>0 DEF Socket
  <2> HIDE DEF e
  <2> QED
    BY <2>2, <2>3, NothingSentOn
<1>5. CASE link' = [link EXCEPT ![n][c].served = FALSE]
  <2> DEFINE e == [link[n][c] EXCEPT !.served = FALSE]
  <2>1. link' = [link EXCEPT ![n][c] = e]
    BY <1>5 DEF LinkTypes
  <2>2. e.down = link[n][c].down
    BY <1>0 DEF Socket
  <2> HIDE DEF e
  <2> QED
    BY <2>1, <2>2, NothingSentOn
<1>6. CASE link' = [link EXCEPT ![n][c].accepting = FALSE]
  <2> DEFINE e == [link[n][c] EXCEPT !.accepting = FALSE]
  <2>1. link' = [link EXCEPT ![n][c] = e]
    BY <1>6 DEF LinkTypes
  <2>2. e.down = link[n][c].down
    BY <1>0 DEF Socket
  <2> HIDE DEF e
  <2> QED
    BY <2>1, <2>2, NothingSentOn
<1>7. CASE link' = [link EXCEPT ![n][c].accepting = FALSE, ![n][c].served = TRUE]
  <2> DEFINE e == [link[n][c] EXCEPT !.accepting = FALSE, !.served = TRUE]
  <2>1. link' = [link EXCEPT ![n][c] = e]
    BY <1>7 DEF LinkTypes
  <2>2. e.down = link[n][c].down
    BY <1>0 DEF Socket
  <2> HIDE DEF e
  <2> QED
    BY <2>1, <2>2, NothingSentOn
<1> QED
  BY <1>2, <1>3, <1>4, <1>5, <1>6, <1>7

\* After a scheduling pass the loop holds the assignments made, then what it held.
LEMMA ScheduledLoop ==
    ASSUME ServerTypes, loop # <<>>, NEW S \in SUBSET R!Has({"queued"}), NEW asg \in [S -> ReadyNodes],
           NEW order \in SetToSeqs(S), loop' = Batch(asg, order) \o Rest, NEW i \in DOMAIN loop'
    PROVE  \/ /\ i \in 1..Len(order)
              /\ loop'[i] = Op("assign", asg[order[i]], order[i], issued[order[i]] + 1)
           \/ \E k \in DOMAIN Rest : i = Len(order) + k /\ loop'[i] = Rest[k]
<1>1. /\ Len(order) \in Nat /\ DOMAIN Batch(asg, order) = 1..Len(order)
      /\ \A k \in 1..Len(order) :
            Batch(asg, order)[k] = Op("assign", asg[order[k]], order[k], issued[order[k]] + 1)
  BY BatchFacts
<1> DEFINE b == Batch(asg, order)
           X == Ops \cup {b[k] : k \in 1..Len(order)}
<1>2. b \in [1..Len(order) -> X]
  <2>1. b = [k \in DOMAIN b |-> b[k]]
    BY DEF Batch
  <2>2. \A k \in 1..Len(order) : b[k] \in X
    OBVIOUS
  <2> QED
    BY <1>1, <2>1, <2>2
<1>3. Rest \in Seq(X)
  <2>1. Rest \in Seq(Ops) /\ Ops \subseteq X
    BY HeadIsOp
  <2>2. Rest \in [1..Len(Rest) -> Ops] /\ Len(Rest) \in Nat
    BY <2>1, LenProperties
  <2>3. Rest \in [1..Len(Rest) -> X]
    BY <2>1, <2>2
  <2> QED
    BY <2>2, <2>3, FunctionIsSeq
<1>4. loop' = b \o Rest
  OBVIOUS
<1> HIDE DEF b, X
<1>5. b \in Seq(X) /\ Len(b) = Len(order)
  BY <1>1, <1>2, FunctionIsSeq
<1>6. /\ Len(b) \in Nat /\ DOMAIN Rest = 1..Len(Rest) /\ DOMAIN loop' = 1..Len(b) + Len(Rest) /\ Len(Rest) \in Nat
      /\ \A k \in 1..Len(b) : loop'[k] = b[k]
      /\ \A k \in 1..Len(Rest) : loop'[Len(b) + k] = Rest[k]
      /\ \A k \in DOMAIN loop' : k \in 1..Len(b) \/ k - Len(b) \in 1..Len(Rest)
  <2>1. b \in Seq(X) /\ Rest \in Seq(X) /\ loop' = b \o Rest
    BY <1>3, <1>4, <1>5
  <2> QED
    BY <2>1, ConcatIs
<1>7. CASE i \in 1..Len(b)
  <2>1. b[i] = Op("assign", asg[order[i]], order[i], issued[order[i]] + 1)
    BY <1>1, <1>5, <1>7 DEF b
  <2> QED
    BY <1>5, <1>6, <1>7, <2>1
<1>8. CASE i - Len(b) \in 1..Len(Rest)
  <2>1. i = Len(b) + (i - Len(b))
    BY <1>6
  <2>2. loop'[Len(b) + (i - Len(b))] = Rest[i - Len(b)] /\ i - Len(b) \in DOMAIN Rest
    BY <1>6, <1>8
  <2> QED
    BY <1>5, <2>1, <2>2
<1> QED
  BY <1>6, <1>7, <1>8

\* An attempt not issued yet is nowhere.
LEMMA NoPlaceYet ==
    ASSUME R!TypeOK, ServerTypes, NEW t \in Tasks
    PROVE  Places(t, issued[t] + 1) = {}
<1> DEFINE a == issued[t] + 1
<1>0. issued[t] \in Nat /\ a \notin 1..issued[t]
  BY DEF R!TypeOK
<1> HIDE DEF a
<1>1. \A ops \in Seq(Ops) : ToSend(t, a, ops) = {}
  <2>1. ASSUME NEW ops \in Seq(Ops), NEW i \in DOMAIN ops PROVE ops[i] \in Ops
    OBVIOUS
  <2> QED
    BY <1>0, <2>1 DEF ToSend, Ops
<1>2. \A down \in Seq(Downs) : OnItsWay(t, a, down) = {}
  <2>1. ASSUME NEW down \in Seq(Downs), NEW i \in DOMAIN down PROVE down[i] \in Downs
    OBVIOUS
  <2>2. Msg("assign", t, a, "") \notin Downs
    BY <1>0 DEF Downs, Msg
  <2> QED
    BY <2>1, <2>2 DEF OnItsWay
<1>3. \A n \in Nodes : JobsOf(t, a, n) = {}
  BY <1>0 DEF JobsOf, ServerTypes, AgentTypes, Jobs
<1>4. AtLoop(t, a) = {} /\ AtParked(t, a) = {}
  BY <1>1 DEF AtLoop, AtParked, ServerTypes, LoopTypes
<1>5. AtLink(t, a) = {}
  <2>1. \A n \in Nodes, c \in Links : link[n][c].down \in Seq(Downs)
    BY DEF ServerTypes, LinkTypes, Socket
  <2> QED
    BY <1>2, <2>1 DEF AtLink
<1>6. AtJobs(t, a) = {}
  BY <1>3 DEF AtJobs
<1> QED
  BY <1>4, <1>5, <1>6, PlacesAre DEF a

\* The attempt a pass starts is in its list, once, with the node of its row.
LEMMA HomedNew ==
    ASSUME R!TypeOK, ServerTypes, loop # <<>>, UNCHANGED <<parked, link, jobs>>,
           NEW S \in SUBSET R!Has({"queued"}), NEW asg \in [S -> ReadyNodes], NEW order \in SetToSeqs(S),
           loop' = Batch(asg, order) \o Rest,
           NEW t \in S, t \in Tasks, rows'[t].node = asg[t], NEW a, a = issued[t] + 1
    PROVE  Homed(t, a)'
<1>1. Places(t, a) = {}
  BY NoPlaceYet
<1>3. ToSend(t, a, Rest) = {}
  BY <1>1, RestPlaces
<1>4. \A i, j \in 1..Len(order) : order[i] = order[j] => i = j
  BY BatchFacts
<1>5. ASSUME NEW i \in DOMAIN loop', loop'[i].op = "assign", loop'[i].task = t, loop'[i].attempt = a
      PROVE  i \in 1..Len(order) /\ order[i] = t /\ loop'[i].node = asg[t]
  <2>1. CASE \E k \in DOMAIN Rest : i = Len(order) + k /\ loop'[i] = Rest[k]
    BY <1>3, <1>5, <2>1 DEF ToSend
  <2>2. CASE i \in 1..Len(order) /\ loop'[i] = Op("assign", asg[order[i]], order[i], issued[order[i]] + 1)
    BY <1>5, <2>2, OpFields
  <2> QED
    BY <2>1, <2>2, ScheduledLoop
<1>6. ASSUME NEW p \in Places(t, a)'
      PROVE  \E i \in 1..Len(order) : order[i] = t /\ p = <<"loop", asg[t], 0, i>>
  <2>1. p \in AtLoop(t, a)'
    <3>1. AtParked(t, a)' = AtParked(t, a) /\ AtLink(t, a)' = AtLink(t, a) /\ AtJobs(t, a)' = AtJobs(t, a)
      BY DEF AtParked, AtLink, AtJobs, JobsOf
    <3> QED
      BY <1>1, <1>6, <3>1, PlacesAre
  <2>2. PICK i \in DOMAIN loop' :
           loop'[i].op = "assign" /\ loop'[i].task = t /\ loop'[i].attempt = a /\ p = <<"loop", loop'[i].node, 0, i>>
    BY <2>1 DEF AtLoop, ToSend
  <2> QED
    BY <1>5, <2>2
<1>7. ASSUME NEW p \in Places(t, a)', NEW q \in Places(t, a)' PROVE p = q
  <2>1. PICK i \in 1..Len(order) : order[i] = t /\ p = <<"loop", asg[t], 0, i>>
    BY <1>6
  <2>2. PICK j \in 1..Len(order) : order[j] = t /\ q = <<"loop", asg[t], 0, j>>
    BY <1>6
  <2> QED
    BY <1>4, <2>1, <2>2
<1>8. \A p \in Places(t, a)' : p[2] = rows'[t].node
  BY <1>6
<1> QED
  BY <1>7, <1>8 DEF Homed

\* The attempts there were move up the list with the rest of it.
LEMMA HomedOld ==
    ASSUME ServerTypes, HomeInv, loop # <<>>, UNCHANGED <<parked, link, jobs>>,
           NEW S \in SUBSET R!Has({"queued"}), NEW asg \in [S -> ReadyNodes], NEW order \in SetToSeqs(S),
           loop' = Batch(asg, order) \o Rest,
           NEW t \in Tasks, NEW a \in 1..issued[t], issued[t] \in Nat,
           rows'[t].attempt # a \/ rows'[t] = rows[t]
    PROVE  Homed(t, a)'
<1>1. Homed(t, a)
  BY DEF HomeInv
<1>2. a # issued[t] + 1 /\ Len(order) \in Nat
  BY BatchFacts
<1> DEFINE f == [q \in Places(t, a) |-> IF q[1] = "loop" THEN <<"loop", q[2], 0, q[4] - 1 + Len(order)>> ELSE q]
<1>3. /\ \A q \in Places(t, a) : q[1] # "loop" => f[q] = q
      /\ \A q \in Places(t, a) : q[1] = "loop" => f[q] = <<"loop", q[2], 0, q[4] - 1 + Len(order)>>
  OBVIOUS
<1> HIDE DEF f
<1>4. ASSUME NEW p \in AtLoop(t, a)' PROVE \E q \in Places(t, a) : p = f[q] /\ p[2] = q[2]
  <2>1. PICK i \in DOMAIN loop' :
           loop'[i].op = "assign" /\ loop'[i].task = t /\ loop'[i].attempt = a /\ p = <<"loop", loop'[i].node, 0, i>>
    BY <1>4 DEF AtLoop, ToSend
  <2>2. ~(loop'[i] = Op("assign", asg[order[i]], order[i], issued[order[i]] + 1))
    BY <1>2, <2>1, OpFields
  <2>3. PICK k \in DOMAIN Rest : i = Len(order) + k /\ loop'[i] = Rest[k]
    BY <2>2, ScheduledLoop
  <2>4. k \in ToSend(t, a, Rest)
    BY <2>1, <2>3 DEF ToSend
  <2> DEFINE q == <<"loop", Rest[k].node, 0, k + 1>>
  <2>5. q \in Places(t, a) /\ k \in Nat
    BY <2>4, RestPlaces
  <2>6. (k + 1) - 1 + Len(order) = i
    BY <1>2, <2>3, <2>5
  <2>7. q[1] = "loop" /\ q[2] = p[2] /\ q[4] = k + 1 /\ p = <<"loop", q[2], 0, i>>
    BY <2>1, <2>3
  <2> HIDE DEF q
  <2> QED
    BY <1>3, <2>5, <2>6, <2>7
<1>5. ASSUME NEW p \in AtParked(t, a)' \cup AtLink(t, a)' \cup AtJobs(t, a)'
      PROVE  \E q \in Places(t, a) : p = f[q] /\ p[2] = q[2]
  <2>1. AtParked(t, a)' = AtParked(t, a) /\ AtLink(t, a)' = AtLink(t, a) /\ AtJobs(t, a)' = AtJobs(t, a)
    BY DEF AtParked, AtLink, AtJobs, JobsOf
  <2>2. p \in Places(t, a) /\ p[1] # "loop"
    BY <1>5, <2>1, PlacesAre, PlaceKinds
  <2> QED
    BY <1>3, <2>2
<1>6. \A p \in Places(t, a)' : \E q \in Places(t, a) : p = f[q] /\ p[2] = q[2]
  BY <1>4, <1>5, PlacesAre
<1> QED
  BY <1>1, <1>6, HomedMovesOne

\* A scheduling pass starts new attempts, each where its row says, and leaves the
\* others where they are.
LEMMA HomedScheduled ==
    ASSUME R!TypeOK, ServerTypes, HomeInv, StepSchedule, NEW t \in Tasks, NEW a \in 1..issued'[t]
    PROVE  Homed(t, a)'
<1>1. PICK S \in SUBSET R!Has({"queued"}) : \E asg \in [S -> ReadyNodes], order \in SetToSeqs(S) :
         R!Assign(asg) /\ loop' = Batch(asg, order) \o Rest
  BY DEF StepSchedule
<1>2. PICK asg \in [S -> ReadyNodes], order \in SetToSeqs(S) :
         R!Assign(asg) /\ loop' = Batch(asg, order) \o Rest
  BY <1>1
<1>3. loop # <<>> /\ UNCHANGED <<parked, link, jobs>>
  BY DEF StepSchedule, At, agents
<1>4. /\ Len(order) \in Nat
      /\ \A i \in 1..Len(order) : order[i] \in S /\ order[i] \in Tasks
      /\ \A i, j \in 1..Len(order) : order[i] = order[j] => i = j
  BY BatchFacts
<1>5. issued[t] \in Nat /\ rows[t] \in R!Row
  BY DEF R!TypeOK
<1>6. CASE t \in S
  <2>1. issued'[t] = issued[t] + 1 /\ rows'[t] = R!Assigned(t, asg[t])
    BY <1>2, <1>6 DEF R!Assign
  <2>2. rows'[t].node = asg[t] /\ rows'[t].attempt = issued[t] + 1
    BY <1>5, <2>1 DEF R!Assigned, R!Row
  <2>3. CASE a = issued[t] + 1
    <3>1. t \in S /\ rows'[t].node = asg[t] /\ loop' = Batch(asg, order) \o Rest
      BY <1>2, <1>6, <2>2
    <3> QED
      BY <1>3, <2>3, <3>1, HomedNew
  <2>4. CASE a \in 1..issued[t]
    <3>1. /\ issued[t] \in Nat /\ loop' = Batch(asg, order) \o Rest
          /\ rows'[t].attempt # a \/ rows'[t] = rows[t]
      BY <1>2, <1>5, <2>2, <2>4
    <3> QED
      BY <1>3, <2>4, <3>1, HomedOld
  <2> QED
    BY <1>5, <2>1, <2>3, <2>4
<1>7. CASE t \notin S
  <2>1. issued'[t] = issued[t] /\ rows'[t] = rows[t]
    BY <1>2, <1>7 DEF R!Assign
  <2>2. /\ issued[t] \in Nat /\ loop' = Batch(asg, order) \o Rest
        /\ rows'[t].attempt # a \/ rows'[t] = rows[t]
    BY <1>2, <1>5, <2>1
  <2>3. a \in 1..issued[t]
    BY <2>1
  <2> QED
    BY <1>3, <2>2, <2>3, HomedOld
<1> QED
  BY <1>6, <1>7

\* A message found on its way is a place.
LEMMA SentIsAPlace ==
    ASSUME NEW t, NEW a, NEW k \in Nodes, NEW d \in Links, NEW i \in OnItsWay(t, a, link[k][d].down)
    PROVE  <<"sent", k, d, i>> \in AtLink(t, a)
  BY DEF AtLink

\* A message sent is the last on its websocket.
LEMMA SentOne ==
    ASSUME LinkTypes, RosterTypes, NEW n \in Nodes, conns[n] # NoLink, NEW m \in Downs, link' = Sent(n, m),
           NEW t, NEW a, NEW p \in AtLink(t, a)'
    PROVE  \/ p \in AtLink(t, a)
           \/ /\ m = Msg("assign", t, a, "")
              /\ p = <<"sent", n, conns[n], Len(link[n][conns[n]].down) + 1>>
<1>1. conns[n] \in Links
  BY DEF RosterTypes
<1> DEFINE c == conns[n]
           down == link[n][c].down
<1>2. CASE link' = link
  <2>1. SentStays(t, a)
    BY <1>2, NothingSent
  <2>2. p \in AtLink(t, a)
    BY <2>1 DEF SentStays
  <2> QED
    BY <2>2
<1>3. CASE link' = [link EXCEPT ![n][c].down = Append(down, m)]
  <2>1. down \in Seq(Downs)
    BY <1>1 DEF LinkTypes, Socket
  <2>2. /\ link'[n][c].down = Append(down, m)
        /\ \A k \in Nodes, d \in Links : ~(k = n /\ d = c) => link'[k][d].down = link[k][d].down
    BY <1>1, <1>3 DEF LinkTypes, Socket
  <2>3. PICK k \in Nodes : \E d \in Links : \E i \in OnItsWay(t, a, link[k][d].down)' : p = <<"sent", k, d, i>>
    BY DEF AtLink
  <2>4. PICK d \in Links : \E i \in OnItsWay(t, a, link[k][d].down)' : p = <<"sent", k, d, i>>
    BY <2>3
  <2>5. PICK i \in OnItsWay(t, a, link[k][d].down)' : p = <<"sent", k, d, i>>
    BY <2>4
  <2>6. CASE ~(k = n /\ d = c)
    <3>1. i \in OnItsWay(t, a, link[k][d].down)
      BY <2>2, <2>5, <2>6 DEF OnItsWay, Msg
    <3>2. p \in AtLink(t, a)
      BY <2>5, <3>1, SentIsAPlace
    <3> QED
      BY <3>2
  <2>7. CASE k = n /\ d = c
    <3>1. i \in DOMAIN Append(down, m) /\ Append(down, m)[i] = Msg("assign", t, a, "")
      BY <2>2, <2>5, <2>7 DEF OnItsWay, Msg
    <3> HIDE DEF down
    <3>2. /\ Append(down, m) \in Seq(Downs) /\ Len(Append(down, m)) = Len(down) + 1
          /\ \A j \in 1..Len(down) : Append(down, m)[j] = down[j]
          /\ Append(down, m)[Len(down) + 1] = m
      BY <2>1, AppendProperties
    <3>3. DOMAIN Append(down, m) = 1..Len(down) + 1 /\ Len(down) \in Nat /\ DOMAIN down = 1..Len(down)
      BY <2>1, <3>2, LenProperties
    <3>4. CASE i \in 1..Len(down)
      <4>1. i \in OnItsWay(t, a, down)
        BY <3>1, <3>2, <3>3, <3>4 DEF OnItsWay
      <4>2. p \in AtLink(t, a)
        BY <1>1, <2>5, <2>7, <4>1, SentIsAPlace DEF down
      <4> QED
        BY <4>2
    <3>5. CASE i = Len(down) + 1
      BY <2>5, <2>7, <3>1, <3>2, <3>5 DEF down
    <3>6. i \in 1..Len(down) + 1
      BY <3>1, <3>3
    <3>7. i \in 1..Len(down) \/ i = Len(down) + 1
      BY <3>3, <3>6
    <3> QED
      BY <3>4, <3>5, <3>7
  <2> QED
    BY <2>6, <2>7
<1> QED
  BY <1>2, <1>3 DEF Sent

\* The assignments and revocations of a handler.
LEMMA HomedSends ==
    ASSUME ServerTypes, LiveRowsStay, NEW t \in Tasks, NEW a, Homed(t, a), StepAssign \/ StepRevoke
    PROVE  Homed(t, a)'
<1>0. LinkTypes /\ RosterTypes
  BY DEF ServerTypes
<1>1. loop # <<>> /\ Head(loop).op \in {"assign", "tell", "revoke"} /\ UNCHANGED agents
  BY DEF StepAssign, StepRevoke, At
<1>2. Head(loop) \in Ops /\ Head(loop) = loop[1] /\ 1 \in DOMAIN loop
  BY <1>1, HeadIsOp, RestFacts
<1>3. /\ Head(loop).node \in Nodes /\ Head(loop).task \in Tasks /\ Head(loop).attempt \in Nat
      /\ Head(loop).op = "assign" => Head(loop).attempt \in 1..issued[Head(loop).task]
  BY <1>1, <1>2 DEF Ops
<1>4. JobsStay(t, a)
  BY <1>1 DEF JobsStay, AtJobs, JobsOf, agents
<1> DEFINE n == Head(loop).node
           e == <<"sent", n, conns[n], Len(link[n][conns[n]].down) + 1>>
<1>5. ASSUME UNCHANGED link PROVE SentStays(t, a)
  BY <1>5 DEF SentStays, AtLink, OnItsWay, Msg
<1>6. ASSUME UNCHANGED link, GoOn(Rest) PROVE Homed(t, a)'
  <2>1. SentStays(t, a)
    BY <1>5, <1>6
  <2> QED
    BY <1>1, <1>4, <1>6, <2>1, HomedGoOn DEF SentStays
<1>7. ASSUME UNCHANGED <<link, parked>>, loop' = Rest PROVE Homed(t, a)'
  BY <1>6, <1>7 DEF GoOn
<1>8. ASSUME conns[n] # NoLink, GoOn(Rest), NEW m \in Downs, link' = Sent(n, m),
             m = Msg("assign", t, a, "") => 1 \in ToSend(t, a, loop)
      PROVE  Homed(t, a)'
  <2>1. \A p \in AtLink(t, a)' :
           \/ p \in AtLink(t, a)
           \/ m = Msg("assign", t, a, "") /\ p = e
    BY <1>0, <1>3, <1>8, SentOne
  <2>2. e[2] = loop[1].node
    BY <1>2
  <2> HIDE DEF e
  <2>3. \A p \in AtLink(t, a)' :
           \/ p \in AtLink(t, a)
           \/ 1 \in ToSend(t, a, loop) /\ p = e /\ e[2] = loop[1].node
    BY <1>8, <2>1, <2>2
  <2> QED
    BY <1>1, <1>4, <1>8, <2>3, HomedGoOn
<1>9. /\ Msg("revoke", Head(loop).task, Head(loop).attempt, "") \in Downs
      /\ Msg("revoke", Head(loop).task, Head(loop).attempt, "") # Msg("assign", t, a, "")
      /\ Head(loop).op = "assign" => Msg("assign", Head(loop).task, Head(loop).attempt, "") \in Downs
  BY <1>3 DEF Msg, Downs
<1>10. Msg("assign", Head(loop).task, Head(loop).attempt, "") = Msg("assign", t, a, "")
          => Head(loop).task = t /\ Head(loop).attempt = a
  BY DEF Msg
<1>11. CASE StepAssign
  <2>1. Head(loop).op = "assign"
    BY <1>11 DEF StepAssign, At
  <2>2. Msg("assign", Head(loop).task, Head(loop).attempt, "") = Msg("assign", t, a, "")
           => 1 \in ToSend(t, a, loop)
    BY <1>2, <1>10, <2>1 DEF ToSend
  <2> QED
    BY <1>7, <1>8, <1>9, <1>11, <2>1, <2>2 DEF StepAssign
<1>12. CASE StepRevoke
  <2>1. CASE loop' = <<>> /\ UNCHANGED <<link, parked>>
    <3>1. SentStays(t, a) /\ ToSend(t, a, loop') = {}
      BY <1>5, <2>1 DEF ToSend
    <3> QED
      BY <1>4, <2>1, <3>1, HomedStays
  <2> QED
    BY <1>7, <1>8, <1>9, <1>12, <2>1 DEF StepRevoke
<1> QED
  BY <1>11, <1>12

\* No job is added to those of the agents.
LEMMA JobsOnlyEnd ==
    ASSUME \A n \in Nodes : jobs'[n] \subseteq jobs[n]
    PROVE  \A t, a : JobsStay(t, a)
<1> SUFFICES ASSUME NEW t, NEW a, NEW p \in AtJobs(t, a)' PROVE p \in AtJobs(t, a)
  BY DEF JobsStay
<1>1. PICK n \in Nodes : \E j \in JobsOf(t, a, n)' : p = <<"job", n, j, 0>>
  BY DEF AtJobs
<1>2. PICK j \in JobsOf(t, a, n)' : p = <<"job", n, j, 0>>
  BY <1>1
<1>3. j \in JobsOf(t, a, n)
  BY <1>2 DEF JobsOf
<1> QED
  BY <1>2, <1>3 DEF AtJobs

\* The steps that put an attempt on a websocket or make it a job, or another job.
Starts ==
    \/ StepAssign \/ StepRevoke
    \/ \E n \in Nodes, c \in Links : AgentRefuses(n, c) \/ AgentAccepts(n, c) \/ AgentRevoked(n, c)
    \/ \E n \in Nodes : \E j \in jobs[n] : JobStep(n, j)

LEMMA NothingStarts ==
    ASSUME ServerTypes, [Next]_vars
    PROVE  Starts \/ \A t, a : SentStays(t, a) /\ JobsStay(t, a)
<1> DEFINE Stays == \A t, a : SentStays(t, a) /\ JobsStay(t, a)
<1>0. LinkTypes /\ RosterTypes /\ AgentTypes
  BY DEF ServerTypes
<1>1. UNCHANGED link => \A t, a : SentStays(t, a)
  BY NothingSent
<1>2. UNCHANGED agents => \A t, a : JobsStay(t, a)
  BY JobsOnlyEnd DEF agents
<1>3. ASSUME NEW n \in Nodes, NEW c \in Links, NEW e,
             link' = [link EXCEPT ![n][c] = e], e.down = <<>>
      PROVE  \A t, a : SentStays(t, a)
  BY <1>0, <1>3, NothingSentOn
<1> HIDE DEF Stays
<1>4. ASSUME NEW t \in Tasks, \/ \E k \in Keys : ClientSubmit(t, k)
                             \/ ClientCancel(t) \/ ClientDelete(t) \/ LeaseLapses(t)
      PROVE  Stays
  BY <1>1, <1>2, <1>4 DEF ClientSubmit, ClientCancel, ClientDelete, LeaseLapses, Stays, agents
<1>5. ASSUME NEW n \in Nodes, NEW c \in Links,
             OnMessage(n, c) \/ OnDisconnect(n, c) \/ Accepted(n, c) \/ AcceptFails(n, c)
      PROVE  Stays
  <2>1. \A t, a : SentStays(t, a)
    BY <1>0, <1>5, UpwardTraffic
       DEF OnMessage, OnHeartbeat, OnProgress, OnResult, OnLeave, OnDisconnect, Accepted, AcceptFails, Takes
  <2>2. UNCHANGED agents
    BY <1>5 DEF OnMessage, OnHeartbeat, OnProgress, OnResult, OnLeave, OnDisconnect, Accepted,
                AcceptFails, agents
  <2> QED
    BY <1>2, <2>1, <2>2 DEF Stays
<1>6. ASSUME NEW n \in Nodes, Kick(n) PROVE Stays
  <2>1. UNCHANGED agents
    BY <1>6 DEF Kick
  <2>2. CASE UNCHANGED link
    BY <1>1, <1>2, <2>1, <2>2 DEF Stays
  <2>3. CASE ~UNCHANGED link
    <3> DEFINE c == conns[n]
               e == [link[n][c] EXCEPT !.peer = "gone", !.up = <<>>, !.down = <<>>]
    <3>1. c \in Links /\ link[n][c] \in Socket
      BY <1>0, <1>6, <2>3 DEF Kick, RosterTypes, LinkTypes
    <3>2. link' = [link EXCEPT ![n][c] = e]
      BY <1>0, <1>6, <2>3, <3>1 DEF Kick, LinkTypes
    <3>3. e.down = <<>>
      BY <3>1 DEF Socket
    <3> HIDE DEF e, c
    <3> QED
      BY <1>2, <1>3, <2>1, <3>1, <3>2, <3>3 DEF Stays
  <2> QED
    BY <2>2, <2>3
<1>7. ASSUME NEW n \in Nodes, HeartbeatLate(n) \/ GraceEnds(n) \/ AgentRegister(n) PROVE Stays
  BY <1>1, <1>2, <1>7 DEF HeartbeatLate, GraceEnds, AgentRegister, Stays, agents
<1>8. ASSUME NEW n \in Nodes, AgentConnect(n) PROVE Stays
  <2>1. UNCHANGED agents
    BY <1>8 DEF AgentConnect
  <2>2. PICK c \in Links : link' = [link EXCEPT ![n][c] = [Unused EXCEPT !.peer = "open", !.accepting = TRUE]]
    BY <1>8 DEF AgentConnect
  <2>3. [Unused EXCEPT !.peer = "open", !.accepting = TRUE].down = <<>>
    BY DEF Unused
  <2> QED
    BY <1>2, <1>3, <2>1, <2>2, <2>3 DEF Stays
<1>9. ASSUME NEW n \in Nodes, AgentHeartbeat(n) PROVE Stays
  <2>1. PICK c \in Links : \E m : link' = Up(n, c, m)
    BY <1>9 DEF AgentHeartbeat, Open
  <2>2. \A t, a : SentStays(t, a)
    BY <1>0, <2>1, UpwardTraffic
  <2> QED
    BY <1>2, <1>9, <2>2 DEF AgentHeartbeat, Stays
<1>11. ASSUME NEW n \in Nodes, AgentDrops(n) \/ AgentCrash(n) \/ AgentLeave(n) PROVE Stays
  <2>1. \A t, a : JobsStay(t, a)
    BY <1>0, <1>2, <1>11, JobsOnlyEnd DEF AgentDrops, AgentCrash, AgentLeave, Dies, AgentTypes
  <2>2. CASE AgentDrops(n) \/ AgentCrash(n)
    <3>1. PICK c \in Links : Dropped(n, c)
      BY <2>2 DEF AgentDrops, AgentCrash, Open
    <3>2. \A t, a : SentStays(t, a)
      BY <1>0, <3>1, UpwardTraffic
    <3> QED
      BY <2>1, <3>2 DEF Stays
  <2>3. CASE AgentLeave(n)
    <3>1. PICK c \in Links : \E m :
             link' = [link EXCEPT ![n][c].peer = "gone", ![n][c].down = <<>>, ![n][c].up = Append(@, m)]
      BY <2>3 DEF AgentLeave, Open
    <3>2. PICK m :
             link' = [link EXCEPT ![n][c].peer = "gone", ![n][c].down = <<>>, ![n][c].up = Append(@, m)]
      BY <3>1
    <3> DEFINE e == [link[n][c] EXCEPT !.peer = "gone", !.down = <<>>, !.up = Append(link[n][c].up, m)]
    <3>3. link' = [link EXCEPT ![n][c] = e]
      BY <1>0, <3>2 DEF LinkTypes
    <3>4. link[n][c] \in Socket
      BY <1>0 DEF LinkTypes
    <3>5. e.down = <<>>
      BY <3>4 DEF Socket
    <3> HIDE DEF e
    <3> QED
      BY <1>3, <2>1, <3>3, <3>5 DEF Stays
  <2> QED
    BY <1>11, <2>2, <2>3
<1>12. ASSUME \/ StepSchedule \/ StepReady \/ StepCompact \/ StepDelete \/ StepClear \/ StepKick
              \/ StepLost \/ StepExpire \/ Resume \/ Tick \/ ClearQueue \/ UNCHANGED vars
       PROVE  Stays
  BY <1>1, <1>2, <1>12 DEF StepSchedule, StepReady, StepCompact, StepDelete, StepClear, StepKick, StepLost, StepExpire,
                            Resume, Tick, ClearQueue, vars, Stays, agents
<1>13. ASSUME ServerRestart PROVE Stays
  <2>1. \A k \in Nodes, d \in Links : link'[k][d].down = <<>>
    BY <1>13 DEF ServerRestart, Unused
  <2>2. \A t, a : SentStays(t, a)
    BY <2>1, NothingSent
  <2> QED
    BY <1>2, <1>13, <2>2 DEF ServerRestart, Stays
<1> QED
  <2>1. ASSUME NEW n \in Nodes, AgentStep(n) PROVE Starts \/ Stays
    <3>1. CASE \E c \in Links : AgentRefuses(n, c) \/ AgentAccepts(n, c) \/ AgentRevoked(n, c)
      BY <3>1 DEF Starts
    <3>2. CASE \E j \in jobs[n] : JobStep(n, j)
      BY <3>2 DEF Starts
    <3> QED
      BY <1>7, <1>8, <1>9, <1>11, <2>1, <3>1, <3>2 DEF AgentStep, JobStep
  <2>2. ASSUME LoopStep PROVE Starts \/ Stays
    BY <1>12, <2>2 DEF LoopStep, Starts
  <2>3. Starts \/ Stays
    BY <1>4, <1>5, <1>6, <1>7, <1>12, <1>13, <2>1, <2>2 DEF Next
  <2> QED
    BY <2>3 DEF Stays

\* An agent takes an assignment or a revocation.
LEMMA HomedTaken ==
    ASSUME ServerTypes, LiveRowsStay, NEW t \in Tasks, NEW a, Homed(t, a), NEW n \in Nodes, NEW c \in Links,
           AgentRefuses(n, c) \/ AgentAccepts(n, c) \/ AgentRevoked(n, c)
    PROVE  Homed(t, a)'
<1>0. LinkTypes /\ AgentTypes
  BY DEF ServerTypes
<1>1. UNCHANGED <<loop, parked>>
  BY DEF AgentRefuses, AgentAccepts, AgentRevoked, server
<1>2. link[n][c] \in Socket /\ link[n][c].down # <<>>
  BY <1>0 DEF LinkTypes, AgentRefuses, AgentAccepts, AgentRevoked, Receives
<1>3. /\ link'[n][c].down = Tail(link[n][c].down)
      /\ \A k \in Nodes, d \in Links : ~(k = n /\ d = c) => link'[k][d].down = link[k][d].down
  <2>1. CASE AgentAccepts(n, c) \/ AgentRevoked(n, c)
    <3>1. link' = [link EXCEPT ![n][c].down = Tail(link[n][c].down)]
      BY <2>1 DEF AgentAccepts, AgentRevoked, Popped
    <3> QED
      BY <1>0, <1>2, <3>1 DEF LinkTypes, Socket
  <2>2. CASE AgentRefuses(n, c)
    <3>1. PICK m : link' = [Popped(n, c) EXCEPT ![n][c].up = Append(@, m)]
      BY <2>2 DEF AgentRefuses
    <3>2. /\ Popped(n, c) \in [Nodes -> [Links -> Socket]]
          /\ Popped(n, c)[n][c].down = Tail(link[n][c].down)
          /\ \A k \in Nodes, d \in Links : ~(k = n /\ d = c) => Popped(n, c)[k][d] = link[k][d]
      <4>1. Popped(n, c) \in [Nodes -> [Links -> Socket]]
        BY <1>0, <1>2, SocketUpdates
      <4> QED
        BY <1>0, <1>2, <4>1 DEF Popped, LinkTypes, Socket
    <3> DEFINE x == Popped(n, c)
    <3> HIDE DEF x
    <3>3. /\ x \in [Nodes -> [Links -> Socket]] /\ link' = [x EXCEPT ![n][c].up = Append(@, m)]
          /\ x[n][c].down = Tail(link[n][c].down)
          /\ \A k \in Nodes, d \in Links : ~(k = n /\ d = c) => x[k][d] = link[k][d]
      BY <3>1, <3>2 DEF x
    <3> QED
      BY <3>3 DEF Socket
  <2> QED
    BY <2>1, <2>2
<1>4. ASSUME NEW k \in Nodes, NEW j \in JobsOf(t, a, k) PROVE <<"job", k, j, 0>> \in AtJobs(t, a)
  BY DEF AtJobs
<1>5. CASE AgentRefuses(n, c)
  <2>1. JobsStay(t, a)
    BY <1>5, JobsOnlyEnd DEF AgentRefuses, agents
  <2> DEFINE g == [q \in AtJobs(t, a) |-> q]
  <2>2. \A p \in AtJobs(t, a)' :
           \/ \E q \in AtJobs(t, a) : p = g[q] /\ p[2] = q[2]
           \/ 1 \in OnItsWay(t, a, link[n][c].down) /\ p = g[<<"sent", n, c, 1>>] /\ p[2] = n
    BY <2>1 DEF JobsStay
  <2> HIDE DEF g
  <2> QED
    BY <1>0, <1>1, <1>2, <1>3, <2>2, HomedReceives
<1>6. CASE AgentAccepts(n, c)
  <2> DEFINE m == Head(link[n][c].down)
             job == [task |-> m.task, attempt |-> m.attempt, link |-> c, phase |-> "new", robbed |-> FALSE]
             e == <<"job", n, job, 0>>
             from == <<"sent", n, c, 1>>
             g == [q \in AtJobs(t, a) \cup {from} |-> IF q = from THEN e ELSE q]
  <2>1. jobs' = [jobs EXCEPT ![n] = jobs[n] \cup {job}]
    BY <1>6 DEF AgentAccepts
  <2>2. m \in Downs /\ m.type = "assign" /\ link[n][c].down \in Seq(Downs)
    BY <1>2, <1>6, ReceivedIsSent DEF AgentAccepts, Socket
  <2>3. 1 \in DOMAIN link[n][c].down /\ m = link[n][c].down[1]
    BY <1>2, <2>2, EmptySeq, LenProperties
  <2>4. job.task = m.task /\ job.attempt = m.attempt
    OBVIOUS
  <2>5. e[2] = n
    OBVIOUS
  <2>6. ASSUME m.task = t, m.attempt = a PROVE 1 \in OnItsWay(t, a, link[n][c].down)
    <3>1. m = Msg("assign", t, a, "")
      BY <2>2, <2>6 DEF Downs, Msg
    <3> QED
      BY <2>3, <3>1 DEF OnItsWay
  <2>7. g[from] = e /\ \A q \in AtJobs(t, a) : g[q] = q
    <3>1. from[1] = "sent" /\ \A q \in AtJobs(t, a) : q[1] = "job"
      BY PlaceKinds
    <3> HIDE DEF from
    <3> QED
      BY <3>1
  <2> HIDE DEF m, job, g
  <2>9. ASSUME NEW p \in AtJobs(t, a)'
        PROVE  \/ \E q \in AtJobs(t, a) : p = g[q] /\ p[2] = q[2]
               \/ 1 \in OnItsWay(t, a, link[n][c].down) /\ p = g[from] /\ p[2] = n
    <3>1. PICK k \in Nodes : \E j \in JobsOf(t, a, k)' : p = <<"job", k, j, 0>>
      BY DEF AtJobs
    <3>2. PICK j \in JobsOf(t, a, k)' : p = <<"job", k, j, 0>>
      BY <3>1
    <3>3. CASE j \in jobs[k]
      <4>1. j \in JobsOf(t, a, k)
        BY <3>2, <3>3 DEF JobsOf
      <4>2. p \in AtJobs(t, a)
        BY <1>4, <3>2, <4>1
      <4> QED
        BY <2>7, <4>2
    <3>4. CASE j \notin jobs[k]
      <4>1. k = n /\ j = job
        BY <1>0, <2>1, <3>2, <3>4 DEF JobsOf, AgentTypes
      <4>2. job.task = t /\ job.attempt = a
        BY <3>2, <4>1 DEF JobsOf
      <4> QED
        BY <2>4, <2>5, <2>6, <2>7, <3>2, <4>1, <4>2
    <3> QED
      BY <3>3, <3>4
  <2> QED
    BY <1>0, <1>1, <1>2, <1>3, <2>9, HomedReceives
<1>7. CASE AgentRevoked(n, c)
  <2> DEFINE gone(j) == [j EXCEPT !.phase = "cancelled"]
             s == Head(link[n][c].down).task
             hit == {j \in jobs[n] : j.task = s /\ j.attempt = running[n][s]}
             hits(q) == q[2] = n /\ q[3] \in hit
             g == [q \in AtJobs(t, a) |-> IF hits(q) THEN <<"job", n, gone(q[3]), 0>> ELSE q]
  <2>1. jobs' = [jobs EXCEPT ![n] = (jobs[n] \ hit) \cup {gone(j) : j \in {i \in hit : i.phase \notin {"new", "reporting"}}}]
    BY <1>7 DEF AgentRevoked
  <2>2. \A j \in jobs[n] : gone(j).task = j.task /\ gone(j).attempt = j.attempt
    BY <1>0 DEF AgentTypes, Jobs
  <2>3. \A q \in AtJobs(t, a) : g[q] = IF hits(q) THEN <<"job", n, gone(q[3]), 0>> ELSE q
    OBVIOUS
  <2>4. hit \subseteq jobs[n]
    OBVIOUS
  <2> HIDE DEF g, gone, hit
  <2>5. ASSUME NEW p \in AtJobs(t, a)' PROVE \E q \in AtJobs(t, a) : p = g[q] /\ p[2] = q[2]
    <3>1. PICK k \in Nodes : \E j \in JobsOf(t, a, k)' : p = <<"job", k, j, 0>>
      BY DEF AtJobs
    <3>2. PICK j \in JobsOf(t, a, k)' : p = <<"job", k, j, 0>>
      BY <3>1
    <3>3. \/ j \in jobs[k] /\ ~(k = n /\ j \in hit)
          \/ k = n /\ \E i \in hit : j = gone(i)
      BY <1>0, <2>1, <3>2 DEF JobsOf, AgentTypes
    <3>4. CASE j \in jobs[k] /\ ~(k = n /\ j \in hit)
      <4>1. j \in JobsOf(t, a, k)
        BY <3>2, <3>4 DEF JobsOf
      <4>2. p \in AtJobs(t, a)
        BY <1>4, <3>2, <4>1
      <4>3. ~hits(p)
        BY <3>2, <3>4
      <4> QED
        BY <2>3, <4>2, <4>3
    <3>5. CASE k = n /\ \E i \in hit : j = gone(i)
      <4>1. PICK i \in hit : j = gone(i)
        BY <3>5
      <4>2. i \in JobsOf(t, a, n)
        BY <2>2, <2>4, <3>2, <4>1 DEF JobsOf
      <4> DEFINE q == <<"job", n, i, 0>>
      <4>3. q \in AtJobs(t, a)
        BY <1>4, <4>2
      <4>4. hits(q) /\ q[3] = i /\ q[2] = n
        BY <4>1
      <4>5. p[2] = n
        BY <3>2, <3>5
      <4> HIDE DEF q
      <4>6. g[q] = p
        BY <2>3, <3>2, <3>5, <4>1, <4>3, <4>4
      <4> QED
        BY <4>3, <4>4, <4>5, <4>6
    <3> QED
      BY <3>3, <3>4, <3>5
  <2>6. \A p \in AtJobs(t, a)' :
           \/ \E q \in AtJobs(t, a) : p = g[q] /\ p[2] = q[2]
           \/ 1 \in OnItsWay(t, a, link[n][c].down) /\ p = g[<<"sent", n, c, 1>>] /\ p[2] = n
    BY <2>5
  <2> QED
    BY <1>0, <1>1, <1>2, <1>3, <2>6, HomedReceives
<1> QED
  BY <1>5, <1>6, <1>7

\* A job takes a step: the jobs that are left are the same attempts.
LEMMA HomedJobs ==
    ASSUME ServerTypes, LiveRowsStay, NEW t \in Tasks, NEW a, Homed(t, a), NEW n \in Nodes, NEW b \in jobs[n],
           JobStep(n, b)
    PROVE  Homed(t, a)'
<1>0. LinkTypes /\ AgentTypes
  BY DEF ServerTypes
<1>1. UNCHANGED <<loop, parked>>
  BY JobStepFacts DEF server
<1>2. SentStays(t, a)
  <2>1. b.link \in Links /\ (UNCHANGED link \/ \E m : link' = Up(n, b.link, m))
    BY JobStepFacts
  <2>2. UNCHANGED link => SentStays(t, a)
    BY NothingSent
  <2> QED
    BY <1>0, <2>1, <2>2, UpwardTraffic
<1>3. PICK h : /\ \A i \in jobs[n] : h[i].task = i.task /\ h[i].attempt = i.attempt
               /\ \A x \in jobs'[n] : \E i \in jobs[n] : x = h[i]
  BY JobStepFacts
<1>4. \A k \in Nodes \ {n} : jobs'[k] = jobs[k]
  BY JobStepFacts
<1> DEFINE g == [q \in AtJobs(t, a) |-> IF q[2] = n THEN <<"job", n, h[q[3]], 0>> ELSE q]
<1>5. \A q \in AtJobs(t, a) : g[q] = IF q[2] = n THEN <<"job", n, h[q[3]], 0>> ELSE q
  OBVIOUS
<1> HIDE DEF g
<1>6. ASSUME NEW k \in Nodes, NEW j \in JobsOf(t, a, k) PROVE <<"job", k, j, 0>> \in AtJobs(t, a)
  BY DEF AtJobs
<1>7. ASSUME NEW p \in AtJobs(t, a)' PROVE \E q \in AtJobs(t, a) : p = g[q] /\ p[2] = q[2]
  <2>1. PICK k \in Nodes : \E j \in JobsOf(t, a, k)' : p = <<"job", k, j, 0>>
    BY DEF AtJobs
  <2>2. PICK j \in JobsOf(t, a, k)' : p = <<"job", k, j, 0>>
    BY <2>1
  <2>3. CASE k # n
    <3>1. j \in JobsOf(t, a, k)
      BY <1>4, <2>2, <2>3 DEF JobsOf
    <3>2. p \in AtJobs(t, a)
      BY <1>6, <2>2, <3>1
    <3> QED
      BY <1>5, <2>2, <2>3, <3>2
  <2>4. CASE k = n
    <3>1. PICK i \in jobs[n] : j = h[i]
      BY <1>3, <2>2, <2>4 DEF JobsOf
    <3>2. i \in JobsOf(t, a, n)
      BY <1>3, <2>2, <3>1 DEF JobsOf
    <3> DEFINE q == <<"job", n, i, 0>>
    <3>3. q \in AtJobs(t, a)
      BY <1>6, <3>2
    <3>4. q[2] = n /\ q[3] = i /\ p[2] = n /\ p = <<"job", n, h[i], 0>>
      BY <2>2, <2>4, <3>1
    <3> HIDE DEF q
    <3>5. g[q] = p
      BY <1>5, <3>3, <3>4
    <3> QED
      BY <3>3, <3>4, <3>5
  <2> QED
    BY <2>3, <2>4
<1> QED
  BY <1>1, <1>2, <1>7, HomedPhases

\* The other steps move the handlers on, and only that.
LEMMA HomedOtherwise ==
    ASSUME ServerTypes, LiveRowsStay, NEW t \in Tasks, NEW a, Homed(t, a), [Next]_vars, ~StepSchedule,
           SentStays(t, a), JobsStay(t, a)
    PROVE  Homed(t, a)'
<1>1. \A ops : (\A i \in DOMAIN ops : ops[i].op # "assign") => ToSend(t, a, ops) = {}
  BY DEF ToSend
<1>2. ToSend(t, a, <<>>) = {}
  BY DEF ToSend
<1>3. CASE loop' = loop \/ ToSend(t, a, loop') = {}
  <2>1. CASE \A rest \in parked' : rest \in parked \/ ToSend(t, a, rest) = {}
    BY <1>3, <2>1, HomedStays
  <2>2. CASE ~(\A rest \in parked' : rest \in parked \/ ToSend(t, a, rest) = {})
    <3>1. CASE loop # <<>> /\ GoOn(Rest)
      BY <3>1, HomedGoOn DEF SentStays
    <3>2. ASSUME NEW rest, Tame(rest), GoOn(rest) PROVE FALSE
      <4>1. ToSend(t, a, rest) = {}
        BY <1>1, <3>2 DEF Tame
      <4> QED
        BY <2>2, <3>2, <4>1 DEF GoOn
    <3> QED
      BY <2>2, <3>1, <3>2, LoopMoves DEF Resume
  <2> QED
    BY <2>1, <2>2
<1>4. CASE ~(loop' = loop \/ ToSend(t, a, loop') = {})
  <2>1. CASE loop # <<>> /\ loop' = Rest /\ UNCHANGED parked
    <3>1. GoOn(Rest)
      BY <2>1 DEF GoOn
    <3> QED
      BY <2>1, <3>1, HomedGoOn DEF SentStays
  <2>2. CASE loop # <<>> /\ GoOn(Rest)
    BY <2>2, HomedGoOn DEF SentStays
  <2>3. CASE Resume
    BY <2>3, HomedResume DEF Resume
  <2>4. ASSUME NEW rest, Tame(rest), GoOn(rest) PROVE FALSE
    <3>1. ToSend(t, a, rest) = {}
      BY <1>1, <2>4 DEF Tame
    <3> QED
      BY <1>2, <1>4, <2>4, <3>1 DEF GoOn
  <2>5. CASE /\ loop # <<>> /\ Head(loop).op = "compact"
             /\ loop' = [loop EXCEPT ![1] = Schedule] /\ UNCHANGED parked
    BY <2>5, HomedPass DEF SentStays
  <2> QED
    BY <1>1, <1>2, <1>4, <2>1, <2>2, <2>3, <2>4, <2>5, LoopMoves DEF Begins
<1> QED
  BY <1>3, <1>4

LEMMA HomeStep ==
    ASSUME R!TypeOK, ServerTypes, HomeInv, [Next]_vars
    PROVE  HomeInv'
<1> SUFFICES ASSUME NEW t \in Tasks, NEW a \in 1..issued'[t] PROVE Homed(t, a)'
  BY DEF HomeInv
<1>1. CASE StepSchedule
  BY <1>1, HomedScheduled
<1>2. CASE ~StepSchedule
  <2>1. LiveRowsStay
    BY <1>2, LiveStays
  <2>2. Homed(t, a)
    BY <1>2, IssuedStays DEF HomeInv
  <2>3. CASE StepAssign \/ StepRevoke
    BY <2>1, <2>2, <2>3, HomedSends
  <2>4. CASE \E n \in Nodes, c \in Links : AgentRefuses(n, c) \/ AgentAccepts(n, c) \/ AgentRevoked(n, c)
    BY <2>1, <2>2, <2>4, HomedTaken
  <2>5. CASE \E n \in Nodes : \E j \in jobs[n] : JobStep(n, j)
    BY <2>1, <2>2, <2>5, HomedJobs
  <2>6. CASE ~Starts
    <3>1. SentStays(t, a) /\ JobsStay(t, a)
      BY <2>6, NothingStarts
    <3> QED
      BY <1>2, <2>1, <2>2, <3>1, HomedOtherwise
  <2> QED
    BY <2>3, <2>4, <2>5, <2>6 DEF Starts
<1> QED
  BY <1>1, <1>2

-----------------------------------------------------------------------------
(***************************************************************************)
(* The jobs of an agent                                                    *)
(***************************************************************************)
\* An assignment on its way is of an attempt that is no job.
LEMMA AssignedIsNew ==
    ASSUME R!TypeOK, ServerTypes, HomeInv, NEW n \in Nodes, NEW c \in Links, Receives(n, c, "assign"),
           NEW j \in jobs[n], j.task = Head(link[n][c].down).task
    PROVE  j.attempt # Head(link[n][c].down).attempt
<1> DEFINE m == Head(link[n][c].down)
<1>1. m \in Downs /\ m.type = "assign" /\ link[n][c].down # <<>>
  BY ReceivedIsSent
<1>2. m.task \in Tasks /\ m.attempt \in 1..issued[m.task] /\ m = Msg("assign", m.task, m.attempt, "")
  BY <1>1 DEF Downs, Msg
<1>3. link[n][c].down \in Seq(Downs)
  BY DEF ServerTypes, LinkTypes, Socket
<1>4. 1 \in DOMAIN link[n][c].down /\ m = link[n][c].down[1]
  BY <1>1, <1>3, EmptySeq, LenProperties
<1> HIDE DEF m
<1>5. 1 \in OnItsWay(m.task, m.attempt, link[n][c].down)
  BY <1>2, <1>4 DEF OnItsWay
<1>6. <<"sent", n, c, 1>> \in Places(m.task, m.attempt)
  BY <1>5, PlaceKinds
<1>7. ASSUME j.attempt = m.attempt PROVE FALSE
  <2>1. j \in JobsOf(m.task, m.attempt, n)
    BY <1>7 DEF JobsOf, m
  <2>2. <<"job", n, j, 0>> \in Places(m.task, m.attempt)
    BY <2>1, PlaceKinds
  <2>3. <<"job", n, j, 0>> = <<"sent", n, c, 1>>
    BY <1>2, <1>6, <2>2 DEF HomeInv, Homed
  <2> QED
    BY <2>3
<1> QED
  BY <1>7 DEF m

LEMMA OneSlotStep ==
    ASSUME R!TypeOK, ServerTypes, HomeInv, OneSlotInv, [Next]_vars
    PROVE  OneSlotInv'
<1>0. running \in [Nodes -> [Tasks -> Nat]] /\ jobs \in [Nodes -> SUBSET Jobs]
  BY DEF ServerTypes, AgentTypes
<1> DEFINE Keep(js) == {j \in js : j.phase # "leaving" /\ ~j.robbed}
           One(js, r) == (\A i, j \in Keep(js) : i = j) /\ \A j \in Keep(js) : r[j.task] = j.attempt
           Left(js, r) == \A j \in js \ Keep(js) : r[j.task] # j.attempt
           Fine(n, js, r) == (Slots[n] = 1 => One(js, r)) /\ Left(js, r)
<1>1. ASSUME NEW n \in Nodes, \A k \in Nodes : k # n => jobs'[k] = jobs[k] /\ running'[k] = running[k],
             Fine(n, jobs'[n], running'[n])
      PROVE  OneSlotInv'
  <2>1. \A k \in Nodes : Keeping(k) = Keep(jobs[k]) /\ Keeping(k)' = Keep(jobs'[k])
    BY DEF Keeping, Working
  <2>2. \A k \in Nodes : Fine(k, jobs'[k], running'[k])
    <3> SUFFICES ASSUME NEW k \in Nodes, k # n PROVE Fine(k, jobs[k], running[k])
      BY <1>1
    <3> QED
      BY <2>1 DEF OneSlotInv
  <2> QED
    BY <2>1, <2>2 DEF OneSlotInv
<1>2. UNCHANGED agents => OneSlotInv'
  BY DEF OneSlotInv, Keeping, Working, agents
<1>3. \A n \in Nodes : Fine(n, jobs[n], running[n])
  BY DEF OneSlotInv, Keeping, Working
<1>4. \A n \in Nodes : \A j \in jobs[n] : j.task \in Tasks /\ j.attempt \in Nat /\ j.attempt # 0
  <2> SUFFICES ASSUME NEW n \in Nodes, NEW j \in jobs[n] PROVE j.task \in Tasks /\ j.attempt \in Nat /\ j.attempt # 0
    OBVIOUS
  <2>1. j.task \in Tasks /\ j.attempt \in 1..issued[j.task] /\ j.attempt \in Nat
    BY <1>0 DEF Jobs
  <2>2. issued[j.task] \in Nat
    BY <2>1 DEF R!TypeOK
  <2> QED
    BY <2>1, <2>2
<1>5. ASSUME NEW t \in Tasks, \/ \E k \in Keys : ClientSubmit(t, k)
                             \/ ClientCancel(t) \/ ClientDelete(t) \/ LeaseLapses(t)
      PROVE  UNCHANGED agents
  BY <1>5 DEF ClientSubmit, ClientCancel, ClientDelete, LeaseLapses
<1>6. ASSUME NEW n \in Nodes, NEW c \in Links, \/ OnMessage(n, c) \/ OnDisconnect(n, c)
                                                \/ Accepted(n, c) \/ AcceptFails(n, c)
      PROVE  UNCHANGED agents
  BY <1>6 DEF OnMessage, OnHeartbeat, OnProgress, OnResult, OnLeave, OnDisconnect, Accepted, AcceptFails
<1>7. ASSUME NEW n \in Nodes, \/ Kick(n) \/ HeartbeatLate(n) \/ GraceEnds(n) \/ AgentRegister(n)
                             \/ AgentConnect(n) \/ AgentHeartbeat(n) \/ AgentDrops(n)
      PROVE  UNCHANGED agents
  BY <1>7 DEF Kick, HeartbeatLate, GraceEnds, AgentRegister, AgentConnect, AgentHeartbeat, AgentDrops
<1>8. ASSUME LoopStep \/ Resume \/ Tick \/ ClearQueue \/ ServerRestart \/ UNCHANGED vars PROVE UNCHANGED agents
  BY <1>8 DEF LoopStep, StepSchedule, StepAssign, StepRevoke, StepReady, StepCompact, StepDelete, StepClear,
              StepKick, StepLost, StepExpire, Resume, Tick, ClearQueue, ServerRestart, vars
<1>9. ASSUME NEW n \in Nodes, NEW c \in Links, AgentRefuses(n, c) PROVE UNCHANGED agents
  BY <1>9 DEF AgentRefuses
<1>10. ASSUME NEW n \in Nodes, NEW c \in Links, AgentAccepts(n, c) PROVE OneSlotInv'
  <2> DEFINE m == Head(link[n][c].down)
             job == [task |-> m.task, attempt |-> m.attempt, link |-> c, phase |-> "new", robbed |-> FALSE]
  <2>1. m \in Downs /\ m.type = "assign" /\ Receives(n, c, "assign")
    BY <1>10, ReceivedIsSent DEF AgentAccepts
  <2>2. m.task \in Tasks /\ m.attempt \in Nat
    BY <2>1 DEF Downs
  <2>9. \A j \in jobs[n] : j.task = m.task => j.attempt # m.attempt
    BY <2>1, AssignedIsNew
  <2>10. /\ job.task = m.task /\ job.attempt = m.attempt /\ job.phase = "new" /\ ~job.robbed
    OBVIOUS
  <2>3. running' = [running EXCEPT ![n][m.task] = m.attempt] /\ jobs' = [jobs EXCEPT ![n] = jobs[n] \cup {job}]
    BY <1>10 DEF AgentAccepts
  <2>4. Cardinality(Entries(n)) < Slots[n]
    BY <1>10 DEF AgentAccepts
  <2> HIDE DEF m, job
  <2>5. \A k \in Nodes : k # n => jobs'[k] = jobs[k] /\ running'[k] = running[k]
    BY <1>0, <2>3
  <2>6. ASSUME Slots[n] = 1 PROVE Keep(jobs[n]) = {}
    <3>1. Entries(n) \in SUBSET Tasks
      BY DEF Entries
    <3>2. IsFiniteSet(Entries(n))
      BY <3>1, FiniteTasks
    <3>3. Entries(n) = {}
      <4>1. Cardinality(Entries(n)) \in Nat
        BY <3>2, FS_CardinalityType
      <4>2. Cardinality(Entries(n)) = 0
        BY <2>4, <2>6, <4>1
      <4> QED
        BY <3>2, <4>2, FS_EmptySet
    <3> QED
      BY <1>3, <1>4, <2>6, <3>3 DEF Entries
  <2>7. jobs'[n] = jobs[n] \cup {job} /\ running'[n] = [running[n] EXCEPT ![m.task] = m.attempt]
    BY <1>0, <2>3
  <2>8. ASSUME Slots[n] = 1 PROVE One(jobs'[n], running'[n])
    <3>1. Keep(jobs'[n]) = {job}
      BY <2>6, <2>7, <2>8, <2>10
    <3>2. running'[n][job.task] = job.attempt
      BY <1>0, <2>2, <2>7, <2>10
    <3> QED
      BY <3>1, <3>2
  <2>11. Left(jobs'[n], running'[n])
    <3> SUFFICES ASSUME NEW j \in jobs'[n] \ Keep(jobs'[n]) PROVE running'[n][j.task] # j.attempt
      OBVIOUS
    <3>1. j \in jobs[n] \ Keep(jobs[n])
      BY <2>7, <2>10
    <3>2. running[n][j.task] # j.attempt /\ j.task \in Tasks
      BY <1>3, <1>4, <3>1
    <3>3. running'[n][j.task] = IF j.task = m.task THEN m.attempt ELSE running[n][j.task]
      BY <1>0, <2>2, <2>7, <3>2
    <3> QED
      BY <2>9, <3>1, <3>2, <3>3
  <2> QED
    BY <1>1, <2>5, <2>8, <2>11
<1>11. ASSUME NEW n \in Nodes, NEW c \in Links, AgentRevoked(n, c) PROVE OneSlotInv'
  <2> DEFINE gone(j) == [j EXCEPT !.phase = "cancelled"]
             t == Head(link[n][c].down).task
             hit == {j \in jobs[n] : j.task = t /\ j.attempt = running[n][t]}
  <2>1. jobs' = [jobs EXCEPT ![n] = (jobs[n] \ hit) \cup
                    {gone(j) : j \in {i \in hit : i.phase \notin {"new", "reporting"}}}]
    BY <1>11 DEF AgentRevoked
  <2>2. \A j \in jobs[n] : /\ gone(j).task = j.task /\ gone(j).attempt = j.attempt
                         /\ gone(j).robbed = j.robbed /\ gone(j).phase = "cancelled"
    BY <1>0 DEF Jobs
  <2>3. \A k \in Nodes : (k # n => jobs'[k] = jobs[k]) /\ running'[k] = running[k]
    BY <1>0, <1>11, <2>1 DEF AgentRevoked
  <2>4. jobs'[n] = (jobs[n] \ hit) \cup {gone(j) : j \in {i \in hit : i.phase \notin {"new", "reporting"}}}
    BY <1>0, <2>1
  <2>7. hit \subseteq Keep(jobs[n])
    BY <1>3
  <2> HIDE DEF gone, hit
  <2>5. \A x \in jobs'[n] : \E j \in jobs[n] : x = IF j \in hit THEN gone(j) ELSE j
    <3>1. \A j \in jobs[n] \ hit : j = IF j \in hit THEN gone(j) ELSE j
      OBVIOUS
    <3>2. \A j \in hit : j \in jobs[n] /\ gone(j) = IF j \in hit THEN gone(j) ELSE j
      BY <2>7
    <3>3. \A x \in jobs'[n] : x \in jobs[n] \ hit \/ \E j \in hit : x = gone(j)
      BY <2>4
    <3> QED
      BY <3>1, <3>2, <3>3
  <2>8. ASSUME NEW j \in jobs[n], NEW x, x = IF j \in hit THEN gone(j) ELSE j
        PROVE  /\ x.task = j.task /\ x.attempt = j.attempt
               /\ (x.phase # "leaving" /\ ~x.robbed) <=> j \in Keep(jobs[n])
    BY <2>2, <2>7, <2>8
  <2>6. ASSUME Slots[n] = 1 PROVE One(jobs'[n], running'[n])
    <3>1. One(jobs[n], running[n])
      BY <1>3, <2>6
    <3>2. \A x \in Keep(jobs'[n]) : \E j \in Keep(jobs[n]) : x = IF j \in hit THEN gone(j) ELSE j
      BY <2>5, <2>8
    <3> QED
      BY <2>3, <2>8, <3>1, <3>2
  <2>9. Left(jobs'[n], running'[n])
    BY <1>3, <2>3, <2>5, <2>8
  <2> QED
    BY <1>1, <2>3, <2>6, <2>9
<1>12. ASSUME NEW n \in Nodes, NEW j \in jobs[n],
              JobBegins(n, j) \/ \E outcome \in {"succeeded", "failed"} : JobReports(n, j, outcome)
       PROVE  OneSlotInv'
  <2>1. PICK p \in {"begun", "reporting"} :
           jobs' = [jobs EXCEPT ![n] = (jobs[n] \ {j}) \cup {[j EXCEPT !.phase = p]}] /\ UNCHANGED running
    BY <1>12 DEF JobBegins, JobReports
  <2> DEFINE next == [j EXCEPT !.phase = p]
  <2>2. next.task = j.task /\ next.attempt = j.attempt /\ next.robbed = j.robbed /\ next.phase # "leaving"
    BY <1>0 DEF Jobs
  <2>6. j.phase # "leaving"
    BY <1>12 DEF JobBegins, JobReports
  <2>3. \A k \in Nodes : (k # n => jobs'[k] = jobs[k]) /\ running'[k] = running[k]
    BY <1>0, <2>1
  <2>4. jobs'[n] = (jobs[n] \ {j}) \cup {next}
    BY <1>0, <2>1
  <2> HIDE DEF next
  <2>5. ASSUME Slots[n] = 1 PROVE One(jobs'[n], running'[n])
    <3>1. One(jobs[n], running[n])
      BY <1>3, <2>5
    <3>2. \A x \in Keep(jobs'[n]) : x \in Keep(jobs[n]) \ {j} \/ (x = next /\ j \in Keep(jobs[n]))
      BY <2>2, <2>4, <2>6
    <3> QED
      BY <2>2, <2>3, <3>1, <3>2
  <2>7. Left(jobs'[n], running'[n])
    BY <1>3, <2>2, <2>3, <2>4, <2>6
  <2> QED
    BY <1>1, <2>3, <2>5, <2>7
<1>13. ASSUME NEW n \in Nodes, NEW j \in jobs[n], JobCancelled(n, j) \/ JobLeaves(n, j) PROVE OneSlotInv'
  <2> DEFINE last == [j EXCEPT !.phase = "leaving"]
             other(i) == IF i.task = j.task /\ i.attempt = running[n][j.task]
                         THEN [i EXCEPT !.robbed = TRUE] ELSE i
  <2>1. /\ jobs' = [jobs EXCEPT ![n] = Others(n, j)] \/ jobs' = [jobs EXCEPT ![n] = Others(n, j) \cup {last}]
        /\ running' = [running EXCEPT ![n][j.task] = 0]
    BY <1>13 DEF JobCancelled, JobLeaves
  <2>2. \A k \in Nodes : k # n => jobs'[k] = jobs[k] /\ running'[k] = running[k]
    BY <1>0, <2>1
  <2>3. /\ last.task = j.task /\ last.phase = "leaving"
        /\ last.attempt \in Nat /\ last.attempt # 0
    BY <1>0, <1>4 DEF Jobs
  <2>4. \A i \in jobs[n] : /\ other(i).task = i.task /\ other(i).attempt = i.attempt /\ other(i).phase = i.phase
                           /\ ~other(i).robbed => ~i.robbed /\ other(i) = i
                           /\ ~other(i).robbed => ~(i.task = j.task /\ i.attempt = running[n][j.task])
                           /\ other(i).robbed => i.robbed \/ i.task = j.task
    BY <1>0 DEF Jobs
  <2>5. \A x \in jobs'[n] : x = last \/ \E i \in jobs[n] : x = other(i)
    BY <1>0, <2>1 DEF Others
  <2>6. \A t \in Tasks : running'[n][t] = IF t = j.task THEN 0 ELSE running[n][t]
    BY <1>0, <2>1
  <2> HIDE DEF last, other
  <2>7. ASSUME Slots[n] = 1 PROVE One(jobs'[n], running'[n])
    <3>1. One(jobs[n], running[n])
      BY <1>3, <2>7
    <3>2. ASSUME NEW x \in Keep(jobs'[n]) PROVE x \in Keep(jobs[n]) /\ x.task # j.task
      <4>1. PICK i \in jobs[n] : x = other(i)
        BY <2>3, <2>5
      <4>2. i = x /\ i \in Keep(jobs[n]) /\ ~(i.task = j.task /\ i.attempt = running[n][j.task])
        BY <2>4, <4>1
      <4> QED
        BY <3>1, <4>2
    <3>3. \A x \in Keep(jobs'[n]) : x.task \in Tasks
      BY <1>4, <3>2
    <3> QED
      BY <2>6, <3>1, <3>2, <3>3
  <2>8. Left(jobs'[n], running'[n])
    <3> SUFFICES ASSUME NEW x \in jobs'[n] \ Keep(jobs'[n]) PROVE running'[n][x.task] # x.attempt
      OBVIOUS
    <3>1. CASE x = last
      BY <1>4, <2>3, <2>6, <3>1
    <3>2. CASE x # last
      <4>1. PICK i \in jobs[n] : x = other(i)
        BY <2>5, <3>2
      <4>2. /\ x.task = i.task /\ x.attempt = i.attempt /\ i.task \in Tasks /\ i.attempt # 0
            /\ i \in Keep(jobs[n]) => i.task = j.task
        BY <1>4, <2>4, <4>1
      <4>3. i \notin Keep(jobs[n]) => running[n][i.task] # i.attempt
        BY <1>3
      <4> QED
        BY <2>6, <4>2, <4>3
    <3> QED
      BY <3>1, <3>2
  <2> QED
    BY <1>1, <2>2, <2>7, <2>8
<1>14. ASSUME NEW n \in Nodes, AgentCrash(n) \/ AgentLeave(n) PROVE OneSlotInv'
  <2>1. running' = [running EXCEPT ![n] = [t \in Tasks |-> 0]] /\ jobs' = [jobs EXCEPT ![n] = {}]
    BY <1>14 DEF AgentCrash, AgentLeave, Dies
  <2>2. jobs'[n] = {} /\ \A k \in Nodes : k # n => jobs'[k] = jobs[k] /\ running'[k] = running[k]
    BY <1>0, <2>1
  <2> QED
    BY <1>1, <2>2
<1>15. ASSUME NEW n \in Nodes, AgentStep(n) PROVE OneSlotInv'
  <2> HIDE DEF Keep, One, Left, Fine
  <2> QED
    BY <1>2, <1>7, <1>9, <1>10, <1>11, <1>12, <1>13, <1>14, <1>15 DEF AgentStep
<1> QED
  BY <1>2, <1>5, <1>6, <1>7, <1>8, <1>15 DEF Next

-----------------------------------------------------------------------------
(***************************************************************************)
(* The invariant, and what follows from it                                 *)
(***************************************************************************)
LEMMA InitDispatchInv ==
    ASSUME Init
    PROVE  DispatchInv
<1>1. RP!IInv
  <2>1. RP!RouterAssumption
    BY SameTable, DispatchTableAssumption
  <2>2. RP!Init
    BY SameTable DEF Init
  <2> QED
    BY <2>1, <2>2, RP!InitIInv
<1>2. RosterTypes /\ LoopTypes
  BY EmptySeq DEF Init, RosterTypes, LoopTypes, RosterRow, Absent, Links, NoLink
<1>3. LinkTypes
  <2>1. Unused \in Socket
    BY EmptySeq DEF Unused, Socket
  <2> QED
    BY <2>1 DEF Init, LinkTypes
<1>4. AgentTypes
  BY DEF Init, AgentTypes
<1>5. LinkInv /\ OneSlotInv /\ SweepInv
  BY DEF Init, LinkInv, OneSlotInv, Keeping, Working, SweepInv, Unused
<1>6. HomeInv
  <2> SUFFICES ASSUME NEW t \in Tasks, NEW a \in 1..issued[t] PROVE FALSE
    BY DEF HomeInv
  <2> QED
    BY DEF Init, R!Init
<1> QED
  BY <1>1, <1>2, <1>3, <1>4, <1>5, <1>6 DEF DispatchInv, ServerTypes

LEMMA StepDispatchInv ==
    ASSUME DispatchInv, [Next]_vars
    PROVE  DispatchInv'
<1>1. RP!IInv /\ ServerTypes /\ LinkInv /\ OneSlotInv /\ SweepInv /\ HomeInv
  BY DEF DispatchInv
<1>2. R!TypeOK
  BY <1>1, TableFacts
<1>3. RP!IInv' /\ ServerTypes'
  BY <1>1, TypesStep
<1>4. LinkInv' /\ OneSlotInv' /\ SweepInv' /\ HomeInv'
  BY <1>1, <1>2, LinkStep, OneSlotStep, SweepStep, HomeStep
<1> QED
  BY <1>3, <1>4 DEF DispatchInv

LEMMA InvariantDispatchInv == Spec => []DispatchInv
  BY InitDispatchInv, StepDispatchInv, PTL DEF Spec

\* A set whose members are all the same has one at most.
LEMMA AtMostOne ==
    ASSUME NEW S, \A x, y \in S : x = y
    PROVE  Cardinality(S) <= 1
<1>1. CASE S = {}
  BY <1>1, FS_EmptySet
<1>2. CASE S # {}
  <2>1. PICK x \in S : S = {x}
    BY <1>2
  <2>2. Cardinality({x}) = 1
    BY FS_Singleton
  <2> QED
    BY <2>1, <2>2
<1> QED
  BY <1>1, <1>2

\* The server, its handlers and the agents use the task table only through the
\* operations of scheduler/router.py: every step of theirs is one of Router's, so
\* whatever is proved of the table holds in the running system.
THEOREM TableIsRouters == Spec => TableKept
<1>1. DispatchInv /\ [Next]_vars => [table' # table => R!Next]_table
  BY TableFacts, TableStep DEF DispatchInv
<1>2. Init => R!Init
  BY DEF Init
<1> QED
  BY <1>1, <1>2, InvariantDispatchInv, PTL DEF Spec, TableKept

\* conns.add and _on_disconnect: a live websocket is in the connection map from when
\* it is accepted, and only one that is older and accepted later takes its place.
THEOREM LatestLinkHolds == Spec => LatestLink
<1>1. DispatchInv /\ [Next]_vars =>
         [\A n \in Nodes, c \in Links :
             Live(n, c)' /\ (Live(n, c) => conns[n] = c) =>
                 conns'[n] = c \/ \E d \in 1..(c - 1) : Accepted(n, d)]_vars
  BY LinkStep DEF DispatchInv, LatestStep
<1> QED
  BY <1>1, InvariantDispatchInv, PTL DEF Spec, LatestLink

\* _session and _execute of node/agent.py: an agent with one slot never works at two tasks, but
\* for a job whose entry an earlier one of the same task has removed.
THEOREM OneAtATimeHolds == Spec => []OneAtATime
<1>1. DispatchInv => OneAtATime
  <2> SUFFICES ASSUME OneSlotInv, NEW n \in Nodes, Slots[n] = 1
               PROVE  Cardinality({j \in Working(n) : ~j.robbed}) <= 1
    BY DEF DispatchInv, OneAtATime
  <2>1. \A i, j \in Keeping(n) : i = j
    BY DEF OneSlotInv
  <2> QED
    BY <2>1, AtMostOne DEF Keeping
<1> QED
  BY <1>1, InvariantDispatchInv, PTL

\* Whoever marks a node offline (the tick, LEAVE, a kick, a send that raises)
\* requeues its tasks before another handler runs, unless the process dies.
THEOREM NoTaskStranded == Spec => NoStranding
<1>1. DispatchInv /\ [Next]_vars => [\A n \in Nodes : Stranded(n)' => Stranded(n) \/ ServerRestart]_vars
  BY TableFacts, StrandingStep DEF DispatchInv
<1> QED
  BY <1>1, InvariantDispatchInv, PTL DEF Spec, NoStranding

\* An attempt is started at most once, and the live one only on the node its row
\* names, however sends are suspended, websockets replaced and nodes lost.
THEOREM OneHomeHolds == Spec => []OneHome
<1>1. DispatchInv => OneHome
  <2> SUFFICES ASSUME HomeInv, NEW t \in Tasks, NEW a \in 1..issued[t]
               PROVE  /\ Cardinality(Places(t, a)) <= 1
                      /\ rows[t].state \in R!InFlight /\ rows[t].attempt = a =>
                            \A place \in Places(t, a) : place[2] = rows[t].node
    BY DEF DispatchInv, OneHome
  <2>1. Homed(t, a)
    BY DEF HomeInv
  <2> QED
    BY <2>1, AtMostOne DEF Homed
<1> QED
  BY <1>1, InvariantDispatchInv, PTL
=============================================================================
