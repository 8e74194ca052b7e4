------------------------------ MODULE Dispatch ------------------------------
(***************************************************************************)
(* The server and its agents around the task table: the roster of          *)
(* scheduler/registry.py, the message handlers, the scheduling pass and    *)
(* the tick of scheduler/server.py, the websockets between them, and the   *)
(* agent of node/agent.py.                                                 *)
(*                                                                         *)
(* The server is one asyncio event loop.  "loop" holds what the running    *)
(* handler still has to do; a handler starts only when it is empty, so     *)
(* handlers are atomic up to their suspension points.  Those are accepting *)
(* a websocket and the sends to one (EventBroadcaster.publish contains no  *)
(* await): after one, the rest of the handler may be parked and other      *)
(* handlers run first.  Agents move only between handlers, which loses     *)
(* nothing: what an agent does while a handler runs commutes with the      *)
(* handler.                                                                *)
(*                                                                         *)
(* Every node here hosts a model; a roster row without one is never given  *)
(* work.  Tool calls and code edits are the subject of other modules.      *)
(***************************************************************************)
EXTENDS Naturals, Sequences, FiniteSets, SequencesExt

CONSTANTS
    Tasks, Keys, Nodes, NoNode, NoKey, Slots, Eligible, MaxAttempts, QueueCap,  \* see Router
    NoTask,      \* None in current_task_id
    MaxLinks,    \* bound: websockets an agent opens
    MaxParked,   \* bound: handlers suspended in a send at a time
    MaxFaults    \* bound: disturbances in a behaviour

ASSUME DispatchAssumption == NoTask \notin Tasks /\ MaxLinks \in Nat /\ MaxParked \in Nat
                              /\ MaxFaults \in Nat /\ IsFiniteSet(Nodes)

Links  == 1..MaxLinks
NoLink == 0

VARIABLES
    rows, seq, minted, issued,  \* the task table, see Router
    roster,   \* roster[n]: the row of n in the nodes table
    token,    \* token[n]: the server knows the token the agent of n holds
    conns,    \* AgentConnections: the websocket that node ids map to
    link,     \* link[n][c]: the c-th websocket of n, its two directions
    running,  \* running[n]: the agent's dict from task to job, 0 for no entry
    jobs,     \* jobs[n]: the asyncio tasks that execute an assignment on n
    loop,     \* what the running handler has left to do
    parked,   \* the rests of the handlers suspended in a send
    faults    \* how many disturbances there have been, for MaxFaults

table  == <<rows, seq, minted, issued>>
server == <<roster, token, conns, loop, parked>>
agents == <<running, jobs>>
vars   == <<table, server, link, agents, faults>>

R == INSTANCE Router

ASSUME DispatchTableAssumption == R!RouterAssumption

Absent == [status |-> "absent", current |-> NoTask, fresh |-> FALSE, away |-> "never"]
Unused == [peer |-> "unused", accepting |-> FALSE, served |-> FALSE, up |-> <<>>, down |-> <<>>]

\* What a suspended handler can have left to do, one entry per step.
Op(op, n, t, a) == [op |-> op, node |-> n, task |-> t, attempt |-> a]
Schedule == Op("schedule", NoNode, NoTask, 0)

Msg(type, t, a, info) == [type |-> type, task |-> t, attempt |-> a, info |-> info]

Idle == loop = <<>>
Online(n) == roster[n].status \notin {"absent", "offline"}

\* A disturbance: something goes wrong or is called off.
Disturbs == faults < MaxFaults /\ faults' = faults + 1

\* The rest of a handler after a send: it goes on at once, or is parked.
GoOn(rest) ==
    \/ loop' = rest /\ UNCHANGED parked
    \/ /\ rest # <<>> /\ Cardinality(parked) < MaxParked
       /\ loop' = <<>> /\ parked' = parked \cup {rest}

-----------------------------------------------------------------------------
(***************************************************************************)
(* The roster                                                              *)
(***************************************************************************)
\* set_status, which ignores nodes without a row.
SetStatus(r, n, status, current) ==
    IF r[n].status = "absent" THEN r
    ELSE [r EXCEPT ![n].status = status, ![n].current = current]

\* The reap grace is the age of the task the node was running: none if that
\* task is no longer in flight.
Away(n) == IF roster[n].current \in R!Has(R!InFlight) THEN "grace" ELSE "over"

\* remove (LEAVE and kick) and register.
Removed(r, n) ==
    IF r[n].status = "absent" THEN r
    ELSE [r EXCEPT ![n].status = "offline", ![n].current = NoTask, ![n].away = Away(n)]
Registered(r, n) ==
    [r EXCEPT ![n].status = "ready", ![n].current = NoTask, ![n].fresh = TRUE]

\* on_heartbeat, which ignores nodes without a row too.
Heartbeat(r, n, m) ==
    IF r[n].status = "absent" THEN r
    ELSE [r EXCEPT ![n].status = m.info, ![n].current = m.task, ![n].fresh = TRUE]

Stale == {n \in Nodes : Online(n) /\ ~roster[n].fresh}

\* One tick of the roster: mark_offline_stale, then _reap_offline.
Swept == [n \in Nodes |->
    LET away == IF n \in Stale THEN Away(n) ELSE roster[n].away
        off  == n \in Stale \/ roster[n].status = "offline"
    IN  IF off /\ away = "over" THEN Absent
        ELSE IF n \in Stale THEN [roster[n] EXCEPT !.status = "offline", !.away = away]
        ELSE roster[n]]

ReadyNodes ==
    {n \in Nodes : IF Slots[n] <= 1
                   THEN roster[n].status = "ready" /\ roster[n].current = NoTask
                   ELSE roster[n].status \in {"ready", "busy"}}

-----------------------------------------------------------------------------
Init ==
    /\ R!Init
    /\ roster = [n \in Nodes |-> Absent]
    /\ token = [n \in Nodes |-> FALSE]
    /\ conns = [n \in Nodes |-> NoLink]
    /\ link = [n \in Nodes |-> [c \in Links |-> Unused]]
    /\ running = [n \in Nodes |-> [t \in Tasks |-> 0]]
    /\ jobs = [n \in Nodes |-> {}]
    /\ loop = <<>>
    /\ parked = {}
    /\ faults = 0

(***************************************************************************)
(* Requests of clients and operators                                       *)
(***************************************************************************)
ClientSubmit(t, k) ==
    /\ Idle
    /\ R!Submit(t, k)
    /\ loop' = <<Schedule>>
    /\ UNCHANGED <<faults, roster, token, conns, parked, link, agents>>

\* The row is cancelled first; the agent is told, and its node set READY, after.
ClientCancel(t) ==
    /\ Idle
    /\ Disturbs
    /\ R!Cancel(t)
    /\ LET row == rows[t]
       IN  loop' = IF row.node = NoNode THEN <<>>
                   ELSE <<Op("tell", row.node, t, row.attempt), Op("ready", row.node, t, 0)>>
    /\ UNCHANGED <<roster, token, conns, parked, link, agents>>

\* Deleting revokes first and removes the row after.
Revocation(t) ==
    <<Op("revoke", rows[t].node, t, rows[t].attempt), Op("ready", rows[t].node, t, 0)>>

ClientDelete(t) ==
    /\ Idle
    /\ Disturbs
    /\ R!Present(t)
    /\ loop' = (IF rows[t].state \in R!InFlight THEN Revocation(t) ELSE <<>>)
               \o <<Op("delete", NoNode, t, 0)>>
    /\ UNCHANGED <<table, roster, token, conns, parked, link, agents>>

ClearQueue ==
    /\ Idle
    /\ Disturbs
    /\ \E order \in SetToSeqs(R!Has(R!InFlight)) :
          loop' = [i \in 1..2 * Len(order) |-> Revocation(order[(i + 1) \div 2])[2 - (i % 2)]]
                  \o <<Op("clear", NoNode, NoTask, 0)>>
    /\ UNCHANGED <<table, roster, token, conns, parked, link, agents>>

\* kick closes the socket, waits for the closing handshake, then removes the
\* node and its tokens.
Kick(n) ==
    /\ Idle
    /\ Disturbs
    /\ roster[n].status # "absent"
    /\ link' = IF conns[n] = NoLink THEN link
               ELSE [link EXCEPT ![n][conns[n]] = [@ EXCEPT !.peer = "gone", !.up = <<>>, !.down = <<>>]]
    /\ IF conns[n] = NoLink THEN loop' = <<Op("kick", n, NoTask, 0)>> /\ UNCHANGED parked
       ELSE GoOn(<<Op("kick", n, NoTask, 0)>>)
    /\ UNCHANGED <<table, roster, token, conns, agents>>

(***************************************************************************)
(* Messages of agents                                                      *)
(***************************************************************************)
\* A handler takes the next message of a socket the server still serves.
Takes(n, c, type) ==
    /\ Idle
    /\ link[n][c].served
    /\ link[n][c].up # <<>>
    /\ Head(link[n][c].up).type = type
    /\ link' = [link EXCEPT ![n][c].up = Tail(@)]

OnHeartbeat(n, c) ==
    /\ Takes(n, c, "heartbeat")
    /\ roster' = Heartbeat(roster, n, Head(link[n][c].up))
    /\ loop' = <<Schedule>>
    /\ UNCHANGED <<faults, table, token, conns, parked, agents>>

OnProgress(n, c) ==
    /\ Takes(n, c, "progress")
    /\ LET m == Head(link[n][c].up)
       IN  \/ R!MarkRunning(m.task, m.attempt)
           \/ /\ rows[m.task].state # "assigned" \/ rows[m.task].attempt # m.attempt
              /\ UNCHANGED table
    /\ UNCHANGED <<faults, server, agents>>

\* What is left to do once a result has been committed: a success may call for a
\* summary of its session; then the node that sent it is set READY.
Wrapup(n, outcome) ==
    LET end == <<Op("ready", n, NoTask, 0), Schedule>>
    IN  {end} \cup (IF outcome = "succeeded" THEN {<<Op("compact", NoNode, NoTask, 0)>> \o end} ELSE {})

\* A result that settles its task may end a race, and the REVOKEs sent then suspend
\* the handler.  One that does not leaves the node READY all the same.
OnResult(n, c) ==
    /\ Takes(n, c, "result")
    /\ LET m == Head(link[n][c].up)
       IN  \/ /\ R!Commit(m.task, m.attempt, m.info)
              /\ \E rest \in Wrapup(n, m.info) : GoOn(rest)
              /\ UNCHANGED roster
           \/ /\ R!Retry(m.task, m.attempt, m.info) \/ (~R!Reportable(m.task, m.attempt) /\ UNCHANGED table)
              /\ roster' = SetStatus(roster, n, "ready", NoTask)
              /\ loop' = <<Schedule>>
              /\ UNCHANGED parked
    /\ UNCHANGED <<faults, token, conns, agents>>

\* Mutant: every row that names the node is requeued, settled ones too.
LoseNode_Settled(n) ==
    /\ rows' = [t \in Tasks |-> IF rows[t].node = n THEN R!AfterLoss(rows[t]) ELSE rows[t]]
    /\ UNCHANGED <<seq, minted, issued>>

LoseNode(n) == IF R!Load(n) # {} THEN R!OnNodeLost(n) ELSE UNCHANGED table

\* Mutant: the tasks of a leaving node are not requeued.
OnLeave_TasksKept(n, c) ==
    /\ Takes(n, c, "leave")
    /\ roster' = Removed(roster, n)
    /\ loop' = <<Schedule>>
    /\ UNCHANGED <<faults, table, token, conns, parked, agents>>

OnLeave(n, c) ==
    /\ Takes(n, c, "leave")
    /\ roster' = Removed(roster, n)
    /\ LoseNode(n)
    /\ loop' = <<Schedule>>
    /\ UNCHANGED <<faults, token, conns, parked, agents>>

\* Mutant: a socket that ends takes its node out of the map whatever it holds.
OnDisconnect_AnySocket(n, c) ==
    /\ Idle
    /\ link[n][c].served /\ link[n][c].peer = "gone" /\ link[n][c].up = <<>>
    /\ link' = [link EXCEPT ![n][c].served = FALSE]
    /\ conns' = [conns EXCEPT ![n] = NoLink]
    /\ UNCHANGED <<faults, table, roster, token, loop, parked, agents>>

\* The receive loop ends once the peer is gone and its last message read; only
\* the socket that is still the current one leaves the connection map.
OnDisconnect(n, c) ==
    /\ Idle
    /\ link[n][c].served /\ link[n][c].peer = "gone" /\ link[n][c].up = <<>>
    /\ link' = [link EXCEPT ![n][c].served = FALSE]
    /\ conns' = IF conns[n] = c THEN [conns EXCEPT ![n] = NoLink] ELSE conns
    /\ UNCHANGED <<faults, table, roster, token, loop, parked, agents>>

(***************************************************************************)
(* The steps of a handler                                                  *)
(***************************************************************************)
\* The running handler is at a step of kind op.
At(op) == loop # <<>> /\ Head(loop).op = op
Rest == Tail(loop)

\* Mutant: a task keeps its attempt id when it is assigned again.
Batch_IdKept(asg, order) == [i \in DOMAIN order |-> Op("assign", asg[order[i]], order[i], 1)]

\* The assignments of a pass, in the order of the tasks.
Batch(asg, order) ==
    [i \in DOMAIN order |-> Op("assign", asg[order[i]], order[i], issued[order[i]] + 1)]

\* _schedule_now: one pass of schedule_pending, then one ASSIGN per assignment,
\* in queue order.
StepSchedule ==
    /\ At("schedule")
    /\ \E S \in SUBSET R!Has({"queued"}) :
       \E asg \in [S -> ReadyNodes], ord \in R!QueueOrders, order \in SetToSeqs(S) :
          /\ R!IsGreedy(asg, ReadyNodes, ord)
          /\ R!Assign(asg)
          /\ \A i, j \in DOMAIN order : i < j => ord[order[i]] < ord[order[j]]
          /\ loop' = Batch(asg, order) \o Rest
    /\ UNCHANGED <<faults, roster, token, conns, parked, link, agents>>

\* A message to the current socket of n; it is lost if the peer has gone.
Sent(n, m) ==
    IF link[n][conns[n]].peer = "open"
    THEN [link EXCEPT ![n][conns[n]].down = Append(@, m)]
    ELSE link

\* A send on a socket whose peer has gone may raise instead.
MayRaise(n) == conns[n] # NoLink /\ link[n][conns[n]].peer = "gone"

StepAssign ==
    /\ At("assign")
    /\ LET o == Head(loop)
           n == o.node
       IN  \/ /\ conns[n] = NoLink
              /\ LoseNode(n)
              /\ loop' = Rest
              /\ UNCHANGED <<roster, link, parked>>
           \/ /\ conns[n] # NoLink
              /\ roster' = SetStatus(roster, n, "busy", o.task)
              /\ link' = Sent(n, Msg("assign", o.task, o.attempt, ""))
              /\ GoOn(Rest)
              /\ UNCHANGED table
           \/ /\ MayRaise(n)
              /\ LoseNode(n)
              /\ roster' = SetStatus(roster, n, "offline", NoTask)
              /\ loop' = Rest
              /\ UNCHANGED <<link, parked>>
    /\ UNCHANGED <<faults, token, conns, agents>>

\* REVOKE: cancel ("tell") lets a failed send end the request, _revoke_assignment
\* ("revoke") suppresses it.
StepRevoke ==
    /\ loop # <<>> /\ Head(loop).op \in {"tell", "revoke"}
    /\ LET o == Head(loop)
       IN  \/ /\ conns[o.node] = NoLink
              /\ loop' = Rest
              /\ UNCHANGED <<link, parked>>
           \/ /\ conns[o.node] # NoLink
              /\ link' = Sent(o.node, Msg("revoke", o.task, o.attempt, ""))
              /\ GoOn(Rest)
           \/ /\ o.op = "tell" /\ MayRaise(o.node)
              /\ loop' = <<>>
              /\ UNCHANGED <<link, parked>>
    /\ UNCHANGED <<faults, table, roster, token, conns, agents>>

StepReady ==
    /\ At("ready")
    /\ roster' = SetStatus(roster, Head(loop).node, "ready", NoTask)
    /\ loop' = Rest
    /\ UNCHANGED <<faults, table, token, conns, parked, link, agents>>

\* _maybe_compact: the summary is a task like any other, and a scheduling pass
\* takes the place of this step; or there is nothing to sum up, or the queue is full.
StepCompact ==
    /\ At("compact")
    /\ \/ /\ \E t \in Tasks, k \in Keys : R!Submit(t, k)
          /\ loop' = [loop EXCEPT ![1] = Schedule]
       \/ /\ UNCHANGED table
          /\ loop' = Rest
    /\ UNCHANGED <<faults, roster, token, conns, parked, link, agents>>

StepDelete ==
    /\ At("delete")
    /\ LET t == Head(loop).task
       IN  \/ R!Delete(t)
           \/ ~R!Present(t) /\ UNCHANGED table
    /\ loop' = Rest
    /\ UNCHANGED <<faults, roster, token, conns, parked, link, agents>>

StepClear ==
    /\ At("clear")
    /\ R!Clear
    /\ loop' = Rest
    /\ UNCHANGED <<faults, roster, token, conns, parked, link, agents>>

StepKick ==
    /\ At("kick")
    /\ LET n == Head(loop).node
       IN  /\ roster' = Removed(roster, n)
           /\ LoseNode(n)
           /\ token' = [token EXCEPT ![n] = FALSE]
    /\ loop' = Rest
    /\ UNCHANGED <<faults, conns, parked, link, agents>>

StepLost ==
    /\ At("lost")
    /\ LoseNode(Head(loop).node)
    /\ loop' = Rest
    /\ UNCHANGED <<faults, roster, token, conns, parked, link, agents>>

StepExpire ==
    /\ At("expire")
    /\ \/ R!ExpireLeases
       \/ R!LapsedNodes = {} /\ UNCHANGED table
    /\ loop' = Rest
    /\ UNCHANGED <<faults, roster, token, conns, parked, link, agents>>

Resume ==
    /\ Idle
    /\ \E rest \in parked : loop' = rest /\ parked' = parked \ {rest}
    /\ UNCHANGED <<faults, table, roster, token, conns, link, agents>>

\* _tick_loop: stale nodes lose their tasks, the reaper runs, leases expire,
\* and a scheduling pass ends the tick.  None of it suspends before the pass.
\* A tick that finds nothing to do changes nothing and is left out.
Tick ==
    /\ Idle
    /\ Swept # roster \/ R!LapsedNodes # {} \/ R!Has({"queued"}) # {}
    /\ roster' = Swept
    /\ \E order \in SetToSeqs(Stale) :
          loop' = [i \in DOMAIN order |-> Op("lost", order[i], NoTask, 0)]
                  \o <<Op("expire", NoNode, NoTask, 0), Schedule>>
    /\ UNCHANGED <<faults, table, token, conns, parked, link, agents>>

\* The server process dies and comes back on the same database.
ServerRestart ==
    /\ Disturbs
    /\ R!Restart
    /\ token' = [n \in Nodes |-> FALSE]
    /\ conns' = [n \in Nodes |-> NoLink]
    /\ link' = [n \in Nodes |-> [c \in Links |->
                   IF link[n][c].peer = "unused" THEN Unused
                   ELSE [Unused EXCEPT !.peer = "gone"]]]
    /\ loop' = <<>>
    /\ parked' = {}
    /\ UNCHANGED <<roster, agents>>

(***************************************************************************)
(* The clocks                                                              *)
(***************************************************************************)
\* No heartbeat was handled for heartbeat_offline_after intervals.
HeartbeatLate(n) ==
    /\ Idle
    /\ Disturbs
    /\ Online(n) /\ roster[n].fresh
    /\ roster' = [roster EXCEPT ![n].fresh = FALSE]
    /\ UNCHANGED <<table, token, conns, loop, parked, link, agents>>

GraceEnds(n) ==
    /\ Idle
    /\ roster[n].status = "offline" /\ roster[n].away = "grace"
    /\ roster' = [roster EXCEPT ![n].away = "over"]
    /\ UNCHANGED <<faults, table, token, conns, loop, parked, link, agents>>

LeaseLapses(t) ==
    /\ Idle
    /\ Disturbs
    /\ R!LeaseLapses(t)
    /\ UNCHANGED <<server, link, agents>>

(***************************************************************************)
(* The agent                                                               *)
(***************************************************************************)
Open(n) == {c \in Links : link[n][c].peer = "open"}
Entries(n) == {t \in Tasks : running[n][t] # 0}

\* /v1/register and the connection that follows are separate requests; an
\* agent whose token is still known may also connect without registering again.
AgentRegister(n) ==
    /\ Idle
    /\ Open(n) = {}
    /\ roster' = Registered(roster, n)
    /\ token' = [token EXCEPT ![n] = TRUE]
    /\ UNCHANGED <<faults, table, conns, loop, parked, link, agents>>

AgentConnect(n) ==
    /\ Idle
    /\ Open(n) = {} /\ token[n]
    /\ \E c \in Links :
          /\ link[n][c].peer = "unused"
          /\ \A d \in Links : link[n][d].peer = "unused" => c <= d
          /\ link' = [link EXCEPT ![n][c] = [Unused EXCEPT !.peer = "open", !.accepting = TRUE]]
    /\ UNCHANGED <<faults, table, server, agents>>

\* The token has been looked at, and the socket is accepted: meanwhile the token may
\* have gone, the peer, or both, and a later socket may have been accepted.
Accepted(n, c) ==
    /\ Idle
    /\ link[n][c].accepting
    /\ link' = [link EXCEPT ![n][c].accepting = FALSE, ![n][c].served = TRUE]
    /\ conns' = [conns EXCEPT ![n] = c]
    /\ UNCHANGED <<faults, table, roster, token, loop, parked, agents>>

AcceptFails(n, c) ==
    /\ Idle
    /\ link[n][c].accepting /\ link[n][c].peer = "gone"
    /\ link' = [link EXCEPT ![n][c].accepting = FALSE]
    /\ UNCHANGED <<faults, table, server, agents>>

Up(n, c, m) == [link EXCEPT ![n][c].up = Append(@, m)]

\* BUSY when no slot is free; of several running tasks any may be named.  (Bound:
\* a heartbeat is sent only when everything sent before it has been read.)
AgentHeartbeat(n) ==
    /\ Idle
    /\ \E c \in Open(n) :
          /\ link[n][c].up = <<>>
          /\ \E t \in IF Entries(n) = {} THEN {NoTask} ELSE Entries(n) :
                link' = Up(n, c, Msg("heartbeat", t, 0,
                    IF Cardinality(Entries(n)) >= Slots[n] THEN "busy" ELSE "ready"))
    /\ UNCHANGED <<faults, table, server, agents>>

\* The agent's receive loop takes the next message of its socket.
Receives(n, c, type) ==
    /\ Idle
    /\ c \in Open(n)
    /\ link[n][c].down # <<>>
    /\ Head(link[n][c].down).type = type

Popped(n, c) == [link EXCEPT ![n][c].down = Tail(@)]

\* With no entry free in "running" an ASSIGN is answered with a failure.
AgentRefuses(n, c) ==
    /\ Receives(n, c, "assign")
    /\ Cardinality(Entries(n)) >= Slots[n]
    /\ LET m == Head(link[n][c].down)
       IN  link' = [Popped(n, c) EXCEPT ![n][c].up =
                       Append(@, Msg("result", m.task, m.attempt, "failed"))]
    /\ UNCHANGED <<faults, table, server, agents>>

\* Otherwise a job is created, to run when the event loop gets to it, and
\* entered under its task id.
AgentAccepts(n, c) ==
    /\ Receives(n, c, "assign")
    /\ Cardinality(Entries(n)) < Slots[n]
    /\ LET m == Head(link[n][c].down)
       IN  /\ running' = [running EXCEPT ![n][m.task] = m.attempt]
           /\ jobs' = [jobs EXCEPT ![n] = @ \cup
                  {[task |-> m.task, attempt |-> m.attempt, link |-> c, phase |-> "new", robbed |-> FALSE]}]
    /\ link' = Popped(n, c)
    /\ UNCHANGED <<faults, table, server>>

\* REVOKE cancels the job entered under the task id.  One that has not begun
\* is dropped by asyncio without running any of its code, and one that is sending
\* its report is thrown out of the send: either way its entry stays.  One at work
\* gets the CancelledError at its next step.
AgentRevoked(n, c) ==
    /\ Receives(n, c, "revoke")
    /\ LET t == Head(link[n][c].down).task
           hit == {j \in jobs[n] : j.task = t /\ j.attempt = running[n][t]}
       IN  jobs' = [jobs EXCEPT ![n] = (@ \ hit) \cup
                  {[j EXCEPT !.phase = "cancelled"] : j \in {i \in hit : i.phase \notin {"new", "reporting"}}}]
    /\ link' = Popped(n, c)
    /\ UNCHANGED <<faults, table, server, running>>

\* A result goes out on the socket the assignment came in on, if still open.
Report(n, j, outcome) ==
    IF link[n][j.link].peer = "open"
    THEN Up(n, j.link, Msg("result", j.task, j.attempt, outcome))
    ELSE link

\* The event loop gets to the job, which may stream output: only the first
\* piece of an attempt changes anything at the server.
JobBegins(n, j) ==
    /\ Idle
    /\ j.phase = "new"
    /\ jobs' = [jobs EXCEPT ![n] = (@ \ {j}) \cup {[j EXCEPT !.phase = "begun"]}]
    /\ \/ UNCHANGED link
       \/ /\ link[n][j.link].peer = "open"
          /\ link' = Up(n, j.link, Msg("progress", j.task, j.attempt, ""))
    /\ UNCHANGED <<faults, table, server, running>>

\* _execute ends: it reports, on the socket if that is still open, and the send
\* suspends it.
JobReports(n, j, outcome) ==
    /\ Idle
    /\ j.phase = "begun"
    /\ link' = Report(n, j, outcome)
    /\ jobs' = [jobs EXCEPT ![n] = (@ \ {j}) \cup {[j EXCEPT !.phase = "reporting"]}]
    /\ UNCHANGED <<faults, table, server, running>>

\* A job removes the entry its task id has now, which may be that of another job,
\* of a later attempt: what the other jobs are then.
Others(n, j) ==
    {IF i.task = j.task /\ i.attempt = running[n][j.task] THEN [i EXCEPT !.robbed = TRUE] ELSE i
     : i \in jobs[n] \ {j}}

\* A cancelled job removes the entry, and passes through the same finally clause
\* with state SUCCEEDED.
JobCancelled(n, j) ==
    /\ Idle
    /\ j.phase = "cancelled"
    /\ link' = Report(n, j, "succeeded")
    /\ jobs' = [jobs EXCEPT ![n] = Others(n, j) \cup {[j EXCEPT !.phase = "leaving"]}]
    /\ running' = [running EXCEPT ![n][j.task] = 0]
    /\ UNCHANGED <<faults, table, server>>

\* The report is sent, and the job removes the entry, a second time if it was cancelled.
JobLeaves(n, j) ==
    /\ Idle
    /\ j.phase \in {"reporting", "leaving"}
    /\ jobs' = [jobs EXCEPT ![n] = Others(n, j)]
    /\ running' = [running EXCEPT ![n][j.task] = 0]
    /\ UNCHANGED <<faults, table, server, link>>

\* The connection breaks: what was sent down is lost, and any suffix of what
\* was sent up.  The jobs go on.
Dropped(n, c) ==
    \E k \in 0..Len(link[n][c].up) :
        link' = [link EXCEPT ![n][c].peer = "gone", ![n][c].down = <<>>,
                             ![n][c].up = SubSeq(@, 1, k)]

\* Mutant: the agent forgets its jobs with the connection, but they go on.
AgentDrops_Forgets(n) ==
    /\ Idle
    /\ Disturbs
    /\ \E c \in Open(n) : Dropped(n, c)
    /\ running' = [running EXCEPT ![n] = [t \in Tasks |-> 0]]
    /\ UNCHANGED <<table, server, jobs>>

AgentDrops(n) ==
    /\ Idle
    /\ Disturbs
    /\ \E c \in Open(n) : Dropped(n, c)
    /\ UNCHANGED <<table, server, agents>>

\* The agent process dies, or stops after a LEAVE.
Dies(n) ==
    /\ running' = [running EXCEPT ![n] = [t \in Tasks |-> 0]]
    /\ jobs' = [jobs EXCEPT ![n] = {}]
    /\ token' = [token EXCEPT ![n] = FALSE]
    /\ UNCHANGED <<table, roster, conns, loop, parked>>

AgentCrash(n) ==
    /\ Idle
    /\ Disturbs
    /\ \E c \in Open(n) : Dropped(n, c)
    /\ Dies(n)

AgentLeave(n) ==
    /\ Idle
    /\ Disturbs
    /\ \E c \in Open(n) :
          link' = [link EXCEPT ![n][c].peer = "gone", ![n][c].down = <<>>,
                               ![n][c].up = Append(@, Msg("leave", NoTask, 0, ""))]
    /\ Dies(n)

-----------------------------------------------------------------------------
OnMessage(n, c) ==
    OnHeartbeat(n, c) \/ OnProgress(n, c) \/ OnResult(n, c) \/ OnLeave(n, c)

LoopStep ==
    \/ StepSchedule \/ StepAssign \/ StepRevoke \/ StepReady \/ StepCompact \/ StepDelete
    \/ StepClear \/ StepKick \/ StepLost \/ StepExpire

AgentStep(n) ==
    \/ AgentRegister(n) \/ AgentConnect(n) \/ AgentHeartbeat(n)
    \/ \E c \in Links : AgentRefuses(n, c) \/ AgentAccepts(n, c) \/ AgentRevoked(n, c)
    \/ \E j \in jobs[n] :
          \/ JobBegins(n, j) \/ JobCancelled(n, j) \/ JobLeaves(n, j)
          \/ \E outcome \in {"succeeded", "failed"} : JobReports(n, j, outcome)
    \/ AgentDrops(n) \/ AgentCrash(n) \/ AgentLeave(n)

Next ==
    \/ \E t \in Tasks, k \in Keys : ClientSubmit(t, k)
    \/ \E t \in Tasks : ClientCancel(t) \/ ClientDelete(t) \/ LeaseLapses(t)
    \/ \E n \in Nodes, c \in Links : OnMessage(n, c) \/ OnDisconnect(n, c)
                                     \/ Accepted(n, c) \/ AcceptFails(n, c)
    \/ \E n \in Nodes : Kick(n) \/ HeartbeatLate(n) \/ GraceEnds(n) \/ AgentStep(n)
    \/ LoopStep \/ Resume \/ Tick
    \/ ClearQueue \/ ServerRestart

Spec == Init /\ [][Next]_vars

-----------------------------------------------------------------------------
(***************************************************************************)
(* Safety                                                                  *)
(***************************************************************************)
\* Where attempt a of t is being started or run: assignments still to be sent,
\* ASSIGN messages on their way, and jobs, each with its node.
ToSend(t, a, ops) == {i \in DOMAIN ops : ops[i].op = "assign" /\ ops[i].task = t /\ ops[i].attempt = a}
OnItsWay(t, a, down) == {i \in DOMAIN down : down[i] = Msg("assign", t, a, "")}
JobsOf(t, a, n) == {j \in jobs[n] : j.task = t /\ j.attempt = a}
Places(t, a) ==
    {<<"loop", loop[i].node, 0, i>> : i \in ToSend(t, a, loop)}
    \cup (UNION {{<<"parked", p[i].node, p, i>> : i \in ToSend(t, a, p)} : p \in parked})
    \cup (UNION {UNION {{<<"sent", n, c, i>> : i \in OnItsWay(t, a, link[n][c].down)} : c \in Links}
                 : n \in Nodes})
    \cup (UNION {{<<"job", n, j, 0>> : j \in JobsOf(t, a, n)} : n \in Nodes})

\* An attempt exists in one place only: whatever is parked, lost, reconnected or
\* sent again, no attempt is started twice, and the live one is nowhere but on
\* the node its row names.
OneHome ==
    \A t \in Tasks : \A a \in 1..issued[t] :
        /\ Cardinality(Places(t, a)) <= 1
        /\ rows[t].state \in R!InFlight /\ rows[t].attempt = a =>
              \A place \in Places(t, a) : place[2] = rows[t].node

\* A task on a node that is offline or gone, which the tick will not look at
\* again: only the lease is left to recover it.
Stranded(n) ==
    /\ ~Online(n) /\ R!Load(n) # {}
    /\ \A i \in DOMAIN loop : ~(loop[i].op = "lost" /\ loop[i].node = n)

\* No handler strands a task: whoever marks a node offline requeues its tasks
\* before another handler can run.  Only a server that dies between the two
\* commits does (the roster is saved first).
NoStranding == [][\A n \in Nodes : Stranded(n)' => Stranded(n) \/ ServerRestart]_vars

Live(n, c) == link[n][c].served /\ link[n][c].peer = "open"

\* A live agent is in the connection map from when its socket is accepted, and stays
\* there: the end of an old socket does not remove its successor, in whatever order
\* the two are noticed.  Only an older socket accepted later takes its place.
LatestLink ==
    [][\A n \in Nodes, c \in Links :
          Live(n, c)' /\ (Live(n, c) => conns[n] = c) =>
              conns'[n] = c \/ \E d \in 1..(c - 1) : Accepted(n, d)]_vars

Working(n) == {j \in jobs[n] : j.phase # "leaving"}

\* An agent with one slot works at one task at a time, even when reassigned the task
\* it is still running or reconnected in the middle of it: a second job at most
\* sends its report yet.  Only a job whose entry was removed by an earlier one, of the
\* same task, does not keep others out.
OneAtATime ==
    \A n \in Nodes : Slots[n] = 1 =>
        Cardinality({j \in Working(n) : ~j.robbed}) <= 1

\* Every step of the server is a step of the task table as Router specifies it:
\* the callers use it only through its operations.
TableKept == R!Init /\ [][table' # table => R!Next]_table

(***************************************************************************)
(* What the code says of itself and does not keep                          *)
(***************************************************************************)
\* "A node takes up to model.parallel_slots concurrent tasks" (router.py): the
\* jobs an agent runs fit its slots.  They do not when a node with several
\* slots is declared lost and given a task it is still running: the new job
\* replaces the old one's entry in "running", and whichever ends first removes
\* it, so the agent and the server both count one job where there are two.
SlotsRespected == \A n \in Nodes : Cardinality(Working(n)) <= Slots[n]
=============================================================================
