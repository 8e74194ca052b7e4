------------------------------ MODULE ToolLoop ------------------------------
(***************************************************************************)
(* What an agent does with the attempts it was given: the rounds of        *)
(* node/executor.py, the tool calls that node/agent.py relays over its     *)
(* websocket to scheduler/tool_executor.py, the cancel event all           *)
(* generations of a runtime share (node/model_runtime.py), and the notes   *)
(* about a live workspace that moved.                                      *)
(*                                                                         *)
(* A job sends on the socket of the session that started it, but the       *)
(* server answers on the newest socket of the node: after a reconnection   *)
(* the two differ.  Job j's i-th call of round r is <<j, r, i>>.           *)
(***************************************************************************)
EXTENDS Naturals, Sequences, FiniteSets

CONSTANTS
    Jobs,        \* attempts the agent is given
    Kinds,       \* kinds of requests: "agentic" (request.tools), "text" (a TOOLS
                 \* block in the prompt), "plain"
    NoCall,      \* a socket's handler that is executing no call
    Paths,       \* files of the live workspace
    MaxRounds,   \* AGENTIC_MAX_ROUNDS, and MAX_STEPS + 1
    FanOut,      \* calls[:4]: calls of one round that are executed
    MaxSocks,    \* bound: sockets the agent ever opens
    MaxPatches   \* bound: patches of the live workspace

ASSUME ToolAssumption == {MaxRounds, FanOut, MaxSocks} \subseteq Nat \ {0}

VARIABLES
    job,        \* job[j]: the running coroutine of attempt j
    log,        \* log[j]: answers on j's transcript, <<call, what came back>>
    cut,        \* jobs whose output a cancelled generation shortened
    cancel,     \* BaseRuntime._cancel
    waiters,    \* _tool_waiters: wire ids with the call that waits under each
    sock,       \* number of the agent's newest socket
    alive,      \* the newest socket works
    conn,       \* conns.get(node): the server's socket for the node, or 0
    up, down,   \* up[s], down[s]: messages on their way over socket s
    serving,    \* serving[s]: call the server's handler of s is executing
    executed,   \* history: calls whose effect has taken place
    ended,      \* attempts whose RESULT the server has handled
    revoked,    \* attempts a REVOKE was sent for
    blamed,     \* history: jobs in whose current generation a REVOKE was handled
    patches,    \* seq of the live workspace at the server
    moved,      \* workspace_seq and workspace_paths of the agent
    touched,    \* history: touched[j]: paths invalidated while j ran
    told        \* told[j]: paths of the drift note on j's transcript (seen)

wire     == <<sock, alive, conn, up, down, serving, executed, ended, revoked>>
drift    == <<patches, moved, touched, told>>
toolVars == <<job, log, cut, cancel, waiters, wire, blamed, drift>>

Socks   == 1..MaxSocks
NoJob   == [at |-> "off", kind |-> "plain", sock |-> 0, round |-> 0, left |-> <<>>,
            repaired |-> FALSE, base |-> 0]
Running == {j \in Jobs : job[j].at \notin {"off", "over"}}
At(j)   == job[j].at

Call(j, i)  == <<j, job[j].round, i>>
Msg(kind, j, call) == [kind |-> kind, job |-> j, call |-> call]

\* The job's own socket can still be sent on.
CanSend(j) == alive /\ job[j].sock = sock

ToolInit ==
    /\ job = [j \in Jobs |-> NoJob]
    /\ log = [j \in Jobs |-> <<>>]
    /\ cut = {} /\ blamed = {}
    /\ cancel = FALSE
    /\ waiters = {}
    /\ sock = 1 /\ alive = TRUE /\ conn = 1
    /\ up = [s \in Socks |-> <<>>] /\ down = [s \in Socks |-> <<>>]
    /\ serving = [s \in Socks |-> NoCall]
    /\ executed = {} /\ ended = {} /\ revoked = {}
    /\ patches = 0 /\ moved = [seq |-> 0, paths |-> {}]
    /\ touched = [j \in Jobs |-> {}] /\ told = [j \in Jobs |-> {}]

-----------------------------------------------------------------------------
(***************************************************************************)
(* Ends of a job.                                                          *)
(***************************************************************************)
\* Mutant: the report goes out on whatever socket is the newest.
Over_NewestSocket(j) ==
    /\ job' = [job EXCEPT ![j] = [NoJob EXCEPT !.at = "over"]]
    /\ waiters' = {w \in waiters : w.call[1] # j}
    /\ up' = IF alive THEN [up EXCEPT ![sock] = Append(@, Msg("result", j, NoCall))] ELSE up

\* The finally clause of _execute: the report goes out on the job's own socket,
\* or, if that is gone, not at all; a waiter goes with its call.
Over(j) ==
    /\ job' = [job EXCEPT ![j] = [NoJob EXCEPT !.at = "over"]]
    /\ waiters' = {w \in waiters : w.call[1] # j}
    /\ up' = IF CanSend(j) THEN [up EXCEPT ![sock] = Append(@, Msg("result", j, NoCall))] ELSE up

\* A job that noted a drift and ends without an exception removes the paths it
\* was told from the agent's list.
Consumed(j) == moved' = [moved EXCEPT !.paths = @ \ told[j]]

-----------------------------------------------------------------------------
(***************************************************************************)
(* Rounds.  Every generation starts by clearing the shared cancel event;   *)
(* a round of the text loop asks for the drift first.                      *)
(***************************************************************************)
\* Mutant: infer_stream and infer_tools leave the event as they find it.
Generates_Uncleared(j) == blamed' = blamed \ {j} /\ UNCHANGED cancel

Generates(j) == cancel' = FALSE /\ blamed' = blamed \ {j}

\* _drift: once per job, and only what is newer than the task's snapshot.
Drifts(j) == job'[j].kind = "text" /\ told[j] = {} /\ moved.seq > job'[j].base

Noted(j) == told' = IF Drifts(j) THEN [told EXCEPT ![j] = moved.paths] ELSE told

\* Round r of job j begins.
Begins(j, r) == job' = [job EXCEPT ![j].at = "generating", ![j].round = r, ![j].left = <<>>]

\* An ASSIGN arrives on the open session; the snapshot the task was built from
\* is some earlier or the present one.
Start(j, k, base) ==
    /\ At(j) = "off" /\ alive
    /\ job' = [job EXCEPT ![j] = [NoJob EXCEPT !.at = "generating", !.kind = k, !.sock = sock,
                                               !.round = 1, !.base = base]]
    /\ Generates(j)
    /\ Noted(j)
    /\ UNCHANGED <<log, cut, waiters, wire, patches, moved, touched>>

\* The backend fails, a progress message cannot be sent, or a call of the text
\* loop lacks an argument: the exception ends the job.
Fails(j) ==
    /\ At(j) = "generating"
    /\ Over(j)
    /\ UNCHANGED <<log, cut, cancel, sock, alive, conn, down, serving, executed, ended, revoked, blamed, drift>>

\* One stream of a text or plain job is over, in full, or shortened because the
\* event was set; its output was sent as progress.
Streamed(j) ==
    /\ At(j) = "generating" /\ job[j].kind # "agentic"
    /\ CanSend(j)
    /\ cut' \in {cut} \cup {cut \cup {x} : x \in {y \in {j} : cancel}}

\* The output holds calls, which the sandbox answers one way or the other, or
\* a line that cannot be parsed: another round.
TextAgain(j) ==
    /\ Streamed(j) /\ job[j].kind = "text"
    /\ job[j].round < MaxRounds
    /\ Begins(j, job[j].round + 1)
    /\ Generates(j)
    /\ Noted(j)
    /\ UNCHANGED <<log, waiters, wire, patches, moved, touched>>

\* No call, "done", or the last round.
TextEnds(j) ==
    /\ Streamed(j)
    /\ Over(j)
    /\ Consumed(j)
    /\ UNCHANGED <<log, cancel, sock, alive, conn, down, serving, executed, ended, revoked, blamed,
                   patches, touched, told>>

\* infer_tools returned no call but a narrative: the model is told once to call
\* the tool, which costs a round.
Repair(j) ==
    /\ At(j) = "generating" /\ job[j].kind = "agentic"
    /\ CanSend(j)
    /\ ~job[j].repaired /\ job[j].round < MaxRounds
    /\ job' = [job EXCEPT ![j].repaired = TRUE, ![j].round = @ + 1]
    /\ Generates(j)
    /\ UNCHANGED <<log, cut, waiters, wire, drift>>

\* infer_tools returned the answer, or a narrative in the last round.
Concludes(j) ==
    /\ At(j) = "generating" /\ job[j].kind = "agentic"
    /\ Over(j)
    /\ UNCHANGED <<log, cut, cancel, sock, alive, conn, down, serving, executed, ended, revoked, blamed, drift>>

\* infer_tools returned n calls; only the first FanOut are made.
Wants(j, n) ==
    /\ At(j) = "generating" /\ job[j].kind = "agentic"
    /\ CanSend(j)
    /\ job' = [job EXCEPT ![j].at = "calling",
                          ![j].left = [i \in 1..(IF n < FanOut THEN n ELSE FanOut) |-> Call(j, i)]]
    /\ UNCHANGED <<log, cut, cancel, waiters, wire, blamed, drift>>

-----------------------------------------------------------------------------
(***************************************************************************)
(* The relay.                                                              *)
(***************************************************************************)
\* Mutant: the id on the wire is the one the model gave the call.
WireId_Model(call) == <<call[2], call[3]>>

\* A fresh uuid for every call.
WireId(call) == call

\* call_tool registers its waiter and sends the call.  On a socket that is gone
\* the error becomes the answer, but the progress message after it raises.
Ask(j) ==
    LET call == Head(job[j].left)
    IN  /\ At(j) = "calling"
        /\ \/ /\ CanSend(j)
              /\ job' = [job EXCEPT ![j].at = "waiting"]
              /\ waiters' = {w \in waiters : w.id # WireId(call)} \cup {[id |-> WireId(call), call |-> call]}
              /\ up' = [up EXCEPT ![sock] = Append(@, Msg("call", j, call))]
           \/ /\ ~CanSend(j)
              /\ Over(j)
        /\ UNCHANGED <<log, cut, cancel, sock, alive, conn, down, serving, executed, ended, revoked,
                       blamed, drift>>

\* The answer `got` goes on the transcript and is announced as progress, which
\* raises on a dead socket; then the next call, the next round, or the end of
\* the loop, whose last content is returned.
Answered(j, got) ==
    LET rest == Tail(job[j].left)
    IN  /\ log' = [log EXCEPT ![j] = Append(@, [call |-> Head(job[j].left), got |-> got])]
        /\ \/ /\ CanSend(j) /\ rest # <<>>
              /\ job' = [job EXCEPT ![j].at = "calling", ![j].left = rest]
              /\ waiters' = {w \in waiters : w.call # Head(job[j].left)}
              /\ UNCHANGED <<up, cancel, blamed>>
           \/ /\ CanSend(j) /\ rest = <<>> /\ job[j].round < MaxRounds
              /\ Begins(j, job[j].round + 1)
              /\ waiters' = {w \in waiters : w.call # Head(job[j].left)}
              /\ Generates(j)
              /\ UNCHANGED up
           \/ /\ (CanSend(j) /\ rest = <<>> /\ job[j].round = MaxRounds) \/ ~CanSend(j)
              /\ Over(j)
              /\ UNCHANGED <<cancel, blamed>>
        /\ UNCHANGED cut

\* Mutant: the answer is awaited without a limit.
Timeout_None(j) ==
    /\ FALSE
    /\ Answered(j, NoCall)
    /\ UNCHANGED <<sock, alive, conn, down, serving, executed, ended, revoked, drift>>

\* wait_for gives up after 120 seconds; the call may be executed all the same.
Timeout(j) ==
    /\ At(j) = "waiting"
    /\ Answered(j, NoCall)
    /\ UNCHANGED <<sock, alive, conn, down, serving, executed, ended, revoked, drift>>

\* The session loop reads a TOOL_RESULT: whoever waits under its id gets it.
ReadAnswer ==
    /\ alive /\ down[sock] # <<>> /\ Head(down[sock]).kind = "answer"
    /\ down' = [down EXCEPT ![sock] = Tail(@)]
    /\ LET m == Head(down[sock])
           waiting == {w \in waiters : w.id = WireId(m.call)}
       IN  \/ /\ waiting = {}
              /\ UNCHANGED <<job, log, cut, cancel, waiters, up, blamed>>
           \/ \E w \in waiting : Answered(w.call[1], m.call)
    /\ UNCHANGED <<sock, alive, conn, serving, executed, ended, revoked, drift>>

\* A REVOKE sets the shared event and cancels the job, which goes through the
\* finally clause.  One for a job that is over changes nothing.
ReadRevoke ==
    /\ alive /\ down[sock] # <<>> /\ Head(down[sock]).kind = "revoke"
    /\ down' = [down EXCEPT ![sock] = Tail(@)]
    /\ LET j == Head(down[sock]).job
       IN  \/ /\ j \in Running
              /\ cancel' = TRUE
              /\ blamed' = Running
              /\ Over(j)
           \/ /\ j \notin Running
              /\ UNCHANGED <<cancel, blamed, job, waiters, up>>
    /\ UNCHANGED <<log, cut, sock, alive, conn, serving, executed, ended, revoked, drift>>

\* A WS_INVALIDATE overwrites what the last one said.
ReadInvalidate ==
    /\ alive /\ down[sock] # <<>> /\ Head(down[sock]).kind = "invalidate"
    /\ down' = [down EXCEPT ![sock] = Tail(@)]
    /\ LET m == Head(down[sock])
       IN  /\ moved' = [seq |-> m.call[1], paths |-> {m.call[2]}]
           /\ touched' = [j \in Jobs |-> IF j \in Running /\ m.call[1] > job[j].base
                                         THEN touched[j] \cup {m.call[2]} ELSE touched[j]]
    /\ UNCHANGED <<job, log, cut, cancel, waiters, sock, alive, conn, up, serving, executed, ended,
                   revoked, blamed, patches, told>>

-----------------------------------------------------------------------------
(***************************************************************************)
(* The sockets and the server.                                             *)
(***************************************************************************)
\* The newest socket breaks: everything on its way down is lost, and any suffix
\* of what is on its way up.
Break ==
    /\ alive
    /\ alive' = FALSE
    /\ down' = [down EXCEPT ![sock] = <<>>]
    /\ \E k \in 0..Len(up[sock]) : up' = [up EXCEPT ![sock] = SubSeq(@, 1, k)]
    /\ UNCHANGED <<job, log, cut, cancel, waiters, sock, conn, serving, executed, ended, revoked,
                   blamed, drift>>

Reconnect ==
    /\ ~alive /\ sock < MaxSocks
    /\ sock' = sock + 1 /\ alive' = TRUE /\ conn' = sock + 1
    /\ UNCHANGED <<job, log, cut, cancel, waiters, up, down, serving, executed, ended, revoked,
                   blamed, drift>>

\* The server's handler of a broken socket has read what was left.
HangUp ==
    /\ ~alive /\ conn = sock
    /\ up[sock] = <<>> /\ serving[sock] = NoCall
    /\ conn' = 0
    /\ UNCHANGED <<job, log, cut, cancel, waiters, sock, alive, up, down, serving, executed, ended,
                   revoked, blamed, drift>>

\* The handler of socket s takes its next message when it is done with the one
\* before: a TOOL_CALL is executed, whatever became of its attempt.
Execute(s) ==
    /\ serving[s] = NoCall /\ up[s] # <<>> /\ Head(up[s]).kind = "call"
    /\ up' = [up EXCEPT ![s] = Tail(@)]
    /\ serving' = [serving EXCEPT ![s] = Head(up[s]).call]
    /\ executed' = executed \cup {Head(up[s]).call}
    /\ UNCHANGED <<job, log, cut, cancel, waiters, sock, alive, conn, down, ended, revoked, blamed, drift>>

Delivers(m) == IF conn = sock /\ alive THEN down' = [down EXCEPT ![sock] = Append(@, m)]
               ELSE UNCHANGED down

\* The answer goes to the socket that is the node's by then.
Reply(s) ==
    /\ serving[s] # NoCall
    /\ serving' = [serving EXCEPT ![s] = NoCall]
    /\ Delivers(Msg("answer", serving[s][1], serving[s]))
    /\ UNCHANGED <<job, log, cut, cancel, waiters, sock, alive, conn, up, executed, ended, revoked,
                   blamed, drift>>

HandleResult(s) ==
    /\ serving[s] = NoCall /\ up[s] # <<>> /\ Head(up[s]).kind = "result"
    /\ up' = [up EXCEPT ![s] = Tail(@)]
    /\ ended' = ended \cup {Head(up[s]).job}
    /\ UNCHANGED <<job, log, cut, cancel, waiters, sock, alive, conn, down, serving, executed,
                   revoked, blamed, drift>>

\* A cancelled task, a lost race: at most one REVOKE per attempt.
SendRevoke(j) ==
    /\ At(j) # "off" /\ j \notin ended \cup revoked
    /\ revoked' = revoked \cup {j}
    /\ Delivers(Msg("revoke", j, NoCall))
    /\ UNCHANGED <<job, log, cut, cancel, waiters, sock, alive, conn, up, serving, executed, ended,
                   blamed, drift>>

\* Somebody patches path p; every connected agent is told the new seq and p.
Patch(p) ==
    /\ patches < MaxPatches
    /\ patches' = patches + 1
    /\ Delivers(Msg("invalidate", NoCall, <<patches + 1, p>>))
    /\ UNCHANGED <<job, log, cut, cancel, waiters, sock, alive, conn, up, serving, executed, ended,
                   revoked, blamed, moved, touched, told>>

JobStep(j) ==
    \/ Fails(j) \/ TextAgain(j) \/ TextEnds(j) \/ Repair(j) \/ Concludes(j)
    \/ \E n \in 1..(FanOut + 1) : Wants(j, n)
    \/ Ask(j)

ToolNext ==
    \/ \E j \in Jobs, k \in Kinds, base \in 0..patches : Start(j, k, base)
    \/ \E j \in Jobs : JobStep(j) \/ Timeout(j) \/ SendRevoke(j)
    \/ ReadAnswer \/ ReadRevoke \/ ReadInvalidate
    \/ Break \/ Reconnect \/ HangUp
    \/ \E s \in Socks : Execute(s) \/ Reply(s) \/ HandleResult(s)
    \/ \E p \in Paths : Patch(p)

\* Backends are read with a time limit, and a call is awaited for two minutes;
\* nothing is assumed of the server or the network.
ToolFairness == WF_toolVars(\E j \in Jobs : JobStep(j) \/ Timeout(j))

ToolSpec == ToolInit /\ [][ToolNext]_toolVars /\ ToolFairness

-----------------------------------------------------------------------------
\* What a job's model reads as the answer to a call is that call's result, or
\* that there was none, whatever other jobs asked meanwhile, however late
\* answers come and over whichever socket (agent.py:149-176).
OwnAnswer == \A j \in Jobs : \A i \in 1..Len(log[j]) : log[j][i].got \in {log[j][i].call, NoCall}

\* The server executes no call of an attempt whose report it has handled, and
\* none twice, although a call that timed out is not taken back and a broken
\* socket is read to its end beside the new one.
EffectsInTime ==
    [][\A s \in Socks : serving[s] = NoCall /\ serving'[s] # NoCall =>
          serving'[s] \notin executed /\ serving'[s][1] \notin ended]_toolVars

\* An output is shortened only by a REVOKE handled while it was generated: the
\* event that revoked one generation does not reach those begun later
\* (model_runtime.py:203, 225).
CutByRevoke == [][\A j \in cut' \ cut : j \in blamed]_toolVars

\* Every job comes to its end even if the server never answers.
JobsEnd == \A j \in Jobs : At(j) # "off" ~> At(j) = "over"

\* At the start of a round the model has been told of every file that was
\* invalidated since the task's snapshot (executor.py:158-161).
DriftTold ==
    [][\A j \in Jobs : job[j].kind = "text" /\ job'[j].round > job[j].round =>
          touched[j] \subseteq told'[j]]_toolVars
=============================================================================
