# Verification of clique

Clique spreads LLM work over the machines of a group: an asyncio server (FastAPI, one process, one event loop, SQLite for the durable tables) keeps a
task queue, a roster of nodes and the sessions of its users; agents on other machines connect over a websocket, receive assignments and report
results. This directory holds TLA+ models of that code, TLC configurations that check them on small instances, and proofs for the TLA+ proof system.
Line numbers refer to the files under `src/`.

## The system

| Component | State | Operations | Correct when |
|---|---|---|---|
| Task router `scheduler/router.py` | `tasks` table (state, node, attempt, lease, attempt count, key, sequence, result), `_seq` in memory | submit, schedule_pending, mark_running, on_result, on_node_lost, expire_leases, cancel, delete, clear | one live attempt per task, outcome of the last attempt only, budget and slots and cap kept, queue order, everything settles |
| Server event loop `scheduler/server.py`, `scheduler/api/rest.py` | handlers suspended in a send, `progress`, `race_groups`, `tokens`, `_compacting` | REST handlers, one handler per agent message, `_schedule_now`, tick | interleaved handlers never start an attempt twice or on another node, never strand a task |
| Registry `scheduler/registry.py` | `nodes` table | register, on_heartbeat, set_status, mark_offline_stale, remove, delete | ready set true enough that assignments reach a live node |
| Agent connections `server.py:222-240` | node id to socket | add, remove, get | never forgets the live socket |
| Agent `node/agent.py` | `running`, jobs, socket | session loop, execute, heartbeat, stop, kill | no more jobs than slots |
| Code edits and races `server.py:983-1143`, `rest.py:455-484` | code-repo (git), `race_groups` | verify, settle race, collect | accepted means verified and committed; one winner |
| Ledger `scheduler/ledger.py` | `ledger` table | record | true to the task table, complete |
| Sessions `scheduler/sessions.py`, context store `context_store.py` | sessions table, per-session turn log with versions | append with optimistic version, pin, migrate, close, compile, compaction plan | no turn lost or folded twice; a closed session stays closed |
| Live workspaces `scheduler/workspace.py` | files with version and history, seq, dirty flag, git repo | patch with rebase, snapshot, flush | versions count patches; every patch reaches a commit |
| Broadcaster and watchers `scheduler/api/ws.py`, `rest.py:345-393` | bounded queue per subscriber | publish, task websocket, SSE | a watcher learns that its task ended |
| Suggestions `scheduler/suggestions.py` | overload times, active suggestions, cooldowns | analyze, dismiss, clear | a suggestion does not outlive its overload |
| State repository `scheduler/vcs.py` | working tree, index and commits of state-repo | init, snapshot, history, diff, rollback | the newest commit is the state that was exported last |
| Executor and tools `node/executor.py`, `node/tools.py`, `scheduler/tool_executor.py` | turn loop, tool waiters | generate, call tool, relay | each call answered once |
| Stream splitter `common/think.py` | buffer, mode | feed, flush | same split however the text is cut |
| Client `client/sdk.py`, `client/daemon.py`, the CLI and TUIs, MCP server | token, pid files | request with re-login, start, stop | one daemon per name |

Agents register over HTTP and get a token, then open `/ws/agent`. Up go HEARTBEAT, PROGRESS, RESULT, TOOL_CALL and LEAVE; down go ASSIGN, REVOKE,
TOOL_RESULT, WS_INVALIDATE and SHUTDOWN. Every message handler that can free a node ends with `_schedule_now`, which runs one pass of the router and
sends one ASSIGN per assignment. A tick every heartbeat interval marks silent nodes offline, requeues their tasks, reaps rows, expires leases and
schedules. Components share the server's memory and one SQLite file; each `commit()` is one durable step.

**What is hard.** Handlers are atomic only up to a suspension point. `EventBroadcaster.publish` contains no `await`, so publishing never suspends;
sending on, accepting and closing a websocket do. A pass therefore stores a batch of assignments and sends them while other handlers change the same
rows. Agents reconnect before the server notices that they were gone, go on running jobs the server has requeued, and report attempts that are long
over. Node loss, lapsed leases, failures and retries spend one budget. One handler makes several commits (task row, code-repo, ledger), and the
process may die between them; `race_groups`, `tokens`, `progress` and `_seq` are memory only. One flag, one event or one dict serves several jobs of
an agent; clients keep tokens and pids in files that other processes of theirs change; subscribers lag behind queues that drop. `PROJECT.json` lists
these hazards one by one, each at its line, with the properties that cover it or what is still missing.

## The modules

**`TaskLifecycle`** — the promise to a client, with no nodes, leases, queue or keys: a task is tried by one attempt after another, at most
`MaxAttempts`, and settled at most once; it succeeds only through the attempt that is current then, and fails only when the budget is spent.

**`Router`** — the task table. `rows[t]` is the row of task `t`, `seq` is `_seq`, `minted` the ids handed out so far, `issued[t]` the number of
attempt ids ever made for `t` (a history variable: the code draws random ids, the model numbers them). One action per public method. A lease is
`none`, `running` or `lapsed`, and `LeaseLapses` is the clock. `SchedulePending(Ready)` is one whole pass: `IsGreedy` says which assignments the loop
over the queue can produce from a ready set, without following its iterations; the placement score is a free choice among the eligible nodes with a
free slot, and eligibility (cluster prefix, pressure limits) is the constant `Eligible`. After a restart `seq` is 0 while the rows keep their numbers,
so equal numbers occur and `QueueOrders` allows every order of equals, as the SQL does.

**`Dispatch`** — the callers of the table: the roster, connection map and tokens; websockets as two queues each; the agent's `running` dict and jobs;
requests of clients and operators. The handler of a socket looks up the token, and is suspended in the `accept` before it enters the socket into the
connection map, so tokens and sockets change in between (`AgentConnect`, `Accepted`, `AcceptFails`). `loop` is the list of steps the running handler
has left; a handler starts only when it is empty; after a send the rest may move to `parked` and other handlers run first (`GoOn`, `Resume`). The
router is an `INSTANCE`, its actions are conjuncts. A broken socket loses what was sent down and any suffix of what was sent up; a crash clears the
agent; a server restart clears `token`, `conns`, `loop` and `parked` and keeps the tables. A kicked or dead socket may swallow a send or raise. Two
details matter: asyncio never runs the body of a task cancelled before it starts, so a REVOKE that early leaves the job's entry in `running`; and a
job cancelled later removes its entry, passes through the `finally` clause, and reports SUCCEEDED. Every report suspends its job, which then removes
the entry of its task (`JobLeaves`), its own or by then another job's, which is `robbed` of it. What a result has left to do (`Wrapup`) may include
the request for a summary, which submits a task and schedules.

**`Recovery`** — `Dispatch` under the fairness of the code, for what the parts achieve together. The agents of the nodes in `Steady` crash, drop and
are late, but come back, connect while their row is fresh, heartbeat, and end their jobs; of the others nothing is assumed. Leases lapse by
themselves, and a scheduling pass gets the nodes that the roster says are ready, no others.

**`CodeEdit`** — the RESULT handler of a code task in stages (verify and commit, `on_result`, ledger, race settlement), with a death of the process
possible between any two and inside the first, and the life of a race (submissions one by one, group registered last, settled, collected, deleted).
`Outputs` is what models answer, `Flaw` the stage of the harness that rejects an output (extraction, path policy, seeding, applying, tests).
Publishing adds and overwrites files and removes none, so a task's directory is the set of the patches whose files are all there: `Keeps[o]` are those
that survive the publication of `o`. A patch whose files the head commit has makes an empty commit, which fails. `tree` and `repo` are what is in a
task's directory and in its head commit, `dirs` the workspaces on disk. Node loss and lapsed leases come from `Router` at any time. A settlement may
be suspended in the send of a REVOKE, so two can overlap.

**`Sessions`** — the sessions table, the turn logs and the code of the server that appends to them. A turn is its kind and its size in tokens;
`compile` is modelled by what it keeps (`SummaryTokens`, `FloorTokens`, `Kept`, `Overflow`), a summary by the plan it was ordered with. `plan.folds`
and `plan.at` are history: the versions the summary's text is made from, and the length of the log when it was planned. Tasks go through the states of
`TaskLifecycle`, and only those of their steps that meet a session are told apart. No code between `on_result` and the last append of a RESULT handler
suspends, so reports are atomic; the pass pins a session only when it gets to send the assignment, which can be much later (`sends`). The append
itself, which reads the newest version and inserts the next, is one transaction.

**`LiveWorkspace`** — one workspace id and the Workspace objects it has had. A line is named for the patch that wrote it and its place in what that
patch inserted, so no two are alike and each can be followed through edits; `past` is all that authors may have read (path, version, text), and the
next patch may be based on any of it. Patches and flushes are atomic: neither has a suspension point, so the workspace's lock is never contended. What
interleaves is their order, the debounced and immediate flush tasks (which hold an object, not an id, and outlive both a creation over the id and a
cleared workspace), their cancellation (handled later than requested), `_ops_since_flush` (keyed by id), failures of the disk midway and of the
commit, and restarts. A creation over the id that is refused at one of its files has written those before it (`CreateRefused`). An insertion of no
text changes nothing and counts as one line in a rebase (`Counted`). Where one path lies below another (`Under`), a flush never gets past the second
(`Writable`). Operators apply any list of operations, as the code does; `Next` sends patches of one operation.

**`StreamSplitter`** — `split_think` and the incremental splitter as operators on sequences of characters. The tags are shortened to `<t` and `</t`,
which keeps what matters of them: they begin alike, have different lengths and cannot overlap. `Decided` and `Emitted` are the two halves of `feed`.

**`Watchers`** — one task as seen by those who watch it: the chat stream that submitted it, which reads the task table and `progress` together in
every round of its loop, and websockets of `/ws/tasks`, which read the task before they are accepted and subscribe after it. What a model does is its
text, sent as PROGRESS, and its output, sent with the RESULT. The two are the same when the model was asked once; with tools the text is headings of
the rounds, or outputs of several rounds, and the output ends in words nobody was sent, so `Succeed` takes any output that `Work` has for the text.
`attempts` holds what each attempt will generate and how much of it has been sent; attempts that are no longer current go on sending. Some ends are
announced on the task's topic (a result, a cancellation) and some are not (node loss, lapsed lease, deletion), as in the code.

**`Reader`** — the other end of one websocket of `Watchers`: `stream_ws` of the SDK. Every event is answered by a GET of its own, which sees the task
as it is then; a break, or the deadline (in Python a `TimeoutError` is an `OSError`), sends it to polling. The code after the `except`
(sdk.py:246-272) is reached by no path and is not modelled.

**`CoEditing`** — one websocket of `/ws/workspace/{id}`: the pump that sends what is in the subscriber's queue, the handler that answers past it, and
an editor that follows the protocol of the route's comment. A text is the number of its last patch.

**`ToolLoop`** — an agent with its jobs. A job is a coroutine with a program counter (`at`), the round it is in and the calls it has left; `waiters`,
`cancel` and `moved` are shared by all of them, as in the code. Calls go up the socket of the session that started the job, answers come down the
node's newest. The server executes a call in its socket's handler, one at a time.

**`Login`** — who holds the one token of a node: commands of the CLI with the cached token file, the agent with its own, the server's map. The agent
registers again when a connection failed, and gives up when that has gone on longer than `reconnect_giveup_s` (`since`, `PatienceEnds`, `Failed`).
**`Daemon`** — commands that start and stop a background process, in the steps between their file and process operations.
**`Suggestions`** — `analyze` as one look at a queue and a roster that change freely; times are ages in seconds.
**`StateRepo`** — the git repository that the state is exported to. A text is one of `Contents`, a commit the files it has; an operation that dies
leaves some files written, one perhaps cut off, or all of them staged. Files are committed from the index, which a rollback leaves alone where the
older commit has no such file.

**`RouterProofs`**, **`CodeEditProofs`**, **`DispatchProofs`**, **`ServicesProofs`** (of `ToolLoop`, `Login` and `Daemon`),
**`SessionsProofs`**, **`TextsProofs`** (of `StateRepo`, `CoEditing` and `LiveWorkspace`) and **`WatchersProofs`** (of `Watchers`, `StreamSplitter`
and `Reader`) — the proofs. **`SequenceFacts`** — what the last three need to know of numbers and sequences: induction, the least of some numbers, and
what flattening a sequence of sequences gives. **`MCRouter`, `MCDispatch`, `MCRecovery`, `MCCodeEdit`, `MCSessions`** — instances for TLC, and
**`MCToolLoop`, `MCReader`**, two small ones for a violated statement each. **`MCServices`**, **`MCTexts`** and **`MCResults`** put machines that
share no state side by side: a variable `part`, chosen at the start, says which of them moves, so one run checks them all without multiplying their
states.

## The runs

| Run | Checks | Bounds |
|---|---|---|
| `router_safety` | `TypeOK`, `Ownership`, `BudgetKept`, `SlotsKept`, `QueueBounded`, `Provenance`, `NoOvertaking`, and that the table implements `TaskLifecycle` (`KeepsPromise`) | 3 tasks, 3 keys, 2 nodes (one with two slots; one key only the other can serve), 2 attempts, cap 2 |
| `services` | `AdviceEnds` (Suggestions), `OwnAnswer`, `EffectsInTime`, `CutByRevoke`, `JobsEnd` (ToolLoop), `RefusedTwice`, `AgentReturns` (Login), `NoOrphan` (Daemon) | 2 machines, 2 clusters, 2 waiting; 2 jobs, 2 rounds, 2 executed calls a round, 2 sockets, 1 patch; 2 commands, 1 disconnection, failed attempt to connect, or restart; 2 callers, 3 pids |
| `dispatch` | `OneHome`, `LatestLink`, `OneAtATime`, `NoStranding`, and that all callers keep to the router's operations (`TableKept`) | two slices: 1 task with 2 attempts on 2 one-slot nodes; 2 tasks on 1 node with 2 sockets; 1 parked handler, 2 disturbances, of first attempts, the second a broken socket or a lapsed lease |
| `recovery` | `EventuallySettled` (Recovery) | 1 task, 2 attempts, 2 one-slot nodes of which one has a steady agent with 2 sockets, 1 parked handler, 1 disturbance of a first attempt beside lapsing leases |
| `dispatch_slots` | `SlotsRespected`, violated | 2 tasks, a two-slot node, 1 disturbance |
| `results` | `Tidy`, `AcceptedVerified`, `LedgerTruthful`, `EveryAcceptedRecorded`, `RaceClosed` (CodeEdit), `Remembered`, `PromptFits`, `AnsweredOnce`, `CoverageGrows` (Sessions) | race of 3 (of 2 when a verification dies), 2 attempts for one of them, 1 good output and 1 whose tests fail, and a second good one while the race has one member; 1 session, 4 tasks handed out in order, 1 node with room for 3 tokens, 6 turns, 1 assignment to send |
| `code_race_winner` | `OneWinner`, violated | race of 3, 1 attempt |
| `code_stale_commit` | `NoStaleCommit`, violated | 1 task, 2 attempts |
| `session_summary` | `SummaryCovers`, violated | the session of `results` with room for 4 tokens |
| `texts` | `StreamTrue`, `EndNotDropped` (Watchers), `ReaderTrue`, `ReaderTold` (Reader), `Recoverable`, `RebasedInPlace`, `EventuallySaved` (LiveWorkspace), `Converged` (CoEditing), `Audited` (StateRepo) | 2 attempts, texts of up to 7 characters, sniffing up to 5, 1 websocket with a queue of 2; 1 file, 3 patches in one life or 2 over two, a history of 2; an editor with a queue of 2, 2 messages on their way, 5 patches, 1 replacement; 3 exported files, 3 commits, 1 death, 1 failing exporter |
| `drift_told` | `DriftTold`, violated | 1 text job, 2 files, 2 patches |
| `reads_once` | `ReadsOnce`, violated | 1 task of one attempt, an answer of 3 characters |

Why these bounds are enough to be interesting: with three tasks and a cap of two the cap binds and is freed again; the two-slot node and the
restricted key make a pass skip a task and assign a later one; with two attempts a task is retried and then spends its budget, and a stale attempt
exists. In `Dispatch` two nodes let a requeued task run elsewhere while the first node still works on it, two sockets let an old handler outlive a
reconnection, and two disturbances (a late heartbeat, lapsed lease, broken socket, crash, leave, kick, cancel, delete, clear or restart each count as
one; `MaxFaults`) combine in every order, the second being a broken socket or a lapsed lease, which are what lets a job outlive its attempt.
`MaxLinks`, `MaxParked` and `MaxFaults` are bounds of the model, not of the code; an agent also sends a heartbeat only when its earlier messages have
been read, which keeps the queues short. `MCRecovery` keeps to what its one property can tell apart (`Quiet`): the other agent opens one socket, and
only the steady one heartbeats; the other may take the task and stay silent with its node down as busy, be reaped, kicked, or answer late, and two
attempts make one of them the steady node's. Three members are the fewest with which two settlements of a race can overlap with work left, and one
member with two attempts gives the race its retries and stale reports. In `Sessions` (`MaxTurns`, `MaxSends`) four tasks and six turns let a summary
be ordered, more turns arrive before it does, and a second one be ordered on top of it; a second session or node would only add independent copies,
since a plan depends on the window of one node. In `ToolLoop` (`MaxSocks`, `MaxPatches`) the run takes three slices (`Relay`, `Reconnects`,
`Streams`): two agentic jobs whose calls cross on one socket, one job whose socket breaks, so that calls and answers travel on different ones, and
streams under revocations and a moving workspace; `FanOut` 2 stands for the four calls of a round that are executed, and a model may want one more. In
`Suggestions` (`MaxWaiting`) window and cooldown are one second each, so that a look can fall before, on and after their end. In `Login`
(`MaxDropped`) one disconnection already makes the agent and two commands take turns at the token; in `Daemon` three pids are a process, its
replacement, and one more. In `CoEditing` (`Room`, `Buffered`, `MaxSeq`, `MaxReplaced`) the queue fills, drops and is overtaken while the editor has
only been told of part of it. In `StateRepo` (`MaxCommits`, `MaxFailing`, `MaxDeaths`) three commits are the baseline without the ledger, a later
state, and a rollback, with a death or a failing exporter anywhere; behaviours may end when the commits are used up. In `LiveWorkspace` (`MaxPatches`,
`MaxLives`) three patches give a file whose history holds patches that were themselves rebased, and has been cut; `RebasedInPlace` then tries every
patch that could arrive next, a fourth. In `Watchers` the first attempt has a reasoning text long enough for a tag to be cut at every place and for
part of the answer to be streamed before the end; a queue of two overflows with a third event, and a second attempt gives late events of the first.
Two lives let the flush tasks of an abandoned object write after its successor. Ids are symmetric wherever no property tells them apart; no liveness
run uses symmetry.

Deadlock is checked in all passing runs but `services`: there jobs and commands end, and a machine whose work is done stops. The violated runs of
`MCToolLoop` and `MCReader`, where the job or the reader ends, leave it unchecked too.

**What the properties mean.** `OneHome`: an attempt to be sent, on its way or running is in one place, and the live one on the node its row names,
whatever was parked, lost or sent again. `NoStranding`: no step leaves tasks on a node that is offline or gone with nobody due to requeue them.
`LatestLink`: an open socket is in the connection map from when it is accepted, until an older one is accepted later. `OneAtATime`: a one-slot agent
works at one job, not counting one that only sends its report or was robbed of its entry. `EventuallySettled`: a task that a steady agent could run is
settled, whatever the other agents do with it. `LedgerTruthful`: a ledger row says what the table says, and an accepted one names a commit that
exists. `EveryAcceptedRecorded`: only a crash can lose the ledger row of an accepted task. `RaceClosed`: whoever drops a race entry leaves no member
running. `Remembered`: every version a summary claims was folded into its text, or was the newest request when some summary was planned (see below).
`PromptFits`: summary, floor turns and older turns together stay within the node's window. `AnsweredOnce`: an answer in a log belongs to a succeeded
task, follows its request, and is there once. `CoverageGrows`: a summary that arrives never covers less than the one before, unless a restart forgot
one on its way. `Recoverable`: a workspace that is not dirty can be rebuilt from disk, whatever writes failed before, unless a refused creation or an
abandoned object wrote there. `RebasedInPlace`: in any reachable state, any insertion or one-line deletion based on any version that history still
reaches does what its author meant, if nobody has inserted nothing since. `EventuallySaved`: patches do not stay in memory only, unless one file lies
below another. `StreamTrue`: a chat stream has at any time emitted a beginning of what `split_think` makes of the whole output, and all of it at the
end, if that is the text that was sent (`AsSent`). `EndNotDropped`: the announced end of a task stays in the queue of a websocket that lags behind.
`ReaderTrue` and `ReaderTold`: a reader of a task yields its text and nothing else (`AsSent` again), and is told of its end although the websocket may
never say so. `Converged`: an editor that has nothing left to receive shows the workspace as it is. `Audited`: after a snapshot HEAD is the exported
state, after a rollback too. `Tidy`: a verification leaves no workspace and no uncommitted file behind. `OwnAnswer`, `EffectsInTime`, `CutByRevoke`,
`JobsEnd`: a job reads answers to its own calls only; the server executes no call twice and none of an attempt whose report it has handled; only a
REVOKE handled during a generation cuts it short; every job ends. `AdviceEnds`: advice does not outlive its cause. `RefusedTwice`: a command's second
attempt is refused only if somebody interfered. `AgentReturns`: commands take its token away and connections fail, but the agent gets back in, unless
they have failed for too long or it was told to stop. `NoOrphan`: commands one after another never lose a daemon. The comment above each property in
its module names the code it is about, and each property is broken by at least one mutant of the model (the `*_...` operators marked "Mutant"), a
small plausible bug of the code.

**What is violated.** Six statements of the repository do not hold:
- `SlotsRespected` ("a node takes up to model.parallel_slots concurrent tasks", router.py:205): the agent keys running jobs by task, so a task whose
  lease lapsed can be given back to the node that is still running it without being counted; a two-slot node then runs three jobs.
- `OneWinner` ("first harness-accepted patch wins; the server cancels siblings", rest.py:465): the race is registered after its members are already
  running, so an early winner, a 429 midway, or a restart leaves siblings alive.
- `NoStaleCommit` ("attempt reported after its lease expired; result must not commit", errors.py:39): the harness commits to code-repo before the
  router looks at the attempt.
- `SummaryCovers` ("Record a rolling summary covering [lo, hi] context_versions", sessions.py:104): the newest request is always kept verbatim, so it
  is not among the turns folded; when later turns overflow around it, the claimed range includes it all the same, and once the summary is in the log
  it is neither there nor in the prompt.
- `DriftTold` ("returning paths changed in the live workspace since the task snapshot", executor.py:141): a second WS_INVALIDATE before the next round
  overwrites the paths of the first, and the model is never told of them.
- `ReadsOnce` ("same yield contract as stream()", sdk.py:198): when the websocket breaks the reader polls from the beginning and yields again what it
  has already yielded; the code meant to skip it is unreachable.

**Fairness.** `EventuallySettled` is of tasks that some steady agent may run. It assumes that the server's event loop goes on with what it has begun
(weak fairness of `LoopStep`); that the tick comes round (strong fairness: `_tick_loop` sleeps an interval, catches every exception, and has to find
the loop idle); that suspended handlers resume, leases lapse, and steady agents connect, take assignments and end their jobs (strong fairness, again
because each waits for an idle loop; as one action, `Moves`, which assumes less than fairness of each); and that steady agents heartbeat and messages
are handled (`Talks`). Nothing is assumed of other agents, of clients or of restarts. A silent agent's one-slot node stays BUSY after the lease lapsed
(registry.py:177), so the task waits for another node: that is why some agent has to be steady. Nobody cancels, deletes or clears there, since a
REVOKE can leave a steady agent busy for ever (see below). `EventuallySaved` assumes that ticks go on reaching the flush and that it then succeeds
again and again (weak fairness of a `Tick` that leaves the workspace clean, which no disk that refuses every write and no path below another allows):
the flush is behind a gate of 30 seconds, `vcs.snapshot` and `gc_workspaces` (server.py:1217-1230), and is skipped when one of those raises; nothing
is assumed of the debounced flush. `AdviceEnds` assumes the tick's `analyze`, for the same reason. `JobsEnd` assumes that a job's own step or its
time-out happens: backends are read with a time limit and a call is awaited for 120 seconds; nothing is assumed of server or network. `AgentReturns`
assumes the agent's reconnect loop, whose backoff is at most 30 seconds, and nothing of its patience. `ReaderTold` assumes that the reader receives
what has arrived, gives up when its deadline has passed, and looks when it polls.

**Known limits of the code that no run states.** Where a property excuses a case, the code gets that case wrong or nothing promises better:
- Streams: texts that begin with an opening tag, and texts whose family is misjudged (`WellJudged`), leak part of a tag if looked at in the wrong
  moment (think.py:122, 152). A bare task websocket that is being accepted while its task ends, or whose task is deleted or fails with its node, is
  never told (ws.py:110). The chat stream of a deleted task never ends (rest.py:389).
- Tasks run with tools, watched as they run: the text sent is headings and the outputs of rounds, the output is the last content, some of which nobody
  was sent. Readers that go on by length from one to the other (the chat stream, `stream_ws`) show the headings and cut the answer (executor.py:76,
  184, 206, 271-305).
- Agents: a REVOKE that finds a job before its first step, or sending its report, leaves or removes an entry of `running` that it should not
  (agent.py:127, 207, 222): a one-slot agent is busy for ever, or takes a second task. An older socket accepted after a newer one takes its place in
  the connection map (server.py:472). An agent gives up after an hour without a connection (agent.py:97). A connected agent whose row was reaped is
  not used again (server.py:1203).
- Nodes: a one-slot node whose agent says nothing stays BUSY after its task's lease lapsed; if it is the only one that could run the task, the task
  waits (registry.py:177).
- Workspaces: a creation that is refused midway has overwritten files of the workspace that has the id (workspace.py:131). An insertion without text
  counts as a line, and what is rebased over it lands a line too far (workspace.py:276); a deletion of a negative count shifts lines as well. With
  files `a` and `a/b` no flush ever succeeds (workspace.py:353). A patch also based on an earlier life, or on history that was cut, is rebased as if
  it fitted. The comment of the route says that deltas "go direct over this socket" (workspace_routes.py:26); they go through the same drop-oldest
  queue as presence, and `Converged` holds because a client finds the gap. A workspace that replaces another under its id starts again at 1, and
  nobody tells the editors.
- Tools: calls beyond the fourth of a round are left unanswered on the transcript; calls of attempts that are no longer current are still executed; a
  drift note is given to whichever job reads first and cleared by whichever ends; a local shell command blocks the agent's event loop and with it the
  heartbeats.
- Sessions: pinning, binding or migrating a closed session opens it again (sessions.py:32). A summary that never arrives leaves its session marked as
  being compacted for ever (server.py:817).
- Suggestions: a cluster that nobody hosts any more keeps its mark and its advice; `clique_self_assess` calls `analyze` and so takes the announcement
  of new advice from the tick.
- Logins and daemons: a command can end with a 401 when another interferes between its two attempts (sdk.py:41 says it never sees one); overlapping or
  interrupted starts leave a daemon that no file names.
- Code-repo: what a dead handler left uncommitted is taken in by the next commit, which then need not change anything of its own; `run_tests` blocks
  the event loop.
- State repository: a process that dies between writing the files and the commit leaves a state that no snapshot commits until something changes again
  (vcs.py:67, 80). No file is registered with an importer, so a rollback rewrites files and history but not the state, and the next snapshot puts the
  state back over it.

These, and the hazards of `PROJECT.json` without a property, are the places to look at first.

## The proofs

The theorems hold for every value of the constants that the assumption of their module allows: finite sets of tasks and nodes where something is
counted, positive limits, sentinels outside their sets, sizes in `Nat`. TLC evaluates each assumption in a run. `PROJECT.json` lists the theorems with
the property each one states. An invariant is seldom inductive as it stands; what had to be added is named below.

**`RouterProofs`**
- `TypeCorrect`, `OwnershipHolds`, `BudgetHolds`, `KeysStayUnique`, `ProvenanceHolds`. That a recorded result belongs to the last attempt needs the
  in-flight attempt to be the last one issued, which needs an id not yet handed out to have no row and no attempts (`Minting`). `IInv` is their
  conjunction; `InitIInv` and `StepIInv` (one lemma per operation) give `InvariantIInv`. All requeueing operations rewrite rows in one shape, so they
  share `RewriteIInv`.
- `SlotsHold`. A pass can add several tasks to a node. The tasks it adds are ordered by the queue, each had fewer than `Slots[n]` ahead of it on that
  node (from `IsGreedy`), and distinct ranks below `m` mean at most `m` elements (`RankBound`).
- `QueueHolds`: only a submission makes the set of open tasks grow (`OpenGrowsBySubmit`), and it checks the cap.
- `QueueOrderHolds`: only a pass assigns (`OnlyScheduling`), and a greedy pass leaves no eligible older task behind.
- `PromiseKept`: initial states map to initial states and each step to a legal move of every task (`StepMoves`), so `Router` implements
  `TaskLifecycle`.

**`DispatchProofs`** — `TableIsRouters`: whatever handlers, sockets, agents and operators do, the table takes only steps of `Router`, so the theorems
above are theorems about the running server. The invariant `DispatchInv` is the router's `IInv` with `ServerTypes`, `LinkInv`, `OneSlotInv`,
`SweepInv` and `HomeInv`. The types are half of the argument: what handlers have left to do, and every message on a socket, names an attempt that was
issued, which nothing but the table hands out. `LatestLinkHolds` is about steps, and needs that an agent opens one socket after the other and has at
most one open, its newest (`LinkInv`). `OneAtATimeHolds` needs that a one-slot agent has at most one job that is at work and was not robbed, and an
entry of its attempt in `running`, and that no other job has one (`OneSlotInv`). `NoTaskStranded` needs that a tick requeues the tasks of the nodes it
found stale before it does anything that can be suspended (`SweepInv`). `OneHomeHolds` is the long one: an attempt is in a handler's list, parked, on
its way down, or a job, and `HomeInv` says that of its places there is one, on the node its row names if it is the live one; each handler moves it or
drops it.

**`CodeEditProofs`** — `TableImplementsRouter` is the refinement, with which `CodeInv` can use the router's `IInv`. `AcceptedIsVerified` needs that
the verdict a handler carries to the table is of an issued attempt and, if it is a success, backed by a commit (`VerdictInv`); `LedgerIsTruthful` that
a task in the ledger is settled for good (`LedgerSettled`); `RaceIsClosed` that every settlement, running or suspended in a send, has closed the
members it no longer lists (`SettlementInv`). `VerificationTidy` is inductive with the types, as publishing to equal directories leaves them equal
(`PublishedFacts`); `AcceptedIsRecorded` is about steps.

**`SessionsProofs`** — `SessionsInv` is the conjunction of `Types`, `TaskOf` (a task belongs to a session that was created), `Asked` (the request of a
running task is in its session's log), `AnsweredOnce`, `Marked` (unless a restart forgot the marks, a summary on its way is the only one of its
session and covers what the latest one does) and `AllTold` (what a plan claims, of a summary in a log or on its way, was folded or was the newest
request of a plan; the log has only grown since). `PromptsFit` is about `compile` itself, for any log and any budget above two tokens: sizes of sets
of turns add up, and `FloorTokens` and `Kept` choose by them. Trying the proof showed that with a budget of one or two tokens the prompt can be too
long, because summary and floor turns are cut to one token each and never to none; `PromptFits` leaves those budgets out and says so.

**`ServicesProofs`**
- Of the tool loop: `AnswersAreOwn`: whoever waits does so under its own id, for the first call its job has left (`OwnInv`). `CutsAreRevoked`: an
  event that is set reaches only generations it was set over (`CutInv`). `EffectsAreInTime`: no call is on its way twice or after it was executed,
  calls leave in order and on the socket of their job, and a report follows all of them there (`EffInv`), though sockets lose what they carry.
- `RefusedTwiceHolds`: what a command that was refused relies on until somebody else interferes (the file is gone, then the token it registered is
  live) is `LoginInv`.
- `NoOrphanHolds`: where a lone command may find the running process, place by place, is `DaemonInv`.

**`TextsProofs`**
- `AuditHolds`. `RepoInv` adds that what is in the working tree is in HEAD (`Committed`) and staged (`StagedToo`), but for what a death left behind: a
  file that was written and not committed, or one that no exporter would return, which the next snapshot rewrites.
- `EditorsConverge`. `EditInv` adds, for an editor of the present life: the newest delta is on its way, or seen, or the editor has asked or will when
  it reads the heads (`Coming`, `WillAsk`); an answer that is not the newest text has the newest delta behind it (`AnswersTrue`); nothing is newer
  than the workspace (`NotAhead`).
- `RecoverableHolds`. `Recoverable` is inductive with the shape of the objects, since it excuses writes of objects that are not current and creations
  that are refused (`stray`); a flush that the disk refuses leaves the object dirty.
- `RebaseHolds`, for any number of files, lines, patches and lives and any `HistoryCap`. It rests on what one operation, rebased or not, does to a
  text. `Tracks` says that a place of the text an author read is followed to where it belongs: every line then before it (at it, behind it) that is
  still there is before (at, behind) the place it is moved to. Each operation but an empty insertion keeps that (`TracksStep`), for the code's own
  clamping and its rule for insertions at the same place, because no line is there twice. `RebaseInv` therefore adds: the lines of all texts, read or
  current, are of patches that have happened, each once in its text; a history counts the versions one by one up to the file's; and what was read of
  the current life can be followed through the operations since, as far back as history reaches. What was read in an earlier life, or before what was
  cut, is refused and needs nothing.

**`WatchersProofs`**
- `EndStays`. The queue of a websocket has the announced end among its last `late + 1` events (`EndWithin`).
- `ReaderHolds`, for the safety part of `ReaderSpec`. `Follows`: the text a GET can return is what the attempt has sent or, once the task has ended,
  nothing, and what the reader has is a beginning of what was sent, of the length it remembers; if the output is that text, so is what a GET returns
  of it. `EndTold`: nobody, no queue and no inbox, speaks of the end before it is one, so a reader that is done is so for good. The proof failed on an
  attempt that reports a failure and sends text after it, which the model allowed and the agent does not do: `Fail` of `Watchers` now ends the
  attempt's text where it stands (executor.py and agent.py send the RESULT behind the last PROGRESS).

- `StreamHolds`, for any text, any `SniffChars` and any family. Two facts about the splitter carry it. `LookReasoning`: a beginning of a text that
  reasons closes if and only if it reaches the end of the text's first closing tag, and has its reasoning and the start of its answer where the text
  has them (`Closed`); a beginning that does not reach it shows less than the reasoning, because two characters, the most of a tag that can be there
  without being one, are held back. `LookPlain`: a beginning of a text without tags has none, so nothing is stripped. Both say that a look which
  begins from beginnings of what `split_think` makes of the whole (`Splits`), with two characters not shown (`HeldBack`), ends so, and if the task is
  done with the whole. `StreamInv` adds what a look finds: as long as the stream is open, `progress` is the text the attempt has sent, and when the
  task has succeeded its output is that text, which is what `AsSent` asks. Blanks are left out of the comparison of reasonings by `Solid`, which is a
  sum over the characters (`SolidCat`), as `split_think` strips more of them than the stream does.

**Only model-checked.** Liveness (`EventuallySettled`, `AdviceEnds`, `JobsEnd`, `AgentReturns`, `EventuallySaved`, `ReaderTold`) is out of the
prover's reach. Every safety property of the passing runs is proved. The prover has no induction theorem it can instantiate; where a proof needed an
induction all the same (sums and ranks over finite sets, folds and flattened sequences), it was done over sets: a nonempty set of naturals has a least
element, so the set of counterexamples is empty (`Least`, `Inductive`).

## Not modelled

Left out of parts that are modelled: of the router, the placement score (a free choice among the eligible nodes) and the statistics; of the registry,
display names and resource readings; of the sessions, `bind_cluster` (all nodes of the model are in one cluster), the watch flag and the collection of
old rows; of the workspaces, texts without a final newline; of the events, the firehose and the sessions' topic, whose loops are those of the task
websocket without its end; of the tools, what each does (one effect per call); of the runtimes, the HTTP streaming; of the SDK, the methods that are
one REST call each, the sticky chat session, and errors of the reader's GETs while the server restarts; of the state repository, `commit_paths`, which
is in `CodeEdit`. A node without a model is never given work and has no place in `Dispatch`; pids are not reused in `Daemon`.

Left out for good: the CLI, home screen, TUIs and dashboard (a user interface over the SDK), the MCP server and installer (stateless translation to
REST, and editor configuration files), discovery, resources, TLS, configuration, protocol constructors, scripts and deployment.

## Plan

1. `Router`, `TaskLifecycle`, `RouterProofs`, `Dispatch`, `CodeEdit` — modelled; `Router` proved.
2. `Sessions`, `LiveWorkspace`, `StreamSplitter`, `Watchers` — modelled.
3. `Suggestions`, `ToolLoop`, `Login`, `Daemon`, `Reader`, `CoEditing`, `StateRepo`, and deaths inside a verification in `CodeEdit` — modelled.
4. Proofs of the safety properties of the passing runs, all of them — done.
5. `Recovery`: the server, its agents and the clock together — modelled and model-checked.
6. If the model grows: the placement score's order, the sticky session of the SDK, and what revocations leave in an agent's `running` under the
   fairness of `Recovery`.
