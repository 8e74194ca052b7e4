------------------------------ MODULE Sessions ------------------------------
(***************************************************************************)
(* Conversations held by the server: the sessions of scheduler/sessions.py,*)
(* their turn logs in scheduler/context_store.py, and the code of          *)
(* scheduler/server.py that appends turns when a task is submitted and     *)
(* reported, and orders a summary ("compaction") of turns that no longer   *)
(* fit a prompt.                                                           *)
(*                                                                         *)
(* A turn is its kind and its size in tokens.  Tasks live as TaskLifecycle *)
(* says; only the steps that meet a session are told apart here.  Nothing  *)
(* between on_result and the last append of a RESULT handler suspends, so  *)
(* handlers are atomic; the sends of a scheduling pass suspend ("sends").  *)
(***************************************************************************)
EXTENDS Integers, Sequences, FiniteSets, FiniteSetsExt

CONSTANTS
    Ids,        \* session ids, never reused
    Jobs, NoJob,    \* tasks of sessions: requests, and summaries of their logs
    Hosts, NoHost,  \* nodes
    Sizes,      \* Sizes[kind]: what turns of a kind can measure, in tokens
    Window,     \* Window[n]: the context window of the model of n
    Reserve,    \* tokens kept for the answer, and SAFETY_TOKENS
    MaxTurns,   \* bound: turns of a log
    MaxSends    \* bound: assignments waiting to be sent

Kinds == {"user", "assistant", "summary"}

ASSUME SessionsAssumption ==
    /\ NoJob \notin Jobs /\ NoHost \notin Hosts
    /\ Sizes \in [Kinds -> SUBSET (Nat \ {0})]
    /\ Window \in [Hosts -> Nat] /\ Reserve \in Nat /\ MaxTurns \in Nat /\ MaxSends \in Nat

VARIABLES
    session,     \* session[s]: its row in the sessions table
    log,         \* log[s]: its context_turns, by version
    task,        \* task[t]: what the task table says of a session's tasks
    sends,       \* assignments of a pass still to be sent
    compacting,  \* _compacting
    forgot       \* a restart has forgotten a summary on its way (history)

sessionVars == <<session, log, task, sends, compacting, forgot>>

NoSession == [status |-> "new", pin |-> NoHost]
NoPlan    == [lo |-> 1, hi |-> 0, folds |-> {}, at |-> 0, cost |-> 0]
NewTask   == [status |-> "new", kind |-> "chat", of |-> NoJob, node |-> NoHost, plan |-> NoPlan]

There(s) == session[s].status \in {"active", "closed"}
Runs(t)  == task[t].status \in {"queued", "assigned"}

\* A task that ended: "succeeded", or "failed" for every other way, deletion too.
Ended(t, how)   == [task[t] EXCEPT !.status = how, !.node = NoHost, !.plan = NoPlan]
Settled(t, how) == [task EXCEPT ![t] = Ended(t, how)]

SessionInit ==
    /\ session = [s \in Ids |-> NoSession]
    /\ log = [s \in Ids |-> <<>>]
    /\ task = [t \in Jobs |-> NewTask]
    /\ sends = {}
    /\ compacting = {}
    /\ forgot = FALSE

-----------------------------------------------------------------------------
(***************************************************************************)
(* Compiling a log l into a prompt of at most b tokens                     *)
(***************************************************************************)
Capped(x, room) == Min({x, room})
AtLeastOne(x)   == Max({1, x})
Tokens(l, S)    == MapThenSumSet(LAMBDA v : l[v].size, S)

Budget(n) == AtLeastOne(Window[n] - Reserve)
SummaryBudget(b) == AtLeastOne((b * 15) \div 100)

Summaries(l) == {v \in DOMAIN l : l[v].kind = "summary"}
LatestSummary(l) == IF Summaries(l) = {} THEN 0 ELSE Max(Summaries(l))
CoveredThrough(l) == IF Summaries(l) = {} THEN 0 ELSE l[LatestSummary(l)].plan.hi

\* Turns past the summary; the newest of each kind are always in the prompt.
Live(l) == {v \in DOMAIN l : v > CoveredThrough(l)} \ Summaries(l)
Newest(l, kind) ==
    LET S == {v \in Live(l) : l[v].kind = kind} IN IF S = {} THEN {} ELSE {Max(S)}
FloorTurns(l) == Newest(l, "user") \cup Newest(l, "assistant")

SummaryTokens(l, b) ==
    IF Summaries(l) = {} THEN 0 ELSE Capped(l[LatestSummary(l)].size, SummaryBudget(b))

\* Mutant: the summary in front of the turns is not paid for.
VerbatimBudget_SummaryFree(l, b) == b

VerbatimBudget(l, b) ==
    IF Summaries(l) = {} THEN b ELSE AtLeastOne(b - SummaryTokens(l, b))

\* _fit_floor: the tokens the floor turns are left with.
FloorTokens(l, room) ==
    LET old == Min(FloorTurns(l))
        new == Max(FloorTurns(l))
        half == AtLeastOne(room \div 2)
    IN  IF FloorTurns(l) = {} THEN 0 ELSE
        CASE old = new -> Capped(l[new].size, room)
          [] old # new /\ l[old].size < room ->
                 l[old].size + Capped(l[new].size, room - l[old].size)
          [] OTHER -> Capped(l[old].size, half) + Capped(l[new].size, AtLeastOne(room - half))

\* Older turns are kept from the newest back, up to the first that does not fit.
Kept(l, b) ==
    LET older == Live(l) \ FloorTurns(l)
        left  == VerbatimBudget(l, b) - FloorTokens(l, VerbatimBudget(l, b))
    IN  {v \in older : \A x \in older : x >= v => Tokens(l, {w \in older : w >= x}) <= left}

Overflow(l, b) == (Live(l) \ FloorTurns(l)) \ Kept(l, b)

PromptTokens(l, b) ==
    SummaryTokens(l, b) + FloorTokens(l, VerbatimBudget(l, b))
        + Tokens(l, Kept(l, b))

\* Mutant: the summary claims everything up to the newest turn.
Plan_ClaimsAll(l, b) ==
    LET last == LatestSummary(l)
    IN  [lo |-> IF last = 0 THEN 1 ELSE l[last].plan.lo,
         hi |-> Len(l),
         folds |-> Overflow(l, b) \cup IF last = 0 THEN {} ELSE l[last].plan.folds,
         at |-> Len(l),
         cost |-> Tokens(l, Overflow(l, b))
                  + IF last = 0 THEN 0 ELSE l[last].size]

\* compaction_plan: the versions the summary will claim, those its text is made
\* from, directly or through the summary before, when it was planned, and what
\* its prompt measures.
Plan(l, b) ==
    LET last == LatestSummary(l)
    IN  [lo |-> IF last = 0 THEN 1 ELSE l[last].plan.lo,
         hi |-> Max(Overflow(l, b)),
         folds |-> Overflow(l, b) \cup IF last = 0 THEN {} ELSE l[last].plan.folds,
         at |-> Len(l),
         cost |-> Tokens(l, Overflow(l, b))
                  + IF last = 0 THEN 0 ELSE l[last].size]

-----------------------------------------------------------------------------
(***************************************************************************)
(* Sessions                                                                *)
(***************************************************************************)
\* pin saves the row, if it changes it, and every save makes the session active.
Pinned(r, n) == IF r.pin = n THEN r ELSE [r EXCEPT !.pin = n, !.status = "active"]

Create(s) ==
    /\ session[s].status = "new"
    /\ session' = [session EXCEPT ![s].status = "active"]
    /\ UNCHANGED <<log, task, sends, compacting, forgot>>

Close(s) ==
    /\ There(s)
    /\ session' = [session EXCEPT ![s].status = "closed"]
    /\ UNCHANGED <<log, task, sends, compacting, forgot>>

\* The nodes of this model are in the session's cluster; the target must be online.
Migrate(s, n) ==
    /\ There(s)
    /\ session' = [session EXCEPT ![s] = [status |-> "active", pin |-> n]]
    /\ UNCHANGED <<log, task, sends, compacting, forgot>>

DeleteSession(s) ==
    /\ There(s)
    /\ session' = [session EXCEPT ![s] = [status |-> "gone", pin |-> NoHost]]
    /\ log' = [log EXCEPT ![s] = <<>>]
    /\ compacting' = compacting \ {s}
    /\ UNCHANGED <<task, sends, forgot>>

\* clear_sessions, and clear_data with the task table.
ClearSessions(everything) ==
    /\ session' = [s \in Ids |-> IF There(s) THEN [status |-> "gone", pin |-> NoHost] ELSE session[s]]
    /\ log' = [s \in Ids |-> <<>>]
    /\ compacting' = {}
    /\ task' = IF everything THEN [t \in Jobs |-> IF Runs(t) THEN Ended(t, "failed") ELSE task[t]]
               ELSE task
    /\ UNCHANGED <<sends, forgot>>

-----------------------------------------------------------------------------
(***************************************************************************)
(* Tasks of a session                                                      *)
(***************************************************************************)
Turn(kind, size, t) == [kind |-> kind, size |-> size, task |-> t]
Fits(s) == Len(log[s]) < MaxTurns

\* submit_task: the user's turn is in the log before the task is in the table.
\* Closed sessions take turns as well.
Submit(s, t, size) ==
    /\ There(s) /\ Fits(s)
    /\ task[t].status = "new"
    /\ log' = [log EXCEPT ![s] = Append(@, Turn("user", size, t))]
    /\ task' = [task EXCEPT ![t].status = "queued", ![t].of = s]
    /\ UNCHANGED <<session, sends, compacting, forgot>>

\* A full queue, or an idempotency key already known: a turn and no task.
SubmitTurnOnly(s, size) ==
    /\ There(s) /\ Fits(s)
    /\ log' = [log EXCEPT ![s] = Append(@, Turn("user", size, NoJob))]
    /\ UNCHANGED <<session, task, sends, compacting, forgot>>

\* A node is eligible if the prompt fits its window: a chat prompt is compiled
\* to, a summary's is whatever the plan put in.
Assign(t, n) ==
    /\ task[t].status = "queued"
    /\ Cardinality(sends) < MaxSends
    /\ task[t].kind = "summary" => task[t].plan.cost < Window[n]
    /\ task' = [task EXCEPT ![t].status = "assigned", ![t].node = n]
    /\ sends' = sends \cup {<<t, n>>}
    /\ UNCHANGED <<session, log, compacting, forgot>>

\* Before it sends, the pass pins the session, whatever has become of the task;
\* without a connection it requeues what the node has instead.
Send(t, n) ==
    /\ <<t, n>> \in sends
    /\ sends' = sends \ {<<t, n>>}
    /\ \/ /\ session' = IF There(task[t].of)
                        THEN [session EXCEPT ![task[t].of] = Pinned(@, n)] ELSE session
          /\ UNCHANGED task
       \/ /\ task' = [u \in Jobs |-> IF task[u].status = "assigned" /\ task[u].node = n
                                     THEN [task[u] EXCEPT !.status = "queued", !.node = NoHost]
                                     ELSE task[u]]
          /\ UNCHANGED session
    /\ UNCHANGED <<log, compacting, forgot>>

\* Lost nodes, lapsed leases and failures with budget left.
Requeue(t) ==
    /\ task[t].status = "assigned"
    /\ task' = [task EXCEPT ![t].status = "queued", ![t].node = NoHost]
    /\ UNCHANGED <<session, log, sends, compacting, forgot>>

\* Ended outside the RESULT handler: cancelled, deleted, or lost with its budget
\* spent.  None of these looks at _compacting.
EndUnreported(t) ==
    /\ Runs(t)
    /\ task' = Settled(t, "failed")
    /\ UNCHANGED <<session, log, sends, compacting, forgot>>

\* A result commits only for a task in flight.
InFlight(t) == task[t].status = "assigned"

\* Mutant: sessions being compacted are not remembered.
Compactable_Again(s, l, n) == Overflow(l, Budget(n)) # {}

Compactable(s, l, n) == s \notin compacting /\ Overflow(l, Budget(n)) # {}

\* Mutant: the router's verdict on the report is not asked.
ReportAnswer_Any(t, size) ==
    LET s == task[t].of
        l == Append(log[s], Turn("assistant", size, t))
    IN  /\ task[t].kind = "chat" /\ task[t].status \notin {"new", "queued"}
        /\ There(s) /\ Fits(s)
        /\ log' = [log EXCEPT ![s] = l]
        /\ task' = Settled(t, "succeeded")
        /\ UNCHANGED <<session, compacting, sends, forgot>>

\* The answer of a chat task is appended, the session pinned, and, if older
\* turns no longer fit that node's window, a summary of them is ordered unless
\* one is on its way.  A full queue drops the order.
ReportAnswer(t, size) ==
    LET s == task[t].of
        n == task[t].node
        l == Append(log[s], Turn("assistant", size, t))
    IN  /\ InFlight(t) /\ task[t].kind = "chat"
        /\ There(s) /\ Fits(s)
        /\ log' = [log EXCEPT ![s] = l]
        /\ session' = [session EXCEPT ![s] = Pinned(@, n)]
        /\ \/ /\ task' = Settled(t, "succeeded")
              /\ UNCHANGED compacting
           \/ /\ Compactable(s, l, n)
              /\ \E u \in Jobs :
                    /\ task[u].status = "new"
                    /\ task' = [Settled(t, "succeeded") EXCEPT ![u] =
                           [status |-> "queued", kind |-> "summary", of |-> s, node |-> NoHost,
                            plan |-> Plan(l, Budget(n))]]
              /\ compacting' = compacting \cup {s}
        /\ UNCHANGED <<sends, forgot>>

\* The text of a summary is appended with the versions its plan claimed, and the
\* session may be compacted again.
ReportSummary(t, size) ==
    LET s == task[t].of
    IN  /\ InFlight(t) /\ task[t].kind = "summary"
        /\ There(s) /\ Fits(s)
        /\ log' = [log EXCEPT ![s] =
               Append(@, [kind |-> "summary", size |-> size, task |-> t, plan |-> task[t].plan])]
        /\ task' = Settled(t, "succeeded")
        /\ compacting' = compacting \ {s}
        /\ UNCHANGED <<session, sends, forgot>>

\* Nothing to append: the session is gone (the KeyError then ends the agent's
\* connection), or the output is empty, which leaves the mark of a summary.
ReportNothing(t) ==
    /\ InFlight(t)
    /\ task' = Settled(t, "succeeded")
    /\ UNCHANGED <<session, log, sends, compacting, forgot>>

\* The last failure allowed; that of a summary clears its session's mark.
ReportFailure(t) ==
    /\ InFlight(t)
    /\ task' = Settled(t, "failed")
    /\ compacting' = IF task[t].kind = "summary" THEN compacting \ {task[t].of} ELSE compacting
    /\ UNCHANGED <<session, log, sends, forgot>>

\* Sessions, logs and tasks are in the database; marks and sends are not.
Restart ==
    /\ sends' = {}
    /\ compacting' = {}
    /\ forgot' = (forgot \/ \E t \in Jobs : Runs(t) /\ task[t].kind = "summary")
    /\ UNCHANGED <<session, log, task>>

SessionNext ==
    \/ \E s \in Ids :
          \/ Create(s) \/ Close(s) \/ DeleteSession(s)
          \/ \E n \in Hosts : Migrate(s, n)
          \/ \E size \in Sizes["user"] : SubmitTurnOnly(s, size) \/ \E t \in Jobs : Submit(s, t, size)
    \/ \E t \in Jobs :
          \/ \E n \in Hosts : Assign(t, n) \/ Send(t, n)
          \/ Requeue(t) \/ EndUnreported(t) \/ ReportNothing(t) \/ ReportFailure(t)
          \/ \E size \in Sizes["assistant"] : ReportAnswer(t, size)
          \/ \E size \in Sizes["summary"] : ReportSummary(t, size)
    \/ \E everything \in BOOLEAN : ClearSessions(everything)
    \/ Restart

SessionSpec == SessionInit /\ [][SessionNext]_sessionVars

-----------------------------------------------------------------------------
(***************************************************************************)
(* Safety                                                                  *)
(***************************************************************************)
\* No turn is forgotten: whatever a summary in the log claims was folded into its
\* text, directly or through earlier summaries, however many turns and summaries
\* arrived between its order and its arrival.  The one exception is a request
\* that was the newest one, and hence kept out of it, when some summary was
\* planned.
NewestRequest(l, at) ==
    LET S == {v \in DOMAIN l : v <= at /\ l[v].kind = "user"} IN IF S = {} THEN {} ELSE {Max(S)}

Remembered ==
    \A s \in Ids : \A m \in Summaries(log[s]) :
        LET plan == log[s][m].plan
        IN  \A v \in plan.lo..plan.hi :
                \/ v \in plan.folds \cup Summaries(log[s])
                \/ \E k \in Summaries(log[s]) : v \in NewestRequest(log[s], log[s][k].plan.at)

\* A compiled prompt fits the model it is compiled for, with summary, floor and
\* older turns together.  A budget of one or two tokens is left out: summary and
\* floor turns take one each, whatever there is.
PromptFits ==
    \A s \in Ids, n \in Hosts :
        Budget(n) > 2 => PromptTokens(log[s], Budget(n)) <= Budget(n)

\* Every answer in a log is that of a task the table has settled as succeeded,
\* comes after its request, and is there once, however
\* often the task was requeued, cancelled or reported.
AnsweredOnce ==
    \A s \in Ids : \A v \in DOMAIN log[s] :
        log[s][v].kind = "assistant" =>
            /\ task[log[s][v].task].status = "succeeded"
            /\ \E u \in 1..(v - 1) : log[s][u].kind = "user" /\ log[s][u].task = log[s][v].task
            /\ \A w \in DOMAIN log[s] :
                  log[s][w].kind = "assistant" /\ log[s][w].task = log[s][v].task => w = v

\* Summaries never go back: one that arrives covers at least what the latest one
\* does, since a session has one on its way at a time.  A restart forgets which
\* are on their way.
CoverageGrows ==
    [][~forgot =>
          \A s \in Ids : There(s)' => CoveredThrough(log'[s]) >= CoveredThrough(log[s])]_sessionVars

(***************************************************************************)
(* What the code says of itself and does not keep                          *)
(***************************************************************************)
\* "Record a rolling summary covering [lo, hi] context_versions."
\* (sessions.py, append_compaction): the text of a summary is made from every
\* turn it claims.  It is not when the newest request lies between turns that
\* overflow.
SummaryCovers ==
    \A s \in Ids : \A m \in Summaries(log[s]) :
        LET plan == log[s][m].plan
        IN  (plan.lo..plan.hi) \ Summaries(log[s]) \subseteq plan.folds
=============================================================================
