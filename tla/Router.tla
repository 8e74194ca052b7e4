------------------------------- MODULE Router -------------------------------
(***************************************************************************)
(* The task table of scheduler/router.py: submission with idempotency      *)
(* keys, assignment with attempt ids and leases, the first-commit-wins     *)
(* rule for results, requeueing with a retry budget, cancellation and      *)
(* deletion.                                                               *)
(*                                                                         *)
(* Every public method of class Router that writes the table is one        *)
(* action: the methods contain no await, so each runs to completion on the *)
(* event loop.  The callers are left free: a report may name any attempt   *)
(* ever issued, any node may be lost at any time, and the ready nodes the  *)
(* registry hands to schedule_pending are an arbitrary set.  Dispatch.tla  *)
(* puts the real callers around the table.                                 *)
(***************************************************************************)
EXTENDS Naturals, FiniteSets

CONSTANTS
    Tasks,        \* task ids that may be minted (uuid4, never reused)
    Keys,         \* idempotency keys clients submit under
    Nodes,        \* node ids
    NoNode,       \* SQL NULL in assigned_node
    NoKey,        \* the key of a task that has no row
    Slots,        \* Slots[n]: parallel_slots of the model n hosts
    Eligible,     \* Eligible[k]: nodes in the cluster the request names, with
                  \* a context window the prompt fits
    MaxAttempts,  \* max_attempts
    QueueCap      \* queue_cap

ASSUME RouterAssumption ==
    /\ NoNode \notin Nodes
    /\ NoKey \notin Keys
    /\ IsFiniteSet(Tasks)
    /\ Slots \in [Nodes -> Nat \ {0}]
    /\ Eligible \in [Keys -> SUBSET Nodes]
    /\ MaxAttempts \in Nat \ {0}
    /\ QueueCap \in Nat \ {0}

VARIABLES
    rows,     \* the tasks table: one record per task id, NoRow if missing
    seq,      \* Router._seq, the counter behind created_seq
    minted,   \* task ids handed out so far (uuid4 never repeats one)
    issued    \* issued[t]: attempt ids minted for t so far; they are 1..issued[t]

vars == <<rows, seq, minted, issued>>

InFlight == {"assigned", "running"}
Open     == {"queued"} \cup InFlight
Terminal == {"succeeded", "failed", "cancelled"}

NoAttempt == 0
NoResult  == [by |-> NoAttempt, outcome |-> "none"]

Result == [by : Nat, outcome : {"none", "succeeded", "failed"}]
Row == [state : {"absent"} \cup Open \cup Terminal,
        key : Keys \cup {NoKey},
        node : Nodes \cup {NoNode},
        attempt : Nat,
        attempts : Nat,
        lease : {"none", "current", "lapsed"},
        seq : Nat,
        result : Result]

NoRow == [state |-> "absent", key |-> NoKey, node |-> NoNode,
          attempt |-> NoAttempt, attempts |-> 0, lease |-> "none",
          seq |-> 0, result |-> NoResult]

Has(S)     == {t \in Tasks : rows[t].state \in S}
Present(t) == rows[t].state # "absent"
Load(n)    == {t \in Has(InFlight) : rows[t].node = n}

-----------------------------------------------------------------------------
Init ==
    /\ rows = [t \in Tasks |-> NoRow]
    /\ seq = 0
    /\ minted = {}
    /\ issued = [t \in Tasks |-> 0]

\* Mutant: the cap counts only queued rows, not those in flight.
Submit_QueuedOnly(t, k) ==
    /\ t \notin minted
    /\ \A u \in Tasks : rows[u].key # k
    /\ Cardinality(Has({"queued"})) < QueueCap
    /\ seq' = seq + 1
    /\ rows' = [rows EXCEPT ![t] = [NoRow EXCEPT !.state = "queued", !.key = k, !.seq = seq + 1]]
    /\ minted' = minted \cup {t}
    /\ UNCHANGED issued

\* A fresh key below the queue cap inserts a row.  A known key returns the id
\* of its row and a full queue raises OverflowError: neither touches the table.
Submit(t, k) ==
    /\ t \notin minted
    /\ \A u \in Tasks : rows[u].key # k
    /\ Cardinality(Has(Open)) < QueueCap
    /\ seq' = seq + 1
    /\ rows' = [rows EXCEPT ![t] = [NoRow EXCEPT !.state = "queued",
                                                 !.key = k,
                                                 !.seq = seq + 1]]
    /\ minted' = minted \cup {t}
    /\ UNCHANGED issued

\* Mutant: the queue is read without ORDER BY.
QueueOrders_Unsorted ==
    LET Q == Has({"queued"})
    IN  {ord \in [Q -> 1..Cardinality(Q)] : \A t, u \in Q : t # u => ord[t] # ord[u]}

\* The orders in which "ORDER BY created_seq" may return the queued rows: rows
\* with equal created_seq (possible after a restart) come in either order.
QueueOrders ==
    LET Q == Has({"queued"})
    IN  {ord \in [Q -> 1..Cardinality(Q)] :
            \A t, u \in Q : /\ t # u => ord[t] # ord[u]
                            /\ rows[t].seq < rows[u].seq => ord[t] < ord[u]}

\* Mutant: a node is dropped only by the load read before the loop.
FreeNodes_StaleLoad(ready, asg, ord, i) ==
    {n \in ready : Cardinality(Load(n)) < Slots[n]}

\* Nodes with a free slot when the loop reaches position i of the queue, the
\* tasks before i having been matched by asg.
FreeNodes(ready, asg, ord, i) ==
    {n \in ready :
        Cardinality(Load(n)) + Cardinality({u \in DOMAIN asg : asg[u] = n /\ ord[u] < i})
            < Slots[n]}

\* asg is an outcome of the matching loop: in queue order, each task takes one
\* of the free nodes it is eligible for (which one is the score's choice) and
\* is skipped only if there is none.
IsGreedy(asg, ready, ord) ==
    \A t \in Has({"queued"}) :
        LET candidates == FreeNodes(ready, asg, ord, ord[t]) \cap Eligible[rows[t].key]
        IN  IF t \in DOMAIN asg THEN asg[t] \in candidates ELSE candidates = {}

Assigned(t, n) == [rows[t] EXCEPT !.state = "assigned",
                                  !.node = n,
                                  !.attempt = issued[t] + 1,
                                  !.attempts = @ + 1,
                                  !.lease = "current"]

\* The table after the assignments asg.
Assign(asg) ==
    /\ rows' = [t \in Tasks |-> IF t \in DOMAIN asg THEN Assigned(t, asg[t]) ELSE rows[t]]
    /\ issued' = [t \in Tasks |-> IF t \in DOMAIN asg THEN issued[t] + 1 ELSE issued[t]]
    /\ UNCHANGED <<seq, minted>>

\* One pass of schedule_pending over the queue, ready being what the registry
\* reports as ready.
SchedulePending(ready) ==
    \E S \in (SUBSET Has({"queued"})) \ {{}} :
    \E asg \in [S -> ready], ord \in QueueOrders :
        /\ IsGreedy(asg, ready, ord)
        /\ Assign(asg)

\* A PROGRESS message moves its own attempt from assigned to running.
MarkRunning(t, a) ==
    /\ rows[t].state = "assigned"
    /\ rows[t].attempt = a
    /\ rows' = [rows EXCEPT ![t].state = "running"]
    /\ UNCHANGED <<seq, minted, issued>>

\* Mutant: requeueing leaves the old attempt id in the row.
Requeued_AttemptKept(row) == [row EXCEPT !.state = "queued", !.node = NoNode, !.lease = "none"]

Requeued(row) == [row EXCEPT !.state = "queued", !.node = NoNode,
                             !.attempt = NoAttempt, !.lease = "none"]

\* Mutants: the attempt id is not compared; a terminal row is not refused; the
\* budget is compared off by one.
Reportable_AnyAttempt(t, a) == rows[t].state \in Open
Reportable_Terminal(t, a) == rows[t].attempt = a
Retries_OneMore(t, outcome) == outcome = "failed" /\ rows[t].attempts <= MaxAttempts

\* on_result: a report of the current attempt of an open task either goes back
\* to the queue (a failure with budget left) or settles the task.  A report for
\* a missing or terminal row returns False, and one of another attempt raises
\* LeaseExpiredError, without a write.
Reportable(t, a) == rows[t].state \in Open /\ rows[t].attempt = a
Retries(t, outcome) == outcome = "failed" /\ rows[t].attempts < MaxAttempts

Retry(t, a, outcome) ==
    /\ Reportable(t, a)
    /\ Retries(t, outcome)
    /\ rows' = [rows EXCEPT ![t] = Requeued(@)]
    /\ UNCHANGED <<seq, minted, issued>>

Commit(t, a, outcome) ==
    /\ Reportable(t, a)
    /\ ~Retries(t, outcome)
    /\ rows' = [rows EXCEPT ![t].state = outcome,
                            ![t].result = [by |-> a, outcome |-> outcome]]
    /\ UNCHANGED <<seq, minted, issued>>

OnResult(t, a, outcome) == Retry(t, a, outcome) \/ Commit(t, a, outcome)

\* What on_node_lost leaves of an in-flight row.
AfterLoss(row) ==
    IF row.attempts >= MaxAttempts
    THEN [row EXCEPT !.state = "failed", !.result = [by |-> NoAttempt, outcome |-> "failed"]]
    ELSE Requeued(row)

LoseNodes(lost) ==
    /\ rows' = [t \in Tasks |-> IF rows[t].state \in InFlight /\ rows[t].node \in lost
                                THEN AfterLoss(rows[t]) ELSE rows[t]]
    /\ UNCHANGED <<seq, minted, issued>>

OnNodeLost(n) == Load(n) # {} /\ LoseNodes({n})

\* Mutant: only running tasks are looked at, not those assigned and never begun.
LapsedNodes_Running == {rows[t].node : t \in {u \in Has({"running"}) : rows[u].lease = "lapsed"}}

\* One lapsed lease condemns its node: every in-flight task of that node goes.
LapsedNodes == {rows[t].node : t \in {u \in Has(InFlight) : rows[u].lease = "lapsed"}}
ExpireLeases == LapsedNodes # {} /\ LoseNodes(LapsedNodes)

\* The clock passes lease_expires_at.
LeaseLapses(t) ==
    /\ rows[t].state \in InFlight
    /\ rows[t].lease = "current"
    /\ rows' = [rows EXCEPT ![t].lease = "lapsed"]
    /\ UNCHANGED <<seq, minted, issued>>

\* Mutant: the state is spelt in a way nothing else reads.
Cancel_Misspelt(t) ==
    /\ rows[t].state \in Open
    /\ rows' = [rows EXCEPT ![t].state = "canceled"]
    /\ UNCHANGED <<seq, minted, issued>>

Cancel(t) ==
    /\ rows[t].state \in Open
    /\ rows' = [rows EXCEPT ![t].state = "cancelled"]
    /\ UNCHANGED <<seq, minted, issued>>

Delete(t) ==
    /\ Present(t)
    /\ rows' = [rows EXCEPT ![t] = NoRow]
    /\ UNCHANGED <<seq, minted, issued>>

Clear ==
    /\ rows' = [t \in Tasks |-> NoRow]
    /\ seq' = 0
    /\ UNCHANGED <<minted, issued>>

\* A new Router on the old database: the table survives, _seq starts over.
Restart ==
    /\ seq' = 0
    /\ UNCHANGED <<rows, minted, issued>>

Next ==
    \/ \E t \in Tasks, k \in Keys : Submit(t, k)
    \/ \E ready \in SUBSET Nodes : SchedulePending(ready)
    \/ \E t \in Tasks : \E a \in 1..issued[t] : MarkRunning(t, a)
    \/ \E t \in Tasks : \E a \in 1..issued[t] :
          \E outcome \in {"succeeded", "failed"} : OnResult(t, a, outcome)
    \/ \E n \in Nodes : OnNodeLost(n)
    \/ ExpireLeases
    \/ \E t \in Tasks : LeaseLapses(t)
    \/ \E t \in Tasks : Cancel(t)
    \/ \E t \in Tasks : Delete(t)
    \/ Clear
    \/ Restart

Spec == Init /\ [][Next]_vars

-----------------------------------------------------------------------------
(***************************************************************************)
(* Safety                                                                  *)
(***************************************************************************)

\* Every variable keeps its type (the columns of the tasks table).
TypeOK ==
    /\ rows \in [Tasks -> Row]
    /\ seq \in Nat
    /\ minted \subseteq Tasks
    /\ issued \in [Tasks -> Nat]

\* A queued row carries nothing of an earlier attempt, and an in-flight row
\* names the node, the attempt and the lease that requeueing, expiry and
\* result checking go by: on_node_lost and on_result clear all three together.
Ownership ==
    \A t \in Tasks :
        /\ rows[t].state = "queued" =>
              rows[t].node = NoNode /\ rows[t].attempt = NoAttempt /\ rows[t].lease = "none"
        /\ rows[t].state \in InFlight =>
              /\ rows[t].node \in Nodes
              /\ rows[t].attempt = issued[t] /\ rows[t].attempt # NoAttempt
              /\ rows[t].lease # "none"

\* The retry budget counts every attempt issued, is never overdrawn, and a
\* queued task always has some of it left: assigning it cannot exceed the
\* budget, which is checked only when an attempt ends.
BudgetKept ==
    \A t \in Tasks :
        /\ Present(t) => rows[t].attempts = issued[t]
        /\ issued[t] <= MaxAttempts
        /\ rows[t].state = "queued" => rows[t].attempts < MaxAttempts

\* A node never holds more in-flight tasks than it has slots, whatever ready
\* set the registry reports and however many tasks one pass assigns.
SlotsKept == \A n \in Nodes : Cardinality(Load(n)) <= Slots[n]

\* Two rows never share an idempotency key (a resubmission finds the first).
KeysUnique ==
    \A t, u \in Tasks : Present(t) /\ Present(u) /\ rows[t].key = rows[u].key => t = u

\* Requeueing never grows the set of open tasks past the cap submit enforces.
QueueBounded == Cardinality(Has(Open)) <= QueueCap

\* A settled row says truthfully how it was settled: success carries the
\* result of the last attempt issued (no attempt is issued once one has
\* committed), failure needs the whole budget, cancellation keeps no result.
Provenance ==
    \A t \in Tasks :
        /\ rows[t].state = "succeeded" =>
              rows[t].result = [by |-> issued[t], outcome |-> "succeeded"] /\ issued[t] > 0
        /\ rows[t].state = "failed" =>
              /\ rows[t].result.outcome = "failed"
              /\ rows[t].result.by \in {NoAttempt, issued[t]}
              /\ rows[t].attempts = MaxAttempts
        /\ rows[t].state \in {"absent", "cancelled"} \cup Open => rows[t].result = NoResult

\* No overtaking: when a pass gives node n to a task while an older one stays
\* queued, the older one could not have run on n.
NoOvertaking ==
    [][\A t, u \in Tasks :
          /\ rows[t].state = "queued" /\ rows'[t].state = "queued"
          /\ rows[u].state = "queued" /\ rows'[u].state = "assigned"
          /\ rows[t].seq < rows[u].seq
          => rows'[u].node \notin Eligible[rows[t].key]]_vars

-----------------------------------------------------------------------------
(***************************************************************************)
(* The table implements the promise of TaskLifecycle.                      *)
(***************************************************************************)
Status(t) == IF t \notin minted THEN "new"
             ELSE IF ~Present(t) THEN "gone"
             ELSE IF rows[t].state \in Open THEN "open"
             ELSE rows[t].state

Promise == INSTANCE TaskLifecycle WITH
    status <- [t \in Tasks |-> Status(t)],
    tries  <- issued,
    live   <- [t \in Tasks |-> IF rows[t].state \in InFlight THEN rows[t].attempt ELSE 0]

\* Every step of the table is a legal move of every task: first result wins,
\* one live attempt at a time, failure only with the budget spent.
KeepsPromise == Promise!Spec

=============================================================================
