---------------------------- MODULE RouterProofs ----------------------------
(***************************************************************************)
(* Proofs about the task table, for every number of tasks, keys, nodes,    *)
(* slots and attempts.                                                     *)
(*                                                                         *)
(* The invariants of Router are not inductive one by one: that a result    *)
(* belongs to the last attempt issued needs the in-flight attempt to be    *)
(* the last one issued, which needs a fresh task to have none; hence IInv. *)
(***************************************************************************)
EXTENDS Router, FiniteSetTheorems, WellFoundedInduction, TLAPS

\* A task id that was never handed out has no row and no attempts, and a
\* missing row holds nothing.
Minting ==
    \A t \in Tasks :
        /\ t \notin minted => ~Present(t) /\ issued[t] = 0
        /\ ~Present(t) => rows[t] = NoRow

IInv == TypeOK /\ Minting /\ Ownership /\ BudgetKept /\ KeysUnique /\ Provenance

-----------------------------------------------------------------------------
\* The rows the operations write are rows.
LEMMA RowFacts ==
    /\ NoRow \in Row
    /\ \A row \in Row : Requeued(row) \in Row /\ AfterLoss(row) \in Row
    /\ \A k \in Keys, s \in Nat :
          [NoRow EXCEPT !.state = "queued", !.key = k, !.seq = s] \in Row
<1>1. NoRow \in Row
  BY DEF Row, NoRow, Result, NoResult, NoAttempt
<1>2. ASSUME NEW row \in Row
      PROVE  Requeued(row) \in Row /\ AfterLoss(row) \in Row
  <2>1. Requeued(row) \in Row
    BY DEF Row, Requeued, NoAttempt, Open
  <2>2. [by |-> NoAttempt, outcome |-> "failed"] \in Result
    BY DEF Result, NoAttempt
  <2>3. [row EXCEPT !.state = "failed", !.result = [by |-> NoAttempt, outcome |-> "failed"]] \in Row
    BY <2>2 DEF Row, Terminal
  <2> QED
    BY <2>1, <2>3 DEF AfterLoss
<1>3. ASSUME NEW k \in Keys, NEW s \in Nat
      PROVE  [NoRow EXCEPT !.state = "queued", !.key = k, !.seq = s] \in Row
  BY <1>1 DEF Row, Open
<1> QED
  BY <1>1, <1>2, <1>3

LEMMA InitIInv == Init => IInv
<1> SUFFICES ASSUME Init PROVE IInv
  OBVIOUS
<1>1. \A t \in Tasks : rows[t] = NoRow /\ issued[t] = 0
  BY DEF Init
<1>2. NoRow.state = "absent" /\ NoRow.result = NoResult
  BY DEF NoRow
<1>3. TypeOK
  BY RowFacts DEF Init, TypeOK
<1>4. Minting /\ Ownership /\ KeysUnique /\ Provenance
  BY <1>1, <1>2 DEF Minting, Ownership, KeysUnique, Provenance, Present, InFlight
<1>5. BudgetKept
  BY <1>1, <1>2, RouterAssumption DEF BudgetKept, Present
<1> QED
  BY <1>3, <1>4, <1>5 DEF IInv

LEMMA SubmitIInv ==
    ASSUME IInv, NEW t \in Tasks, NEW k \in Keys, Submit(t, k)
    PROVE  IInv'
<1> DEFINE new == [NoRow EXCEPT !.state = "queued", !.key = k, !.seq = seq + 1]
<1> USE DEF IInv
<1>0. seq + 1 \in Nat
  BY DEF TypeOK
<1>1. new \in Row
  BY RowFacts, <1>0
<1>2. /\ rows' = [rows EXCEPT ![t] = new]
      /\ issued' = issued
      /\ minted' = minted \cup {t}
      /\ seq' = seq + 1
      /\ t \notin minted
      /\ \A u \in Tasks : rows[u].key # k
  BY DEF Submit
<1>3. /\ new.state = "queued" /\ new.key = k /\ new.node = NoNode /\ new.attempt = NoAttempt
      /\ new.attempts = 0 /\ new.lease = "none" /\ new.result = NoResult
  BY DEF NoRow
<1> HIDE DEF new
<1>4. rows'[t] = new /\ \A u \in Tasks \ {t} : rows'[u] = rows[u]
  BY <1>2 DEF TypeOK
<1>5. TypeOK'
  BY <1>0, <1>1, <1>2 DEF TypeOK
<1>6. issued[t] = 0
  BY <1>2 DEF Minting
<1>7. Minting'
  BY <1>2, <1>3, <1>4 DEF Minting, Present
<1>8. Ownership'
  BY <1>2, <1>3, <1>4 DEF Ownership, InFlight
<1>9. BudgetKept'
  BY <1>2, <1>3, <1>4, <1>6, RouterAssumption DEF BudgetKept, Present
<1>10. KeysUnique'
  BY <1>2, <1>3, <1>4 DEF KeysUnique, Present
<1>11. Provenance'
  BY <1>2, <1>3, <1>4 DEF Provenance, Open, InFlight
<1> QED
  BY <1>5, <1>7, <1>8, <1>9, <1>10, <1>11

\* An assignment writes a fresh attempt into a queued row.
LEMMA AssignIInv ==
    ASSUME IInv, NEW S \in SUBSET Has({"queued"}), NEW asg \in [S -> Nodes], Assign(asg)
    PROVE  IInv'
<1> USE DEF IInv
<1>1. S \subseteq Tasks /\ DOMAIN asg = S /\ \A t \in S : rows[t].state = "queued" /\ asg[t] \in Nodes
  BY DEF Has
<1>2. \A t \in S : rows'[t] = Assigned(t, asg[t]) /\ issued'[t] = issued[t] + 1
  BY <1>1 DEF Assign
<1>3. \A t \in Tasks \ S : rows'[t] = rows[t] /\ issued'[t] = issued[t]
  BY <1>1 DEF Assign
<1>4. \A t \in S : /\ rows'[t].state = "assigned" /\ rows'[t].node = asg[t]
                   /\ rows'[t].attempt = issued[t] + 1
                   /\ rows'[t].attempts = rows[t].attempts + 1
                   /\ rows'[t].lease = "current"
                   /\ rows'[t].key = rows[t].key
                   /\ rows'[t].result = rows[t].result
                   /\ rows'[t] \in Row
  <2> SUFFICES ASSUME NEW t \in S
               PROVE  /\ rows'[t].state = "assigned" /\ rows'[t].node = asg[t]
                      /\ rows'[t].attempt = issued[t] + 1
                      /\ rows'[t].attempts = rows[t].attempts + 1
                      /\ rows'[t].lease = "current"
                      /\ rows'[t].key = rows[t].key
                      /\ rows'[t].result = rows[t].result
                      /\ rows'[t] \in Row
    OBVIOUS
  <2>1. rows[t] \in Row /\ issued[t] + 1 \in Nat
    BY <1>1 DEF TypeOK
  <2>2. rows'[t] = [rows[t] EXCEPT !.state = "assigned", !.node = asg[t],
                                   !.attempt = issued[t] + 1,
                                   !.attempts = @ + 1, !.lease = "current"]
    BY <1>2 DEF Assigned
  <2>3. rows'[t] \in Row
    <3>1. asg[t] \in Nodes \cup {NoNode} /\ "assigned" \in {"absent"} \cup Open \cup Terminal
      BY <1>1 DEF Open, InFlight
    <3>2. rows[t].attempts + 1 \in Nat
      BY <2>1 DEF Row
    <3>3. rows'[t] = [state |-> "assigned", key |-> rows[t].key, node |-> asg[t],
                      attempt |-> issued[t] + 1, attempts |-> rows[t].attempts + 1,
                      lease |-> "current", seq |-> rows[t].seq, result |-> rows[t].result]
      BY <2>1, <2>2 DEF Row
    <3> QED
      BY <2>1, <3>1, <3>2, <3>3 DEF Row
  <2> QED
    BY <2>1, <2>2, <2>3 DEF Row
<1>5. TypeOK'
  BY <1>1, <1>2, <1>3, <1>4 DEF TypeOK, Assign
<1>6. Minting'
  BY <1>1, <1>3, <1>4 DEF Minting, Present, Assign
<1>7. Ownership'
  BY <1>1, <1>2, <1>3, <1>4 DEF Ownership, InFlight, TypeOK, NoAttempt
<1>8. BudgetKept'
  BY <1>1, <1>2, <1>3, <1>4, RouterAssumption DEF BudgetKept, Present, TypeOK, Row
<1>9. KeysUnique'
  <2>1. \A t \in Tasks : (Present(t))' => Present(t) /\ rows'[t].key = rows[t].key
    BY <1>1, <1>3, <1>4 DEF Present
  <2> QED BY <2>1 DEF KeysUnique
<1>10. Provenance'
  <2>1. \A t \in S : rows'[t].state = "assigned" /\ rows'[t].result = NoResult
    BY <1>1, <1>4 DEF Provenance, Open
  <2> QED
    BY <2>1, <1>3 DEF Provenance
<1> QED
  BY <1>5, <1>6, <1>7, <1>8, <1>9, <1>10

\* A write that changes one row, leaves its key and attempts alone and issues
\* nothing keeps IInv if the new row is in order by itself.
RowInOrder(t, row) ==
    /\ row \in Row
    /\ row.key = rows[t].key /\ row.attempts = rows[t].attempts
    /\ row.state # "absent"
    /\ row.state = "queued" => /\ row.node = NoNode /\ row.attempt = NoAttempt
                               /\ row.lease = "none" /\ row.attempts < MaxAttempts
    /\ row.state \in InFlight => /\ row.node \in Nodes /\ row.attempt = issued[t]
                                 /\ row.attempt # NoAttempt /\ row.lease # "none"
    /\ row.state = "succeeded" =>
          row.result = [by |-> issued[t], outcome |-> "succeeded"] /\ issued[t] > 0
    /\ row.state = "failed" => /\ row.result.outcome = "failed"
                               /\ row.result.by \in {NoAttempt, issued[t]}
                               /\ row.attempts = MaxAttempts
    /\ row.state \in {"cancelled"} \cup Open => row.result = NoResult

LEMMA RewriteIInv ==
    ASSUME IInv, NEW S \in SUBSET Tasks, UNCHANGED <<seq, minted, issued>>,
           rows' = [t \in Tasks |-> IF t \in S THEN rows'[t] ELSE rows[t]],
           \A t \in S : Present(t) /\ RowInOrder(t, rows'[t])
    PROVE  IInv'
<1> USE DEF IInv
<1>1. \A t \in Tasks \ S : rows'[t] = rows[t]
  OBVIOUS
<1>2. TypeOK'
  BY DEF TypeOK, RowInOrder
<1>3. Minting'
  BY <1>1 DEF Minting, Present, RowInOrder
<1>4. Ownership'
  <2> SUFFICES ASSUME NEW t \in Tasks
               PROVE  /\ rows'[t].state = "queued" =>
                            /\ rows'[t].node = NoNode
                            /\ rows'[t].attempt = NoAttempt /\ rows'[t].lease = "none"
                      /\ rows'[t].state \in InFlight =>
                            /\ rows'[t].node \in Nodes
                            /\ rows'[t].attempt = issued[t] /\ rows'[t].attempt # NoAttempt
                            /\ rows'[t].lease # "none"
    BY DEF Ownership
  <2>1. CASE t \in S
    <3>1. RowInOrder(t, rows'[t])
      BY <2>1
    <3> QED
      BY <3>1, Zenon DEF RowInOrder
  <2>2. CASE t \notin S
    <3>1. rows'[t] = rows[t]
      BY <2>2, <1>1
    <3> QED
      BY <3>1, Zenon DEF Ownership
  <2> QED
    BY <2>1, <2>2
<1>5. BudgetKept'
  BY <1>1 DEF BudgetKept, Present, RowInOrder
<1>6. KeysUnique'
  <2>1. \A t \in Tasks : (Present(t))' => Present(t) /\ rows'[t].key = rows[t].key
    BY <1>1 DEF Present, RowInOrder
  <2> QED BY <2>1 DEF KeysUnique
<1>7. Provenance'
  BY <1>1 DEF Provenance, RowInOrder
<1> QED
  BY <1>2, <1>3, <1>4, <1>5, <1>6, <1>7

LEMMA MarkRunningIInv ==
    ASSUME IInv, NEW t \in Tasks, NEW a, MarkRunning(t, a)
    PROVE  IInv'
<1>1. /\ rows' = [rows EXCEPT ![t].state = "running"] /\ rows[t].state = "assigned"
      /\ UNCHANGED <<seq, minted, issued>>
  BY DEF MarkRunning
<1>2. rows[t] \in Row /\ rows \in [Tasks -> Row]
  BY DEF IInv, TypeOK
<1>3. rows'[t] = [rows[t] EXCEPT !.state = "running"] /\ \A u \in Tasks \ {t} : rows'[u] = rows[u]
  BY <1>1, <1>2
<1>4. RowInOrder(t, rows'[t])
  BY <1>1, <1>2, <1>3 DEF IInv, Ownership, Provenance, RowInOrder, Row, InFlight, Open
<1>5. rows' = [u \in Tasks |-> IF u \in {t} THEN rows'[u] ELSE rows[u]]
  BY <1>1, <1>2, <1>3
<1> QED
  BY <1>1, <1>4, <1>5, RewriteIInv DEF Present

\* A requeued row is in order while budget is left.
LEMMA RequeuedInOrder ==
    ASSUME IInv, NEW t \in Tasks, rows[t].state \in InFlight, rows[t].attempts < MaxAttempts
    PROVE  RowInOrder(t, Requeued(rows[t]))
<1>1. rows[t] \in Row /\ rows[t].result = NoResult
  BY DEF IInv, TypeOK, Provenance, Open
<1>2. Requeued(rows[t]) \in Row
  BY <1>1, RowFacts
<1> QED
  BY <1>1, <1>2 DEF RowInOrder, Requeued, Row, InFlight, Open

\* A report of the current attempt can only name an in-flight row: attempt ids
\* are never NoAttempt, which is what a queued row holds.
LEMMA ReportableInFlight ==
    ASSUME IInv, NEW t \in Tasks, NEW a \in 1..issued[t], Reportable(t, a)
    PROVE  rows[t].state \in InFlight /\ a = issued[t] /\ rows[t].attempts = issued[t]
  BY DEF IInv, TypeOK, Ownership, BudgetKept, Present, Reportable, Open, InFlight, NoAttempt

LEMMA RetryIInv ==
    ASSUME IInv, NEW t \in Tasks, NEW a \in 1..issued[t], NEW outcome, Retry(t, a, outcome)
    PROVE  IInv'
<1>1. /\ rows' = [rows EXCEPT ![t] = Requeued(rows[t])]
      /\ rows[t].attempts < MaxAttempts /\ Reportable(t, a)
      /\ UNCHANGED <<seq, minted, issued>>
  BY DEF Retry, Retries
<1>2. rows \in [Tasks -> Row]
  BY DEF IInv, TypeOK
<1>3. rows[t].state \in InFlight
  BY <1>1, ReportableInFlight
<1>4. rows'[t] = Requeued(rows[t])
  BY <1>1, <1>2
<1>5. rows' = [u \in Tasks |-> IF u \in {t} THEN rows'[u] ELSE rows[u]]
  BY <1>1, <1>2
<1>6. Present(t) /\ RowInOrder(t, rows'[t])
  BY <1>1, <1>3, <1>4, RequeuedInOrder DEF Present, InFlight
<1> QED
  BY <1>1, <1>5, <1>6, RewriteIInv

LEMMA CommitIInv ==
    ASSUME IInv, NEW t \in Tasks, NEW a \in 1..issued[t],
           NEW outcome \in {"succeeded", "failed"}, Commit(t, a, outcome)
    PROVE  IInv'
<1> DEFINE new == [rows[t] EXCEPT !.state = outcome,
                                  !.result = [by |-> a, outcome |-> outcome]]
<1>1. /\ rows \in [Tasks -> Row] /\ rows[t] \in Row /\ issued[t] \in Nat
      /\ issued[t] <= MaxAttempts /\ a \in Nat
  BY DEF IInv, TypeOK, BudgetKept
<1>2. rows' = [rows EXCEPT ![t] = new] /\ UNCHANGED <<seq, minted, issued>>
  BY <1>1 DEF Commit, Row
<1>3. rows[t].state \in InFlight /\ a = issued[t] /\ rows[t].attempts = issued[t]
  BY ReportableInFlight DEF Commit
<1>4. outcome = "failed" => issued[t] = MaxAttempts
  BY <1>1, <1>3, RouterAssumption DEF Commit, Retries
<1>5. rows'[t] = new
  BY <1>1, <1>2
<1>6. RowInOrder(t, new)
  <2>1. new \in Row
    BY <1>1 DEF Row, Result, Terminal
  <2> QED
    BY <2>1, <1>1, <1>3, <1>4 DEF RowInOrder, Row, InFlight, Open
<1>7. rows' = [u \in Tasks |-> IF u \in {t} THEN rows'[u] ELSE rows[u]]
  BY <1>1, <1>2
<1> QED
  BY <1>2, <1>3, <1>5, <1>6, <1>7, RewriteIInv DEF Present, InFlight

LEMMA LoseNodesIInv ==
    ASSUME IInv, NEW lost, LoseNodes(lost)
    PROVE  IInv'
<1> DEFINE S == {t \in Tasks : rows[t].state \in InFlight /\ rows[t].node \in lost}
<1>1. /\ rows' = [t \in Tasks |-> IF t \in S THEN AfterLoss(rows[t]) ELSE rows[t]]
      /\ UNCHANGED <<seq, minted, issued>>
  BY DEF LoseNodes
<1>2. rows' = [t \in Tasks |-> IF t \in S THEN rows'[t] ELSE rows[t]]
  BY <1>1
<1>3. ASSUME NEW t \in S
      PROVE  Present(t) /\ RowInOrder(t, rows'[t])
  <2>1. /\ rows[t] \in Row /\ rows[t].state \in InFlight /\ Present(t)
        /\ rows[t].attempts = issued[t] /\ issued[t] \in Nat /\ issued[t] <= MaxAttempts
        /\ MaxAttempts \in Nat /\ rows'[t] = AfterLoss(rows[t])
    BY <1>1, RouterAssumption DEF IInv, TypeOK, BudgetKept, Present, InFlight
  <2>2. AfterLoss(rows[t]) \in Row
    BY <2>1, RowFacts
  <2>3. CASE rows[t].attempts < MaxAttempts
    <3>1. rows'[t] = Requeued(rows[t])
      BY <2>1, <2>3 DEF AfterLoss
    <3> QED
      BY <3>1, <2>1, <2>3, RequeuedInOrder
  <2>4. CASE rows[t].attempts >= MaxAttempts
    <3>1. rows'[t] = [rows[t] EXCEPT !.state = "failed",
                                     !.result = [by |-> NoAttempt, outcome |-> "failed"]]
      BY <2>1, <2>4 DEF AfterLoss
    <3> QED
      BY <3>1, <2>1, <2>2, <2>4 DEF RowInOrder, Row, InFlight, Open, NoAttempt
  <2> QED
    BY <2>1, <2>3, <2>4
<1> QED
  BY <1>1, <1>2, <1>3, RewriteIInv

LEMMA LeaseLapsesIInv ==
    ASSUME IInv, NEW t \in Tasks, LeaseLapses(t)
    PROVE  IInv'
<1>1. /\ rows' = [rows EXCEPT ![t].lease = "lapsed"] /\ rows[t].state \in InFlight
      /\ UNCHANGED <<seq, minted, issued>>
  BY DEF LeaseLapses
<1>2. rows[t] \in Row /\ rows \in [Tasks -> Row]
  BY DEF IInv, TypeOK
<1>3. rows'[t] = [rows[t] EXCEPT !.lease = "lapsed"] /\ \A u \in Tasks \ {t} : rows'[u] = rows[u]
  BY <1>1, <1>2
<1>4. RowInOrder(t, rows'[t])
  BY <1>1, <1>2, <1>3 DEF IInv, Ownership, Provenance, RowInOrder, Row, InFlight, Open
<1>5. rows' = [u \in Tasks |-> IF u \in {t} THEN rows'[u] ELSE rows[u]]
  BY <1>1, <1>2, <1>3
<1> QED
  BY <1>1, <1>4, <1>5, RewriteIInv DEF Present, InFlight

LEMMA CancelIInv ==
    ASSUME IInv, NEW t \in Tasks, Cancel(t)
    PROVE  IInv'
<1>1. /\ rows' = [rows EXCEPT ![t].state = "cancelled"] /\ rows[t].state \in Open
      /\ UNCHANGED <<seq, minted, issued>>
  BY DEF Cancel
<1>2. rows[t] \in Row /\ rows \in [Tasks -> Row]
  BY DEF IInv, TypeOK
<1>3. rows'[t] = [rows[t] EXCEPT !.state = "cancelled"] /\ \A u \in Tasks \ {t} : rows'[u] = rows[u]
  BY <1>1, <1>2
<1>4. RowInOrder(t, rows'[t])
  <2>1. rows'[t] \in Row
    BY <1>2, <1>3 DEF Row, Terminal
  <2> QED
    BY <2>1, <1>1, <1>2, <1>3 DEF IInv, Provenance, RowInOrder, Row, InFlight, Open
<1>5. rows' = [u \in Tasks |-> IF u \in {t} THEN rows'[u] ELSE rows[u]]
  BY <1>1, <1>2, <1>3
<1> QED
  BY <1>1, <1>4, <1>5, RewriteIInv DEF Present, InFlight, Open

\* Removing rows (delete removes one, clear all of them).
LEMMA RemoveIInv ==
    ASSUME IInv, NEW S \in SUBSET Tasks, seq' \in Nat, UNCHANGED <<minted, issued>>,
           rows' = [t \in Tasks |-> IF t \in S THEN NoRow ELSE rows[t]]
    PROVE  IInv'
<1> USE DEF IInv
<1>1. /\ \A t \in S : rows'[t] = NoRow
      /\ \A t \in Tasks \ S : rows'[t] = rows[t]
  OBVIOUS
<1>2. NoRow.state = "absent" /\ NoRow.result = NoResult
  BY DEF NoRow
<1>3. TypeOK'
  BY RowFacts DEF TypeOK
<1>4. Minting'
  BY <1>1, <1>2 DEF Minting, Present
<1>5. Ownership'
  BY <1>1, <1>2 DEF Ownership, InFlight
<1>6. BudgetKept'
  BY <1>1, <1>2 DEF BudgetKept, Present
<1>7. KeysUnique'
  BY <1>1, <1>2 DEF KeysUnique, Present
<1>8. Provenance'
  BY <1>1, <1>2 DEF Provenance
<1> QED
  BY <1>3, <1>4, <1>5, <1>6, <1>7, <1>8

\* Every operation keeps the invariant.
LEMMA StepIInv == IInv /\ [Next]_vars => IInv'
<1> SUFFICES ASSUME IInv, [Next]_vars PROVE IInv'
  OBVIOUS
<1>1. ASSUME NEW t \in Tasks, NEW k \in Keys, Submit(t, k) PROVE IInv'
  BY <1>1, SubmitIInv
<1>2. ASSUME NEW ready \in SUBSET Nodes, SchedulePending(ready) PROVE IInv'
  <2>1. PICK S \in (SUBSET Has({"queued"})) \ {{}} : \E asg \in [S -> ready] : Assign(asg)
    BY <1>2 DEF SchedulePending
  <2>2. PICK asg \in [S -> ready] : Assign(asg)
    BY <2>1
  <2>3. asg \in [S -> Nodes]
    BY <1>2
  <2> QED
    BY <2>2, <2>3, AssignIInv
<1>3. ASSUME NEW t \in Tasks, NEW a \in 1..issued[t], MarkRunning(t, a) PROVE IInv'
  BY <1>3, MarkRunningIInv
<1>4. ASSUME NEW t \in Tasks, NEW a \in 1..issued[t], NEW outcome \in {"succeeded", "failed"},
             OnResult(t, a, outcome)
      PROVE  IInv'
  BY <1>4, RetryIInv, CommitIInv DEF OnResult
<1>5. ASSUME NEW n \in Nodes, OnNodeLost(n) PROVE IInv'
  BY <1>5, LoseNodesIInv DEF OnNodeLost
<1>6. CASE ExpireLeases
  BY <1>6, LoseNodesIInv DEF ExpireLeases
<1>7. ASSUME NEW t \in Tasks, LeaseLapses(t) PROVE IInv'
  BY <1>7, LeaseLapsesIInv
<1>8. ASSUME NEW t \in Tasks, Cancel(t) PROVE IInv'
  BY <1>8, CancelIInv
<1>9. ASSUME NEW t \in Tasks, Delete(t) PROVE IInv'
  <2>1. rows' = [u \in Tasks |-> IF u \in {t} THEN NoRow ELSE rows[u]]
    BY <1>9 DEF Delete, IInv, TypeOK
  <2>2. seq' \in Nat /\ UNCHANGED <<minted, issued>>
    BY <1>9 DEF Delete, IInv, TypeOK
  <2> QED
    BY <2>1, <2>2, RemoveIInv
<1>10. CASE Clear
  <2>1. rows' = [u \in Tasks |-> IF u \in Tasks THEN NoRow ELSE rows[u]]
    BY <1>10 DEF Clear
  <2>2. seq' \in Nat /\ UNCHANGED <<minted, issued>>
    BY <1>10 DEF Clear
  <2> QED
    BY <2>1, <2>2, RemoveIInv
<1>11. CASE Restart
  BY <1>11 DEF Restart, IInv, TypeOK, Minting, Ownership, BudgetKept, KeysUnique, Provenance,
       Present
<1>12. CASE UNCHANGED vars
  BY <1>12 DEF vars, IInv, TypeOK, Minting, Ownership, BudgetKept, KeysUnique, Provenance,
       Present
<1> QED
  BY <1>1, <1>2, <1>3, <1>4, <1>5, <1>6, <1>7, <1>8, <1>9, <1>10, <1>11, <1>12 DEF Next

-----------------------------------------------------------------------------
LEMMA InvariantIInv == Spec => []IInv
  BY InitIInv, StepIInv, PTL DEF Spec

\* The columns of the tasks table keep their types.
THEOREM TypeCorrect == Spec => []TypeOK
  BY InvariantIInv, PTL DEF IInv

\* Requeueing, expiry and result checking always find the node, attempt and
\* lease of an in-flight task, and nothing stale on a queued one.
THEOREM OwnershipHolds == Spec => []Ownership
  BY InvariantIInv, PTL DEF IInv

\* No sequence of failures, node losses, expiries and retries makes the router
\* issue more than MaxAttempts attempts of a task.
THEOREM BudgetHolds == Spec => []BudgetKept
  BY InvariantIInv, PTL DEF IInv

\* Idempotent submission: one row per key, whatever is deleted or requeued.
THEOREM KeysStayUnique == Spec => []KeysUnique
  BY InvariantIInv, PTL DEF IInv

\* A recorded outcome is that of the last attempt issued; failure is recorded
\* only with the budget spent.
THEOREM ProvenanceHolds == Spec => []Provenance
  BY InvariantIInv, PTL DEF IInv

-----------------------------------------------------------------------------
(***************************************************************************)
(* Slots and the queue cap count rows, so they need finite cardinalities.  *)
(***************************************************************************)

LEMMA FiniteRows ==
    ASSUME NEW A \in SUBSET Tasks
    PROVE  IsFiniteSet(A) /\ Cardinality(A) \in Nat
  BY FS_Subset, FS_CardinalityType, RouterAssumption

\* If every member of A has fewer than m members of A before it, A has at most
\* m members: ranks are distinct and below m.
LEMMA RankBound ==
    ASSUME NEW A \in SUBSET Tasks, NEW ord, NEW m \in Nat,
           \A u \in A : ord[u] \in Nat,
           \A u, v \in A : u # v => ord[u] # ord[v],
           \A u \in A : Cardinality({v \in A : ord[v] < ord[u]}) < m
    PROVE  Cardinality(A) <= m
<1> DEFINE before(u) == {v \in A : ord[v] < ord[u]}
           rank == [u \in A |-> Cardinality(before(u))]
<1>1. \A u \in A : IsFiniteSet(before(u)) /\ Cardinality(before(u)) \in Nat
  BY FiniteRows
<1>2. rank \in [A -> 0..(m - 1)]
  BY <1>1
<1>3. ASSUME NEW u \in A, NEW v \in A, ord[u] < ord[v]
      PROVE  rank[u] < rank[v]
  <2>1. u \in before(v) /\ u \notin before(u) /\ before(u) \subseteq before(v)
    BY <1>3
  <2>2. before(u) \in SUBSET before(v) /\ before(u) # before(v)
    BY <2>1
  <2> HIDE DEF before
  <2>3. Cardinality(before(u)) <= Cardinality(before(v))
    BY <2>2, <1>1, FS_Subset
  <2>4. Cardinality(before(u)) # Cardinality(before(v))
    BY <2>2, <1>1, FS_Subset
  <2> QED
    BY <2>3, <2>4, <1>1
<1>4. ASSUME NEW u \in A, NEW v \in A, rank[u] = rank[v]
      PROVE  u = v
  <2>1. ~(ord[u] < ord[v]) /\ ~(ord[v] < ord[u])
    <3> HIDE DEF rank
    <3>1. rank[u] \in Nat /\ rank[v] \in Nat
      BY <1>2
    <3> QED
      BY <1>3, <1>4, <3>1
  <2> QED
    BY <2>1
<1>5. rank \in Injection(A, 0..(m - 1))
  <2> HIDE DEF rank
  <2> QED
    BY <1>2, <1>4 DEF Injection, IsInjective
<1>6. IsFiniteSet(0..(m - 1)) /\ Cardinality(0..(m - 1)) = m
  BY FS_Interval
<1>7. Cardinality(A) <= Cardinality(0..(m - 1))
  BY <1>5, <1>6, FS_Injection
<1> QED
  BY <1>6, <1>7

\* Outside schedule_pending no task becomes in-flight, and none moves node.
LEMMA OnlyScheduling ==
    ASSUME IInv, [Next]_vars,
           ~ \E ready \in SUBSET Nodes : SchedulePending(ready)
    PROVE  \A t \in Tasks : rows'[t].state \in InFlight =>
              rows[t].state \in InFlight /\ rows'[t].node = rows[t].node
<1> USE DEF InFlight
<1> SUFFICES ASSUME NEW u \in Tasks, rows'[u].state \in InFlight
             PROVE  rows[u].state \in InFlight /\ rows'[u].node = rows[u].node
  OBVIOUS
<1>0. rows \in [Tasks -> Row]
  BY DEF IInv, TypeOK
<1>1. ASSUME NEW t \in Tasks, NEW k \in Keys, Submit(t, k)
      PROVE  rows[u].state \in InFlight /\ rows'[u].node = rows[u].node
  BY <1>0, <1>1 DEF Submit, NoRow
<1>2. ASSUME NEW t \in Tasks, NEW a \in 1..issued[t], MarkRunning(t, a)
      PROVE  rows[u].state \in InFlight /\ rows'[u].node = rows[u].node
  BY <1>0, <1>2 DEF MarkRunning, Row
<1>3. ASSUME NEW t \in Tasks, NEW a \in 1..issued[t], NEW outcome \in {"succeeded", "failed"},
             OnResult(t, a, outcome)
      PROVE  rows[u].state \in InFlight /\ rows'[u].node = rows[u].node
  BY <1>0, <1>3 DEF OnResult, Retry, Commit, Requeued, Row
<1>4. ASSUME NEW lost, LoseNodes(lost)
      PROVE  rows[u].state \in InFlight /\ rows'[u].node = rows[u].node
  BY <1>0, <1>4 DEF LoseNodes, AfterLoss, Requeued, Row
<1>5. ASSUME NEW t \in Tasks, LeaseLapses(t)
      PROVE  rows[u].state \in InFlight /\ rows'[u].node = rows[u].node
  BY <1>0, <1>5 DEF LeaseLapses, Row
<1>6. ASSUME NEW t \in Tasks, Cancel(t)
      PROVE  rows[u].state \in InFlight /\ rows'[u].node = rows[u].node
  BY <1>0, <1>6 DEF Cancel, Row
<1>7. ASSUME NEW t \in Tasks, Delete(t)
      PROVE  rows[u].state \in InFlight /\ rows'[u].node = rows[u].node
  BY <1>0, <1>7 DEF Delete, NoRow
<1>8. CASE Clear
  BY <1>8 DEF Clear, NoRow
<1>9. CASE Restart \/ UNCHANGED vars
  BY <1>9 DEF Restart, vars
<1> QED
  BY <1>1, <1>2, <1>3, <1>4, <1>5, <1>6, <1>7, <1>8, <1>9 DEF Next, OnNodeLost, ExpireLeases

\* One pass fills at most the free slots of each node.
LEMMA SchedulingKeepsSlots ==
    ASSUME IInv, NEW n \in Nodes, Cardinality(Load(n)) <= Slots[n],
           NEW ready \in SUBSET Nodes, SchedulePending(ready)
    PROVE  Cardinality(Load(n))' <= Slots[n]
<1>1. PICK S \in (SUBSET Has({"queued"})) \ {{}} :
         \E asg \in [S -> ready], ord \in QueueOrders : IsGreedy(asg, ready, ord) /\ Assign(asg)
  BY DEF SchedulePending
<1>2. PICK asg \in [S -> ready], ord \in QueueOrders : IsGreedy(asg, ready, ord) /\ Assign(asg)
  BY <1>1
<1> DEFINE A == {u \in S : asg[u] = n}
           held == Cardinality(Load(n))
<1>3. /\ S \subseteq Has({"queued"}) /\ Has({"queued"}) \subseteq Tasks /\ DOMAIN asg = S
      /\ A \in SUBSET Tasks /\ Load(n) \in SUBSET Tasks /\ Load(n)' \in SUBSET Tasks
  BY DEF Has, Load
<1>4. /\ IsFiniteSet(A) /\ IsFiniteSet(Load(n)) /\ IsFiniteSet(Load(n)')
      /\ Cardinality(A) \in Nat /\ held \in Nat /\ Cardinality(Load(n))' \in Nat
      /\ Slots[n] \in Nat
  BY <1>3, FiniteRows, RouterAssumption
<1>5. \A u \in A : held + Cardinality({v \in A : ord[v] < ord[u]}) < Slots[n]
  <2> SUFFICES ASSUME NEW u \in A
               PROVE  held + Cardinality({v \in A : ord[v] < ord[u]}) < Slots[n]
    OBVIOUS
  <2>1. asg[u] \in FreeNodes(ready, asg, ord, ord[u])
    BY <1>2, <1>3 DEF IsGreedy
  <2>2. {v \in DOMAIN asg : asg[v] = n /\ ord[v] < ord[u]} = {v \in A : ord[v] < ord[u]}
    BY <1>3
  <2> QED
    BY <2>1, <2>2 DEF FreeNodes
<1>6. held + Cardinality(A) <= Slots[n]
  <2>1. \A u, v \in A : ord[u] \in Nat /\ (u # v => ord[u] # ord[v])
    <3>1. \A u, v \in Has({"queued"}) : ord[u] \in Nat /\ (u # v => ord[u] # ord[v])
      BY <1>2 DEF QueueOrders
    <3> QED
      BY <3>1, <1>3
  <2>2. \A u \in A : Cardinality({v \in A : ord[v] < ord[u]}) \in Nat
    BY <1>3, FiniteRows
  <2>3. \A u \in A : Cardinality({v \in A : ord[v] < ord[u]}) < Slots[n] - held
    BY <1>4, <1>5, <2>2
  <2> HIDE DEF A, held
  <2>4. Slots[n] - held \in Nat
    BY <1>4 DEF held
  <2>5. Cardinality(A) <= Slots[n] - held
    BY <2>1, <2>3, <2>4, <1>3, RankBound
  <2> QED
    BY <2>5, <1>4
<1>7. Load(n)' \subseteq Load(n) \cup A
  <2> SUFFICES ASSUME NEW t \in Tasks, rows'[t].state \in InFlight, rows'[t].node = n
               PROVE  t \in Load(n) \cup A
    BY DEF Load, Has
  <2>1. CASE t \in S
    <3>1. rows'[t] = Assigned(t, asg[t])
      BY <2>1, <1>2, <1>3 DEF Assign
    <3>2. rows[t] \in Row
      BY DEF IInv, TypeOK
    <3>3. rows'[t].node = asg[t]
      BY <3>1, <3>2 DEF Assigned, Row
    <3> QED
      BY <3>3, <2>1
  <2>2. CASE t \notin S
    <3>1. rows'[t] = rows[t]
      BY <2>2, <1>2, <1>3 DEF Assign
    <3> QED
      BY <3>1 DEF Load, Has
  <2> QED
    BY <2>1, <2>2
<1>8. Cardinality(Load(n))' <= held + Cardinality(A)
  <2> HIDE DEF A
  <2>1. /\ IsFiniteSet(Load(n) \cup A)
        /\ Cardinality(Load(n) \cup A) = held + Cardinality(A) - Cardinality(Load(n) \cap A)
    BY <1>4, FS_Union
  <2>2. Cardinality(Load(n)') <= Cardinality(Load(n) \cup A)
    BY <1>7, <2>1, FS_Subset
  <2>3. Cardinality(Load(n) \cap A) \in Nat /\ Cardinality(Load(n) \cup A) \in Nat
    BY <1>3, FiniteRows, <2>1, FS_CardinalityType
  <2>4. Cardinality(Load(n))' = Cardinality(Load(n)')
    OBVIOUS
  <2> HIDE DEF held
  <2> QED
    BY <2>1, <2>2, <2>3, <2>4, <1>4
<1> QED
  BY <1>4, <1>6, <1>8

LEMMA StepSlots == IInv /\ SlotsKept /\ [Next]_vars => SlotsKept'
<1> SUFFICES ASSUME IInv, SlotsKept, [Next]_vars, NEW n \in Nodes
             PROVE  Cardinality(Load(n))' <= Slots[n]
  BY DEF SlotsKept
<1>1. CASE \E ready \in SUBSET Nodes : SchedulePending(ready)
  BY <1>1, SchedulingKeepsSlots DEF SlotsKept
<1>2. CASE ~ \E ready \in SUBSET Nodes : SchedulePending(ready)
  <2>1. Load(n)' \in SUBSET Load(n) /\ Load(n) \in SUBSET Tasks
    BY <1>2, OnlyScheduling DEF Load, Has
  <2>2. /\ IsFiniteSet(Load(n)) /\ Cardinality(Load(n)) \in Nat
        /\ Cardinality(Load(n)') \in Nat /\ Slots[n] \in Nat
    BY <2>1, FiniteRows, RouterAssumption
  <2>3. Cardinality(Load(n)') <= Cardinality(Load(n))
    BY <2>1, <2>2, FS_Subset
  <2> QED
    BY <2>2, <2>3 DEF SlotsKept
<1> QED
  BY <1>1, <1>2

\* However the ready sets, losses and retries interleave, no node is ever given
\* more concurrent tasks than its parallel_slots.
THEOREM SlotsHold == Spec => []SlotsKept
<1>1. Init => SlotsKept
  <2> SUFFICES ASSUME Init, NEW n \in Nodes PROVE Cardinality(Load(n)) <= Slots[n]
    BY DEF SlotsKept
  <2>1. Load(n) = {}
    BY DEF Init, Load, Has, NoRow, InFlight
  <2> QED
    BY <2>1, FS_EmptySet, RouterAssumption
<1> QED
  BY <1>1, StepSlots, InvariantIInv, PTL DEF Spec

\* Only submit adds to the open tasks.
LEMMA OpenGrowsBySubmit ==
    ASSUME IInv, [Next]_vars, ~ \E t \in Tasks, k \in Keys : Submit(t, k)
    PROVE  \A u \in Tasks : rows'[u].state \in Open => rows[u].state \in Open
<1> USE DEF Open, InFlight
<1> SUFFICES ASSUME NEW u \in Tasks, rows'[u].state \in Open
             PROVE  rows[u].state \in Open
  OBVIOUS
<1>0. rows \in [Tasks -> Row]
  BY DEF IInv, TypeOK
<1>1. ASSUME NEW ready \in SUBSET Nodes, SchedulePending(ready)
      PROVE  rows[u].state \in Open
  <2>1. PICK S \in SUBSET Has({"queued"}) : \E asg \in [S -> ready] : Assign(asg)
    BY <1>1 DEF SchedulePending
  <2>2. PICK asg \in [S -> ready] : Assign(asg)
    BY <2>1
  <2> QED
    BY <2>2 DEF Assign, Has
<1>2. ASSUME NEW t \in Tasks, NEW a \in 1..issued[t], MarkRunning(t, a)
      PROVE  rows[u].state \in Open
  BY <1>0, <1>2 DEF MarkRunning, Row
<1>3. ASSUME NEW t \in Tasks, NEW a \in 1..issued[t], NEW outcome \in {"succeeded", "failed"},
             OnResult(t, a, outcome)
      PROVE  rows[u].state \in Open
  BY <1>0, <1>3 DEF OnResult, Retry, Commit, Reportable, Row
<1>4. ASSUME NEW lost, LoseNodes(lost)
      PROVE  rows[u].state \in Open
  BY <1>0, <1>4 DEF LoseNodes, Row
<1>5. ASSUME NEW t \in Tasks, LeaseLapses(t)
      PROVE  rows[u].state \in Open
  BY <1>0, <1>5 DEF LeaseLapses, Row
<1>6. ASSUME NEW t \in Tasks, Cancel(t)
      PROVE  rows[u].state \in Open
  BY <1>0, <1>6 DEF Cancel, Row
<1>7. ASSUME NEW t \in Tasks, Delete(t)
      PROVE  rows[u].state \in Open
  BY <1>0, <1>7 DEF Delete, NoRow
<1>8. CASE Clear
  BY <1>8 DEF Clear, NoRow
<1>9. CASE Restart \/ UNCHANGED vars
  BY <1>9 DEF Restart, vars
<1> QED
  BY <1>1, <1>2, <1>3, <1>4, <1>5, <1>6, <1>7, <1>8, <1>9 DEF Next, OnNodeLost, ExpireLeases

\* Retries do not push the queue past its cap: a requeued task never left the
\* set of open tasks that submit counts.
THEOREM QueueHolds == Spec => []QueueBounded
<1>1. Init => QueueBounded
  <2> SUFFICES ASSUME Init PROVE Cardinality(Has(Open)) <= QueueCap
    BY DEF QueueBounded
  <2>1. Has(Open) = {}
    BY DEF Init, Has, NoRow, Open, InFlight
  <2> QED
    BY <2>1, FS_EmptySet, RouterAssumption
<1>2. IInv /\ QueueBounded /\ [Next]_vars => QueueBounded'
  <2> SUFFICES ASSUME IInv, QueueBounded, [Next]_vars
               PROVE  Cardinality(Has(Open)') <= QueueCap
    BY DEF QueueBounded
  <2>0. /\ Has(Open) \in SUBSET Tasks /\ IsFiniteSet(Has(Open)) /\ Cardinality(Has(Open)) \in Nat
        /\ IsFiniteSet(Has(Open)') /\ Cardinality(Has(Open)') \in Nat /\ QueueCap \in Nat
    <3>1. Has(Open) \in SUBSET Tasks /\ Has(Open)' \in SUBSET Tasks
      BY DEF Has
    <3> QED
      BY <3>1, FiniteRows, RouterAssumption
  <2>1. ASSUME NEW t \in Tasks, NEW k \in Keys, Submit(t, k)
        PROVE  Cardinality(Has(Open)') <= QueueCap
    <3>1. Has(Open)' \in SUBSET (Has(Open) \cup {t})
      BY <2>1 DEF Submit, Has, IInv, TypeOK
    <3>2. /\ IsFiniteSet(Has(Open) \cup {t})
          /\ Cardinality(Has(Open) \cup {t}) <= Cardinality(Has(Open)) + 1
      BY <2>0, FS_AddElement
    <3>3. Cardinality(Has(Open)') <= Cardinality(Has(Open) \cup {t})
      BY <3>1, <3>2, FS_Subset
    <3>4. Cardinality(Has(Open) \cup {t}) \in Nat /\ Cardinality(Has(Open)) < QueueCap
      BY <3>2, <2>1, FS_CardinalityType DEF Submit
    <3> QED
      BY <2>0, <3>2, <3>3, <3>4
  <2>2. CASE ~ \E t \in Tasks, k \in Keys : Submit(t, k)
    <3>1. Has(Open)' \in SUBSET Has(Open)
      BY <2>2, OpenGrowsBySubmit DEF Has, Open, InFlight
    <3>2. Cardinality(Has(Open)') <= Cardinality(Has(Open))
      BY <3>1, <2>0, FS_Subset
    <3> QED
      BY <2>0, <3>2 DEF QueueBounded
  <2> QED
    BY <2>1, <2>2
<1> QED
  BY <1>1, <1>2, InvariantIInv, PTL DEF Spec

-----------------------------------------------------------------------------
\* An older queued task is passed over only on nodes it cannot run on, whatever
\* order rows of equal created_seq come in.
THEOREM QueueOrderHolds == Spec => NoOvertaking
<1> DEFINE Overtakes == \A t, u \in Tasks :
                          /\ rows[t].state = "queued" /\ rows'[t].state = "queued"
                          /\ rows[u].state = "queued" /\ rows'[u].state = "assigned"
                          /\ rows[t].seq < rows[u].seq
                          => rows'[u].node \notin Eligible[rows[t].key]
<1>1. IInv /\ [Next]_vars => [Overtakes]_vars
  <2> SUFFICES ASSUME IInv, [Next]_vars, NEW t \in Tasks, NEW u \in Tasks,
                      rows[t].state = "queued", rows'[t].state = "queued",
                      rows[u].state = "queued", rows'[u].state = "assigned",
                      rows[t].seq < rows[u].seq
               PROVE  rows'[u].node \notin Eligible[rows[t].key]
    OBVIOUS
  <2>1. PICK ready \in SUBSET Nodes : SchedulePending(ready)
    BY OnlyScheduling DEF InFlight
  <2>2. PICK S \in SUBSET Has({"queued"}) :
           \E asg \in [S -> ready], ord \in QueueOrders : IsGreedy(asg, ready, ord) /\ Assign(asg)
    BY <2>1 DEF SchedulePending
  <2>3. PICK asg \in [S -> ready], ord \in QueueOrders : IsGreedy(asg, ready, ord) /\ Assign(asg)
    BY <2>2
  <2>4. /\ DOMAIN asg = S /\ S \in SUBSET Tasks
        /\ t \in Has({"queued"}) /\ u \in Has({"queued"})
        /\ rows[t] \in Row /\ rows[u] \in Row
    BY DEF Has, IInv, TypeOK
  <2>5. u \in S /\ rows'[u].node = asg[u] /\ t \notin S
    <3>1. u \in S
      BY <2>3, <2>4 DEF Assign
    <3>2. t \notin S
      BY <2>3, <2>4 DEF Assign, Assigned, Row
    <3>3. rows'[u].node = asg[u]
      BY <3>1, <2>3, <2>4 DEF Assign, Assigned, Row
    <3> QED
      BY <3>1, <3>2, <3>3
  <2>6. asg[u] \in FreeNodes(ready, asg, ord, ord[u])
    BY <2>3, <2>4, <2>5 DEF IsGreedy
  <2>7. FreeNodes(ready, asg, ord, ord[t]) \cap Eligible[rows[t].key] = {}
    BY <2>3, <2>4, <2>5 DEF IsGreedy
  <2>8. ord[t] \in Nat /\ ord[u] \in Nat /\ ord[t] < ord[u]
        /\ \A v \in Has({"queued"}) : ord[v] \in Nat
    BY <2>3, <2>4 DEF QueueOrders
  <2>9. asg[u] \in FreeNodes(ready, asg, ord, ord[t])
    <3> DEFINE n == asg[u]
               before(i) == {v \in DOMAIN asg : asg[v] = n /\ ord[v] < i}
    <3>1. before(ord[t]) \in SUBSET before(ord[u]) /\ before(ord[u]) \in SUBSET Tasks
      BY <2>4, <2>8
    <3>2. /\ Cardinality(before(ord[t])) <= Cardinality(before(ord[u]))
          /\ Cardinality(before(ord[t])) \in Nat /\ Cardinality(before(ord[u])) \in Nat
      <4>1. before(ord[t]) \in SUBSET Tasks
        BY <3>1
      <4>2. IsFiniteSet(before(ord[u]))
        BY <3>1, FiniteRows
      <4> HIDE DEF before
      <4> QED
        BY <3>1, <4>1, <4>2, FS_Subset, FiniteRows
    <3>3. /\ n \in ready /\ n \in Nodes
          /\ Cardinality(Load(n)) + Cardinality(before(ord[u])) < Slots[n]
      BY <2>6, <2>1 DEF FreeNodes
    <3>4. Load(n) \in SUBSET Tasks
      BY DEF Load, Has
    <3>5. Cardinality(Load(n)) \in Nat /\ Slots[n] \in Nat
      BY <3>3, <3>4, FiniteRows, RouterAssumption
    <3>6. Cardinality(Load(n)) + Cardinality(before(ord[t])) < Slots[n]
      <4> HIDE DEF before, n
      <4> QED
        BY <3>2, <3>3, <3>5
    <3> QED
      BY <3>3, <3>6 DEF FreeNodes
  <2> QED
    BY <2>5, <2>7, <2>9
<1> QED
  BY <1>1, InvariantIInv, PTL DEF Spec, NoOvertaking

-----------------------------------------------------------------------------
(***************************************************************************)
(* The table implements TaskLifecycle.  LegalMove is one task's share of   *)
(* Promise!Next, written over the table.                                   *)
(***************************************************************************)
Live(t) == IF rows[t].state \in InFlight THEN rows[t].attempt ELSE 0

LegalMove(t) ==
    \/ Status(t)' = Status(t) /\ issued'[t] = issued[t] /\ Live(t)' = Live(t)
    \/ /\ Status(t) = "new" /\ Status(t)' = "open"
       /\ issued'[t] = issued[t] /\ Live(t)' = Live(t)
    \/ /\ Status(t) = "open" /\ Status(t)' = "open"
       /\ Live(t) = 0 /\ issued[t] < MaxAttempts
       /\ issued'[t] = issued[t] + 1 /\ Live(t)' = issued'[t]
    \/ /\ Status(t) = "open" /\ Status(t)' = "open"
       /\ Live(t) # 0 /\ issued[t] < MaxAttempts
       /\ issued'[t] = issued[t] /\ Live(t)' = 0
    \/ /\ Status(t) = "open"
       /\ \/ Status(t)' = "succeeded" /\ Live(t) # 0
          \/ Status(t)' = "failed" /\ Live(t) # 0 /\ issued[t] = MaxAttempts
          \/ Status(t)' = "cancelled"
       /\ issued'[t] = issued[t] /\ Live(t)' = 0
    \/ /\ Status(t) \notin {"new", "gone"} /\ Status(t)' = "gone"
       /\ issued'[t] = issued[t] /\ Live(t)' = 0

\* A row that is not written makes no move.
LEMMA SameRow ==
    ASSUME NEW t, rows'[t] = rows[t], issued'[t] = issued[t], t \in minted' <=> t \in minted
    PROVE  LegalMove(t)
  BY DEF LegalMove, Status, Live, Present

\* An in-flight row holds a positive attempt id, the last one issued.
LEMMA InFlightLive ==
    ASSUME IInv, NEW t \in Tasks, rows[t].state \in InFlight
    PROVE  /\ Status(t) = "open" /\ Live(t) = issued[t] /\ issued[t] # 0
           /\ issued[t] = rows[t].attempts /\ issued[t] \in Nat /\ issued[t] <= MaxAttempts
  BY DEF IInv, Minting, Ownership, BudgetKept, Status, Live, Present, InFlight, Open, TypeOK,
         NoAttempt

LEMMA ScheduleMoves ==
    ASSUME IInv, NEW S \in SUBSET Has({"queued"}), NEW asg \in [S -> Nodes], Assign(asg),
           NEW t \in Tasks
    PROVE  LegalMove(t)
<1>1. DOMAIN asg = S
  OBVIOUS
<1>2. CASE t \in S
  <2>1. /\ rows'[t] = Assigned(t, asg[t]) /\ issued'[t] = issued[t] + 1 /\ minted' = minted
        /\ rows[t].state = "queued" /\ rows[t] \in Row /\ issued[t] \in Nat
    BY <1>1, <1>2 DEF Assign, Has, IInv, TypeOK
  <2>2. rows'[t].state = "assigned" /\ rows'[t].attempt = issued[t] + 1
    BY <2>1 DEF Assigned, Row
  <2>3. t \in minted /\ issued[t] < MaxAttempts
    BY <2>1 DEF IInv, Minting, BudgetKept, Present
  <2> QED
    BY <2>1, <2>2, <2>3 DEF LegalMove, Status, Live, Present, Open, InFlight
<1>3. CASE t \notin S
  BY <1>1, <1>3, SameRow DEF Assign
<1> QED
  BY <1>2, <1>3

\* Requeueing with budget left gives the attempt up.
LEMMA RequeueMoves ==
    ASSUME IInv, NEW t \in Tasks, rows[t].state \in InFlight, rows[t].attempts < MaxAttempts,
           rows'[t] = Requeued(rows[t]), UNCHANGED <<minted, issued>>
    PROVE  LegalMove(t)
<1>1. rows'[t].state = "queued"
  BY DEF Requeued, IInv, TypeOK, Row
<1>2. t \in minted
  BY DEF IInv, Minting, Present, InFlight
<1> QED
  BY <1>1, <1>2, InFlightLive DEF LegalMove, Status, Live, Present, Open, InFlight

LEMMA LossMoves ==
    ASSUME IInv, NEW lost, LoseNodes(lost), NEW t \in Tasks
    PROVE  LegalMove(t)
<1>1. CASE rows[t].state \in InFlight /\ rows[t].node \in lost
  <2>1. rows'[t] = AfterLoss(rows[t]) /\ UNCHANGED <<minted, issued>>
    BY <1>1 DEF LoseNodes
  <2>2. CASE rows[t].attempts >= MaxAttempts
    <3>1. rows'[t].state = "failed"
      BY <2>1, <2>2 DEF AfterLoss, IInv, TypeOK, Row
    <3>2. t \in minted
      BY <1>1 DEF IInv, Minting, Present, InFlight
    <3>3. issued[t] = MaxAttempts
      BY <1>1, <2>2, InFlightLive, RouterAssumption
    <3> QED
      BY <1>1, <2>1, <3>1, <3>2, <3>3, InFlightLive
         DEF LegalMove, Status, Live, Present, Open, InFlight
  <2>3. CASE ~(rows[t].attempts >= MaxAttempts)
    <3>1. rows[t].attempts < MaxAttempts
      BY <1>1, <2>3, InFlightLive, RouterAssumption
    <3> QED
      BY <1>1, <2>1, <2>3, <3>1, RequeueMoves DEF AfterLoss
  <2> QED
    BY <2>2, <2>3
<1>2. CASE ~(rows[t].state \in InFlight /\ rows[t].node \in lost)
  BY <1>2, SameRow DEF LoseNodes
<1> QED
  BY <1>1, <1>2

LEMMA ResultMoves ==
    ASSUME IInv, NEW u \in Tasks, NEW a \in 1..issued[u], NEW outcome \in {"succeeded", "failed"},
           OnResult(u, a, outcome), NEW t \in Tasks
    PROVE  LegalMove(t)
<1>0. rows \in [Tasks -> Row] /\ UNCHANGED <<minted, issued>>
  BY DEF IInv, TypeOK, OnResult, Retry, Commit
<1>1. CASE t # u
  BY <1>0, <1>1, SameRow DEF OnResult, Retry, Commit
<1>2. CASE t = u /\ Retry(u, a, outcome)
  <2>1. rows[t].state \in InFlight
    BY <1>2, ReportableInFlight DEF Retry
  <2>2. rows'[t] = Requeued(rows[t]) /\ rows[t].attempts < MaxAttempts
    BY <1>0, <1>2 DEF Retry, Retries
  <2> QED
    BY <1>0, <2>1, <2>2, RequeueMoves
<1>3. CASE t = u /\ Commit(u, a, outcome)
  <2>1. rows[t].state \in InFlight
    BY <1>3, ReportableInFlight DEF Commit
  <2>2. rows'[t].state = outcome
    BY <1>0, <1>3 DEF Commit, Row
  <2>3. outcome = "failed" => issued[t] = MaxAttempts
    BY <1>3, <2>1, InFlightLive, RouterAssumption DEF Commit, Retries
  <2>4. t \in minted
    BY <2>1 DEF IInv, Minting, Present, InFlight
  <2> QED
    BY <1>0, <2>1, <2>2, <2>3, <2>4, InFlightLive
       DEF LegalMove, Status, Live, Present, Open, InFlight
<1> QED
  BY <1>1, <1>2, <1>3 DEF OnResult

LEMMA StepMoves == IInv /\ [Next]_vars => \A t \in Tasks : LegalMove(t)
<1> SUFFICES ASSUME IInv, [Next]_vars, NEW t \in Tasks PROVE LegalMove(t)
  OBVIOUS
<1>0. rows \in [Tasks -> Row]
  BY DEF IInv, TypeOK
<1>1. ASSUME NEW u \in Tasks, NEW k \in Keys, Submit(u, k) PROVE LegalMove(t)
  <2>1. CASE t = u
    <3>1. rows'[t].state = "queued" /\ t \in minted' /\ t \notin minted /\ issued' = issued
      BY <1>0, <1>1, <2>1 DEF Submit, NoRow
    <3>2. rows[t].state = "absent"
      BY <3>1 DEF IInv, Minting, Present
    <3> QED
      BY <3>1, <3>2 DEF LegalMove, Status, Live, Present, Open, InFlight
  <2>2. CASE t # u
    BY <1>1, <2>2, SameRow DEF Submit
  <2> QED
    BY <2>1, <2>2
<1>2. ASSUME NEW ready \in SUBSET Nodes, SchedulePending(ready) PROVE LegalMove(t)
  <2>1. PICK S \in SUBSET Has({"queued"}) : \E asg \in [S -> ready] : Assign(asg)
    BY <1>2 DEF SchedulePending
  <2>2. PICK asg \in [S -> ready] : Assign(asg)
    BY <2>1
  <2>3. asg \in [S -> Nodes]
    BY <1>2
  <2> QED
    BY <2>2, <2>3, ScheduleMoves
<1>3. ASSUME NEW u \in Tasks, NEW a \in 1..issued[u], MarkRunning(u, a) PROVE LegalMove(t)
  <2>1. CASE t = u
    <3>1. /\ rows[t].state = "assigned" /\ rows'[t].state = "running"
          /\ rows'[t].attempt = rows[t].attempt /\ UNCHANGED <<minted, issued>>
      BY <1>0, <1>3, <2>1 DEF MarkRunning, Row
    <3> QED
      BY <3>1 DEF LegalMove, Status, Live, Present, Open, InFlight
  <2>2. CASE t # u
    BY <1>3, <2>2, SameRow DEF MarkRunning
  <2> QED
    BY <2>1, <2>2
<1>4. ASSUME NEW u \in Tasks, NEW a \in 1..issued[u], NEW outcome \in {"succeeded", "failed"},
             OnResult(u, a, outcome)
      PROVE  LegalMove(t)
  BY <1>4, ResultMoves
<1>5. ASSUME NEW lost, LoseNodes(lost) PROVE LegalMove(t)
  BY <1>5, LossMoves
<1>6. ASSUME NEW u \in Tasks, LeaseLapses(u) PROVE LegalMove(t)
  <2>1. /\ rows'[t].state = rows[t].state /\ rows'[t].attempt = rows[t].attempt
        /\ UNCHANGED <<minted, issued>>
    BY <1>0, <1>6 DEF LeaseLapses, Row
  <2> QED
    BY <2>1 DEF LegalMove, Status, Live, Present
<1>7. ASSUME NEW u \in Tasks, Cancel(u) PROVE LegalMove(t)
  <2>1. CASE t = u
    <3>1. rows[t].state \in Open /\ rows'[t].state = "cancelled" /\ UNCHANGED <<minted, issued>>
      BY <1>0, <1>7, <2>1 DEF Cancel, Row
    <3>2. t \in minted
      BY <3>1 DEF IInv, Minting, Present, Open, InFlight
    <3> QED
      BY <3>1, <3>2 DEF LegalMove, Status, Live, Present, Open, InFlight
  <2>2. CASE t # u
    BY <1>7, <2>2, SameRow DEF Cancel
  <2> QED
    BY <2>1, <2>2
<1>8. ASSUME NEW S \in SUBSET Tasks, \A u \in S : rows'[u] = NoRow,
             \A u \in Tasks \ S : rows'[u] = rows[u], UNCHANGED <<minted, issued>>
      PROVE  LegalMove(t)
  <2>1. CASE t \in S /\ t \in minted /\ Present(t)
    <3>1. rows'[t].state = "absent" /\ minted' = minted /\ issued' = issued
      BY <1>8, <2>1 DEF NoRow
    <3>2. Status(t)' = "gone" /\ Live(t)' = 0
      BY <3>1, <2>1 DEF Status, Live, Present, InFlight
    <3>3. Status(t) \notin {"new", "gone"}
      BY <1>0, <2>1 DEF Status, Present, Row, Open, InFlight, Terminal
    <3> QED
      BY <3>1, <3>2, <3>3 DEF LegalMove
  <2>2. CASE t \in S /\ ~(t \in minted /\ Present(t))
    <3>1. rows'[t] = rows[t]
      BY <1>8, <2>2 DEF IInv, Minting
    <3> QED
      BY <1>8, <3>1, SameRow
  <2>3. CASE t \notin S
    BY <1>8, <2>3, SameRow
  <2> QED
    BY <2>1, <2>2, <2>3
<1>9. ASSUME NEW u \in Tasks, Delete(u) PROVE LegalMove(t)
  <2>1. /\ \A v \in {u} : rows'[v] = NoRow
        /\ \A v \in Tasks \ {u} : rows'[v] = rows[v]
        /\ UNCHANGED <<minted, issued>> /\ {u} \in SUBSET Tasks
    BY <1>0, <1>9 DEF Delete
  <2> QED
    BY <2>1, <1>8
<1>10. CASE Clear
  <2>1. /\ \A v \in Tasks : rows'[v] = NoRow
        /\ UNCHANGED <<minted, issued>>
    BY <1>10 DEF Clear
  <2> QED
    BY <2>1, <1>8
<1>11. CASE Restart \/ UNCHANGED vars
  BY <1>11, SameRow DEF Restart, vars
<1> QED
  BY <1>1, <1>2, <1>3, <1>4, <1>5, <1>6, <1>7, <1>9, <1>10, <1>11
     DEF Next, OnNodeLost, ExpireLeases

\* The router keeps the promise of TaskLifecycle: at most one live attempt,
\* success only through it, failure only with the budget spent, one settlement.
THEOREM PromiseKept == Spec => KeepsPromise
<1>1. Init => Promise!Init
  <2> SUFFICES ASSUME Init PROVE Promise!Init
    OBVIOUS
  <2>1. \A t \in Tasks : Status(t) = "new" /\ rows[t].state = "absent" /\ issued[t] = 0
    BY DEF Init, Status, NoRow
  <2> QED
    BY <2>1 DEF Init, Promise!Init, InFlight
<1>2. IInv /\ [Next]_vars => [Promise!Next]_(Promise!vars)
  <2> SUFFICES ASSUME IInv, [Next]_vars PROVE Promise!Next
    BY DEF Promise!vars
  <2>1. ASSUME NEW t \in Tasks PROVE Promise!Move(t)
    BY <2>1, StepMoves
       DEF LegalMove, Live, Promise!Move, Promise!Stay, Promise!Accept, Promise!Try,
           Promise!GiveUp, Promise!Settle, Promise!Forget
  <2>2. issued' = [t \in Tasks |-> issued'[t]]
    BY StepIInv DEF IInv, TypeOK
  <2> QED
    BY <2>1, <2>2 DEF Promise!Next
<1> QED
  BY <1>1, <1>2, InvariantIInv, PTL DEF Spec, KeepsPromise, Promise!Spec
=============================================================================
