--------------------------- MODULE CodeEditProofs ---------------------------
(***************************************************************************)
(* Proofs about verified code edits and races, for every number of tasks,  *)
(* nodes, attempts and outputs.                                            *)
(*                                                                         *)
(* The task table is Router's, so what RouterProofs proves of it holds     *)
(* here as well once every step is known to be a step of the table         *)
(* (TableStep).  An accepted task is backed by a commit because the        *)
(* verdict the handler carries to the table is (Verdicts); a race that     *)
(* loses its entry is over because every settlement, running or suspended, *)
(* has closed the members it no longer lists (Settlements).                *)
(***************************************************************************)
EXTENDS CodeEdit, TLAPS

RP == INSTANCE RouterProofs

\* The variables keep their types.
Verdicts    == [at : {"decide", "record"}, task : Tasks, attempt : Nat,
                outcome : {"succeeded", "failed"}]
Settlements == [at : {"settle"}, left : SUBSET Tasks]

CodeTypes ==
    /\ tree \in [Tasks -> SUBSET Outputs]
    /\ repo \in [Tasks -> SUBSET Outputs]
    /\ dirs \subseteq Tasks /\ scarred \subseteq Tasks /\ group \subseteq Tasks
    /\ ledger \in [Tasks -> [state : {"absent", "none"} \cup R!Open \cup R!Terminal, sha : Nat]]
    /\ stage \in {Idle} \cup Verdicts \cup Settlements
    /\ parked \subseteq Settlements

\* One of the commits C is of attempt a of t, as AcceptedVerified asks for.
BackedBy(C, scars, t, a) ==
    \E c \in C :
        /\ c.task = t /\ c.attempt = a
        /\ Flaw[c.patch] = "none"
        /\ c.fresh \/ scars # {}

\* What the handler is about to report was issued, and is backed if it is a
\* success; what it is about to record is settled.
VerdictInv ==
    /\ At("decide") =>
          /\ stage.attempt \in 1..issued[stage.task]
          /\ stage.outcome = "succeeded" => BackedBy(commits, scarred, stage.task, stage.attempt)
    /\ At("record") => rows[stage.task].state \in R!Terminal

\* A task in the ledger was handed out and is settled.
LedgerSettled ==
    \A t \in Tasks :
        ledger[t] # NoRow =>
            /\ t \in minted
            /\ R!Present(t) => rows[t].state \in R!Terminal

\* A settlement has closed the members of the race it does not list any more.
Closing(rest) == \A t \in group \ rest.left : rows[t].state \notin R!Open

\* Settlements belong to a race that was registered, when all its members had
\* been handed out.
SettlementInv ==
    /\ group \subseteq minted
    /\ group # {} \/ parked # {} \/ At("settle") => race \in {"registered", "over"}
    /\ At("settle") => Closing(stage)
    /\ \A rest \in parked : Closing(rest)

CodeInv ==
    /\ RP!IInv
    /\ CodeTypes /\ Tidy
    /\ VerdictInv /\ AcceptedVerified
    /\ LedgerSettled /\ LedgerTruthful
    /\ SettlementInv

-----------------------------------------------------------------------------
(***************************************************************************)
(* The table                                                               *)
(***************************************************************************)
\* Router here and Router in RouterProofs are the same.
LEMMA SameTable ==
    /\ R!RouterAssumption => RP!RouterAssumption
    /\ R!Init <=> RP!Init
    /\ R!Next <=> RP!Next
    /\ R!TypeOK <=> RP!TypeOK
<1> USE DEF R!InFlight, RP!InFlight, R!Open, RP!Open, R!Terminal, RP!Terminal,
            R!NoAttempt, RP!NoAttempt, R!NoResult, RP!NoResult, R!NoRow, RP!NoRow, R!Has, RP!Has,
            R!Present, RP!Present, R!Load, RP!Load
<1>0. \A S : R!Cardinality(S) = RP!Cardinality(S)
  BY Zenon DEF R!Cardinality, RP!Cardinality
<1>1. R!RouterAssumption => RP!RouterAssumption
  BY DEF R!RouterAssumption, RP!RouterAssumption, R!IsFiniteSet, RP!IsFiniteSet
<1>2. R!Init <=> RP!Init
  BY DEF R!Init, RP!Init
<1>3. R!TypeOK <=> RP!TypeOK
  BY DEF R!TypeOK, RP!TypeOK, R!Row, RP!Row, R!Result, RP!Result
<1>4. \A t, k : R!Submit(t, k) <=> RP!Submit(t, k)
  BY <1>0 DEF R!Submit, RP!Submit
<1>5. \A ready : R!SchedulePending(ready) <=> RP!SchedulePending(ready)
  <2>1. R!QueueOrders = RP!QueueOrders
    BY <1>0 DEF R!QueueOrders, RP!QueueOrders
  <2>2. \A ready, asg, ord, i : R!FreeNodes(ready, asg, ord, i) = RP!FreeNodes(ready, asg, ord, i)
    BY <1>0 DEF R!FreeNodes, RP!FreeNodes
  <2>3. \A asg, ready, ord : R!IsGreedy(asg, ready, ord) <=> RP!IsGreedy(asg, ready, ord)
    BY <2>2 DEF R!IsGreedy, RP!IsGreedy
  <2>4. \A asg : R!Assign(asg) <=> RP!Assign(asg)
    BY DEF R!Assign, RP!Assign, R!Assigned, RP!Assigned
  <2> QED
    BY <2>1, <2>3, <2>4 DEF R!SchedulePending, RP!SchedulePending
<1>6. \A t, a : R!MarkRunning(t, a) <=> RP!MarkRunning(t, a)
  BY DEF R!MarkRunning, RP!MarkRunning
<1>7. \A row : R!Requeued(row) = RP!Requeued(row)
  BY DEF R!Requeued, RP!Requeued
<1>8. \A t, a, outcome : R!OnResult(t, a, outcome) <=> RP!OnResult(t, a, outcome)
  BY <1>7 DEF R!OnResult, RP!OnResult, R!Retry, RP!Retry, R!Commit, RP!Commit,
              R!Reportable, RP!Reportable, R!Retries, RP!Retries
<1>9. \A lost : R!LoseNodes(lost) <=> RP!LoseNodes(lost)
  BY <1>7 DEF R!LoseNodes, RP!LoseNodes, R!AfterLoss, RP!AfterLoss
<1>10. /\ R!ExpireLeases <=> RP!ExpireLeases
       /\ \A n : R!OnNodeLost(n) <=> RP!OnNodeLost(n)
       /\ \A t : R!LeaseLapses(t) <=> RP!LeaseLapses(t)
  BY <1>9 DEF R!ExpireLeases, RP!ExpireLeases, R!OnNodeLost, RP!OnNodeLost,
              R!LapsedNodes, RP!LapsedNodes, R!LeaseLapses, RP!LeaseLapses
<1>11. /\ \A t : R!Cancel(t) <=> RP!Cancel(t)
       /\ \A t : R!Delete(t) <=> RP!Delete(t)
       /\ R!Clear <=> RP!Clear
       /\ R!Restart <=> RP!Restart
  BY DEF R!Cancel, RP!Cancel, R!Delete, RP!Delete, R!Clear, RP!Clear, R!Restart, RP!Restart
<1>12. R!Next <=> RP!Next
  BY <1>4, <1>5, <1>6, <1>8, <1>10, <1>11 DEF R!Next, RP!Next
<1> QED
  BY <1>1, <1>2, <1>3, <1>12

\* Every step is a step of the task table, as Router specifies it.
LEMMA TableStep ==
    ASSUME R!TypeOK, CodeTypes, VerdictInv, [Next]_vars
    PROVE  [R!Next]_table
<1>1. ASSUME NEW t \in Tasks, RaceSubmit(t) PROVE R!Next
  BY <1>1, CodeEditAssumption DEF RaceSubmit, R!Next
<1>2. ASSUME NEW t \in Tasks, Cancel(t) \/ Delete(t) PROVE R!Next
  BY <1>2 DEF Cancel, Delete, R!Next
<1>3. ASSUME NEW t \in Tasks, NEW a, NEW o, Verify(t, a, o) \/ VerifyDies(t, a, o)
      PROVE  R!Restart \/ UNCHANGED table
  BY <1>3 DEF Verify, VerifyDies, Restarted
<1>4. ASSUME Decide PROVE R!Next \/ UNCHANGED table
  <2>1. stage.task \in Tasks /\ stage.outcome \in {"succeeded", "failed"}
        /\ stage.attempt \in 1..issued[stage.task]
    BY <1>4 DEF Decide, At, CodeTypes, VerdictInv, Verdicts, Settlements, Idle
  <2> QED
    BY <1>4, <2>1 DEF Decide, R!Next, R!OnResult
<1>5. ASSUME SettleOne PROVE R!Next \/ UNCHANGED table
  <2>1. stage.left \subseteq Tasks
    BY <1>5 DEF SettleOne, At, CodeTypes, Verdicts, Settlements, Idle
  <2> QED
    BY <1>5, <2>1 DEF SettleOne, R!Next
<1>6. ASSUME Dispatching PROVE R!Next
  BY <1>6 DEF Dispatching, R!Next
<1>7. ASSUME NEW everything \in BOOLEAN, Clear(everything) PROVE R!Next
  BY <1>7 DEF Clear, R!Next
<1>8. ASSUME ServerRestart PROVE R!Next
  BY <1>8 DEF ServerRestart, Restarted, R!Next
<1>9. ASSUME RaceOverflow \/ RaceRegister \/ Record \/ SettleEnds \/ Resume \/ Collect
      PROVE  UNCHANGED table
  BY <1>9 DEF RaceOverflow, RaceRegister, Record, SettleEnds, Resume, Collect
<1>10. CASE UNCHANGED vars
  BY <1>10 DEF vars
<1> QED
  BY <1>1, <1>2, <1>3, <1>4, <1>5, <1>6, <1>7, <1>8, <1>9, <1>10 DEF Next, R!Next

\* What a step that settles no task by a result does to the rows: whatever is
\* settled stays as it is or goes, and only a task never handed out comes in.
RowMoves ==
    /\ minted \subseteq minted'
    /\ \A t \in Tasks :
          /\ rows'[t].state = "succeeded" => rows'[t] = rows[t]
          /\ rows[t].state \in R!Terminal => rows'[t] = rows[t] \/ rows'[t].state = "absent"
          /\ rows'[t].state \in R!Open => rows[t].state \in R!Open \/ t \notin minted
          /\ rows'[t].state # "absent" => rows[t].state # "absent" \/ t \notin minted

LEMMA StillRows == UNCHANGED table => RowMoves
  BY DEF table, RowMoves

LEMMA SubmitMoves ==
    ASSUME R!TypeOK, \A u \in Tasks : u \notin minted => rows[u].state = "absent",
           NEW t \in Tasks, NEW k \in Keys, R!Submit(t, k)
    PROVE  RowMoves
<1>1. rows'[t].state = "queued" /\ \A u \in Tasks \ {t} : rows'[u] = rows[u]
  BY DEF R!Submit, R!TypeOK, R!NoRow
<1> QED
  BY <1>1 DEF R!Submit, RowMoves, R!Terminal, R!Open, R!InFlight

LEMMA ScheduleMoves ==
    ASSUME R!TypeOK, NEW ready, R!SchedulePending(ready)
    PROVE  RowMoves /\ \A t \in Tasks : issued[t] <= issued'[t]
<1>0. PICK S \in SUBSET R!Has({"queued"}) : \E asg \in [S -> ready] : R!Assign(asg)
  BY DEF R!SchedulePending
<1>1. PICK asg \in [S -> ready] : R!Assign(asg)
  BY <1>0
<1>2. \A t \in Tasks : IF t \in S THEN rows'[t] = R!Assigned(t, asg[t]) ELSE rows'[t] = rows[t]
  BY <1>1 DEF R!Assign
<1>3. \A t \in S : rows[t].state = "queued" /\ rows'[t].state = "assigned"
  <2> TAKE t \in S
  <2>1. t \in Tasks /\ rows[t].state = "queued" /\ rows[t] \in R!Row
    BY <1>1 DEF R!Has, R!TypeOK
  <2> QED
    BY <1>2, <2>1 DEF R!Assigned, R!Row
<1>4. RowMoves
  BY <1>1, <1>2, <1>3 DEF RowMoves, R!Assign, R!Terminal, R!Open, R!InFlight
<1>5. \A t \in Tasks : issued[t] <= issued'[t]
  BY <1>1 DEF R!Assign, R!TypeOK
<1> QED
  BY <1>4, <1>5

\* A row rewritten in place: an open one stays open or ends without success.
LEMMA RewriteMoves ==
    ASSUME R!TypeOK, UNCHANGED <<seq, minted, issued>>,
           \A t \in Tasks :
              \/ rows'[t] = rows[t]
              \/ /\ rows[t].state \in R!Open
                 /\ rows'[t].state \in R!Open \cup {"failed", "cancelled"}
              \/ rows'[t].state = "absent"
    PROVE  RowMoves
  BY DEF RowMoves, R!Terminal, R!Open, R!InFlight

LEMMA LossMoves ==
    ASSUME R!TypeOK, NEW n, R!OnNodeLost(n)
    PROVE  RowMoves
<1>1. \A row \in R!Row : R!AfterLoss(row).state \in {"queued", "failed"}
  BY DEF R!AfterLoss, R!Requeued, R!Row
<1>2. \A t \in Tasks : rows'[t] = IF rows[t].state \in R!InFlight /\ rows[t].node \in {n}
                                 THEN R!AfterLoss(rows[t]) ELSE rows[t]
  BY DEF R!OnNodeLost, R!LoseNodes
<1>3. \A t \in Tasks : rows[t] \in R!Row
  BY DEF R!TypeOK
<1> QED
  BY <1>1, <1>2, <1>3, RewriteMoves DEF R!OnNodeLost, R!LoseNodes, R!Open

LEMMA RetryMoves ==
    ASSUME R!TypeOK, NEW t \in Tasks, NEW a, NEW outcome, R!Retry(t, a, outcome)
    PROVE  RowMoves
<1>1. rows[t].state \in R!Open /\ rows[t] \in R!Row
  BY DEF R!Retry, R!Reportable, R!TypeOK
<1>2. rows' = [rows EXCEPT ![t] = R!Requeued(rows[t])]
  BY DEF R!Retry
<1>3. R!Requeued(rows[t]).state = "queued"
  BY <1>1 DEF R!Requeued, R!Row
<1>4. \A u \in Tasks : \/ rows'[u] = rows[u]
                       \/ rows[u].state \in R!Open /\ rows'[u].state \in R!Open
  BY <1>1, <1>2, <1>3 DEF R!TypeOK, R!Open
<1> QED
  BY <1>4, RewriteMoves DEF R!Retry

LEMMA CancelMoves ==
    ASSUME R!TypeOK, NEW t \in Tasks, R!Cancel(t)
    PROVE  RowMoves /\ rows'[t].state = "cancelled"
<1>1. rows[t].state \in R!Open /\ rows[t] \in R!Row
  BY DEF R!Cancel, R!TypeOK
<1>2. rows'[t].state = "cancelled" /\ \A u \in Tasks \ {t} : rows'[u] = rows[u]
  BY <1>1 DEF R!Cancel, R!TypeOK, R!Row
<1> QED
  BY <1>1, <1>2, RewriteMoves DEF R!Cancel

LEMMA RemoveMoves ==
    ASSUME R!TypeOK
    PROVE  /\ \A t \in Tasks : R!Delete(t) => RowMoves /\ rows'[t].state = "absent"
           /\ R!Clear => RowMoves /\ \A t \in Tasks : rows'[t].state = "absent"
           /\ R!Restart => RowMoves
<1>1. R!NoRow.state = "absent"
  BY DEF R!NoRow
<1>2. ASSUME NEW t \in Tasks, R!Delete(t) PROVE RowMoves /\ rows'[t].state = "absent"
  <2>1. \A u \in Tasks : rows'[u] = rows[u] \/ rows'[u].state = "absent"
    BY <1>1, <1>2 DEF R!Delete, R!TypeOK
  <2>2. rows'[t].state = "absent"
    BY <1>1, <1>2 DEF R!Delete, R!TypeOK
  <2> QED
    BY <1>2, <2>1, <2>2, RewriteMoves DEF R!Delete
<1>3. ASSUME R!Clear PROVE RowMoves /\ \A t \in Tasks : rows'[t].state = "absent"
  BY <1>1, <1>3 DEF R!Clear, RowMoves, R!Open, R!InFlight, R!Terminal
<1>4. ASSUME R!Restart PROVE RowMoves
  BY <1>4 DEF R!Restart, RowMoves
<1> QED
  BY <1>2, <1>3, <1>4

\* A result that settles its task.
LEMMA CommitMoves ==
    ASSUME R!TypeOK, NEW t \in Tasks, NEW a, NEW outcome, R!Commit(t, a, outcome)
    PROVE  /\ rows[t].state \in R!Open
           /\ rows'[t].state = outcome
           /\ rows'[t].result = [by |-> a, outcome |-> outcome]
           /\ \A u \in Tasks \ {t} : rows'[u] = rows[u]
           /\ UNCHANGED <<minted, issued>>
<1>1. rows[t] \in R!Row /\ rows[t].state \in R!Open
  BY DEF R!Commit, R!Reportable, R!TypeOK
<1>2. rows' = [rows EXCEPT ![t] = [rows[t] EXCEPT !.state = outcome,
                                                   !.result = [by |-> a, outcome |-> outcome]]]
  BY <1>1 DEF R!Commit, R!TypeOK
<1> QED
  BY <1>1, <1>2 DEF R!Commit, R!TypeOK, R!Row

-----------------------------------------------------------------------------
(***************************************************************************)
(* The invariant, conjunct by conjunct                                     *)
(***************************************************************************)
\* What Router's invariant says of the rows here.
LEMMA TableFacts ==
    ASSUME RP!IInv
    PROVE  /\ R!TypeOK
           /\ \A t \in Tasks : t \notin minted => rows[t].state = "absent"
  BY SameTable DEF RP!IInv, RP!Minting, RP!Present

LEMMA TableIInv == CodeInv /\ [Next]_vars => RP!IInv'
<1> SUFFICES ASSUME CodeInv, [Next]_vars PROVE RP!IInv'
  OBVIOUS
<1>1. RP!RouterAssumption
  BY SameTable, CodeTableAssumption
<1>2. [R!Next]_table
  BY TableFacts, TableStep DEF CodeInv
<1>3. [RP!Next]_(RP!vars)
  BY <1>2, SameTable DEF RP!vars, table
<1> QED
  BY <1>1, <1>3, RP!StepIInv DEF CodeInv

\* The shapes the handler's stage can have.
LEMMA StageShape ==
    ASSUME CodeTypes
    PROVE  /\ At("decide") \/ At("record") => stage \in Verdicts
           /\ At("settle") => stage \in Settlements
           /\ stage = Idle => ~At("decide") /\ ~At("record") /\ ~At("settle")
  BY DEF CodeTypes, At, Idle, Verdicts, Settlements

\* Either no task is settled by a result, or the handler does it.
LEMMA RowStep ==
    ASSUME CodeInv, [Next]_vars
    PROVE  RowMoves \/ (/\ Decide
                        /\ R!Commit(stage.task, stage.attempt, stage.outcome)
                        /\ stage' = [stage EXCEPT !.at = "record"])
<1> USE TableFacts DEF CodeInv
<1>1. ASSUME NEW t \in Tasks, RaceSubmit(t) PROVE RowMoves
  BY <1>1, SubmitMoves, CodeEditAssumption DEF RaceSubmit
<1>2. ASSUME NEW t \in Tasks, Cancel(t) PROVE RowMoves
  BY <1>2, CancelMoves DEF Cancel
<1>3. ASSUME NEW t \in Tasks, Delete(t) PROVE RowMoves
  BY <1>3, RemoveMoves DEF Delete
<1>4. ASSUME NEW t \in Tasks, NEW a, NEW o, Verify(t, a, o) \/ VerifyDies(t, a, o) PROVE RowMoves
  BY <1>4, StillRows, RemoveMoves DEF Verify, VerifyDies, Restarted, table
<1>5. ASSUME Decide, ~(/\ R!Commit(stage.task, stage.attempt, stage.outcome)
                       /\ stage' = [stage EXCEPT !.at = "record"])
      PROVE  RowMoves
  <2>1. stage.task \in Tasks
    BY <1>5, StageShape DEF Decide, Verdicts
  <2> QED
    BY <1>5, <2>1, RetryMoves, StillRows DEF Decide
<1>6. ASSUME SettleOne PROVE RowMoves
  <2>1. stage.left \subseteq Tasks
    BY <1>6, StageShape DEF SettleOne, Settlements
  <2> QED
    BY <1>6, <2>1, CancelMoves, StillRows DEF SettleOne
<1>7. ASSUME Dispatching PROVE RowMoves
  BY <1>7, ScheduleMoves, LossMoves DEF Dispatching
<1>8. ASSUME NEW everything \in BOOLEAN, Clear(everything) PROVE RowMoves
  BY <1>8, RemoveMoves DEF Clear
<1>9. ASSUME ServerRestart PROVE RowMoves
  BY <1>9, RemoveMoves DEF ServerRestart, Restarted
<1>10. ASSUME RaceOverflow \/ RaceRegister \/ Record \/ SettleEnds \/ Resume \/ Collect
       PROVE  RowMoves
  BY <1>10, StillRows DEF RaceOverflow, RaceRegister, Record, SettleEnds, Resume, Collect
<1>11. CASE UNCHANGED vars
  BY <1>11, StillRows DEF vars
<1> QED
  BY <1>1, <1>2, <1>3, <1>4, <1>5, <1>6, <1>7, <1>8, <1>9, <1>10, <1>11 DEF Next

\* Publishing touches the files of its own task, in the same way wherever they
\* are the same.
LEMMA PublishedFacts ==
    ASSUME NEW files \in [Tasks -> SUBSET Outputs], NEW t \in Tasks, NEW o \in Outputs
    PROVE  /\ Published(files, t, o) \in [Tasks -> SUBSET Outputs]
           /\ \A u \in Tasks : Published(files, t, o)[u] = IF u = t THEN Onto(o, files[t]) ELSE files[u]
           /\ o \in files[t] => Published(files, t, o) = files
<1>1. Onto(o, files[t]) \in SUBSET Outputs
  BY DEF Onto
<1> QED
  BY <1>1 DEF Published, Onto

LEMMA TypesStep == CodeInv /\ [Next]_vars => CodeTypes'
<1> SUFFICES ASSUME CodeInv, [Next]_vars PROVE CodeTypes'
  OBVIOUS
<1> USE DEF CodeInv, CodeTypes
<1>1. ASSUME NEW t \in Tasks, RaceSubmit(t) PROVE CodeTypes'
  BY <1>1 DEF RaceSubmit, code
<1>2. ASSUME NEW t \in Tasks, Cancel(t) \/ Delete(t) PROVE CodeTypes'
  BY <1>2 DEF Cancel, Delete, Cleanup
<1>3. ASSUME NEW t \in Tasks, NEW o \in Outputs \cup {NoPatch}, NEW a \in 1..issued[t], Verify(t, a, o)
      PROVE  CodeTypes'
  <2>1. issued[t] \in Nat
    BY TableFacts DEF R!TypeOK
  <2>2. Verdict(t, a, TRUE) \in Verdicts /\ Verdict(t, a, FALSE) \in Verdicts
    BY <2>1 DEF Verdict, Verdicts
  <2>3. stage' \in Verdicts
    BY <1>3, <2>2 DEF Verify, Verdict
  <2>4. tree' \in [Tasks -> SUBSET Outputs] /\ repo' \in [Tasks -> SUBSET Outputs]
    <3>1. CASE o = NoPatch
      BY <1>3, <3>1 DEF Verify
    <3>2. CASE o \in Outputs
      <4>1. /\ Published(tree, t, o) \in [Tasks -> SUBSET Outputs]
            /\ Published(repo, t, o) \in [Tasks -> SUBSET Outputs]
        BY <3>2, PublishedFacts
      <4>2. tree' \in {tree, Published(tree, t, o)} /\ repo' \in {repo, tree', Published(repo, t, o)}
        BY <1>3 DEF Verify
      <4> QED
        BY <4>1, <4>2
    <3> QED
      BY <3>1, <3>2
  <2> QED
    BY <1>3, <2>3, <2>4 DEF Verify
<1>4. ASSUME NEW t \in Tasks, NEW o \in Outputs \cup {NoPatch}, NEW a, VerifyDies(t, a, o)
      PROVE  CodeTypes'
  <2>1. tree' \in [Tasks -> SUBSET Outputs]
    BY <1>4, PublishedFacts DEF VerifyDies
  <2> QED
    BY <1>4, <2>1 DEF VerifyDies, Restarted
<1>5. ASSUME Decide PROVE CodeTypes'
  <2>1. stage \in Verdicts
    BY <1>5, StageShape DEF Decide
  <2>2. [stage EXCEPT !.at = "record"] \in Verdicts
    BY <2>1 DEF Verdicts
  <2> QED
    BY <1>5, <2>2 DEF Decide, code
<1>6. ASSUME Record PROVE CodeTypes'
  <2>1. stage \in Verdicts
    BY <1>6, StageShape DEF Record
  <2>2. stage.task \in Tasks /\ rows[stage.task] \in R!Row
    BY <2>1, TableFacts DEF Verdicts, R!TypeOK
  <2>3. Row(stage.task) \in [state : {"absent", "none"} \cup R!Open \cup R!Terminal, sha : Nat]
    BY <2>2 DEF Row, R!Row, R!Result
  <2>4. [at |-> "settle", left |-> group \ {stage.task}] \in Settlements
    BY DEF Settlements
  <2>5. ledger' \in [Tasks -> [state : {"absent", "none"} \cup R!Open \cup R!Terminal, sha : Nat]]
    BY <1>6, <2>2, <2>3 DEF Record
  <2>6. stage' \in {Idle} \cup Settlements
    BY <1>6, <2>4 DEF Record
  <2> QED
    BY <1>6, <2>5, <2>6 DEF Record, code
<1>7. ASSUME SettleOne PROVE CodeTypes'
  <2>1. stage \in Settlements
    BY <1>7, StageShape DEF SettleOne
  <2>2. \A t : [stage EXCEPT !.left = @ \ {t}] \in Settlements
    BY <2>1 DEF Settlements
  <2>3. (stage' \in {Idle} \cup Settlements) /\ parked' \subseteq Settlements
    BY <1>7, <2>2 DEF SettleOne
  <2>4. tree' = tree /\ repo' = repo /\ dirs' \subseteq dirs /\ scarred' = scarred
    BY <1>7 DEF SettleOne, Cleanup, code
  <2> QED
    BY <1>7, <2>3, <2>4 DEF SettleOne
<1>8. ASSUME Dispatching \/ RaceOverflow \/ RaceRegister \/ SettleEnds \/ Resume
      PROVE  CodeTypes'
  BY <1>8 DEF Dispatching, RaceOverflow, RaceRegister, SettleEnds, Resume, code
<1>9. ASSUME Collect PROVE CodeTypes'
  BY <1>9 DEF Collect, Cleanup
<1>10. ASSUME NEW everything \in BOOLEAN, Clear(everything) PROVE CodeTypes'
  <2>1. NoRow \in [state : {"absent", "none"} \cup R!Open \cup R!Terminal, sha : Nat]
    BY DEF NoRow
  <2> QED
    BY <1>10, <2>1 DEF Clear, Cleanup
<1>11. ASSUME ServerRestart PROVE CodeTypes'
  BY <1>11 DEF ServerRestart, Restarted, code
<1>12. CASE UNCHANGED vars
  BY <1>12 DEF vars, code
<1> QED
  BY <1>1, <1>2, <1>3, <1>4, <1>5, <1>6, <1>7, <1>8, <1>9, <1>10, <1>11, <1>12 DEF Next
\* Only verifications and cleanups touch workspaces and the repository.
LEMMA TidyStep == CodeInv /\ [Next]_vars => Tidy'
<1> SUFFICES ASSUME CodeInv, [Next]_vars PROVE Tidy'
  OBVIOUS
<1> USE DEF Tidy
<1>0. CodeTypes /\ Tidy
  BY DEF CodeInv
<1>1. ASSUME NEW t \in Tasks, NEW o \in Outputs \cup {NoPatch}, NEW a, Verify(t, a, o)
      PROVE  Tidy'
  <2>1. dirs' \subseteq dirs /\ scarred' = scarred
    BY <1>1 DEF Verify
  <2>2. \A u \in Tasks : tree'[u] # repo'[u] => tree[u] # repo[u]
    <3>1. CASE tree' = tree /\ repo' = repo
      BY <3>1
    <3>2. CASE /\ o \in Outputs /\ tree' = Published(tree, t, o)
               /\ repo' \in {tree', Published(repo, t, o)} \/ (repo' = repo /\ o \in repo[t])
      <4>1. /\ Published(tree, t, o) \in [Tasks -> SUBSET Outputs]
            /\ \A u \in Tasks : Published(tree, t, o)[u] = IF u = t THEN Onto(o, tree[t]) ELSE tree[u]
            /\ \A u \in Tasks : Published(repo, t, o)[u] = IF u = t THEN Onto(o, repo[t]) ELSE repo[u]
        BY <1>0, <3>2, PublishedFacts DEF CodeTypes
      <4>2. CASE repo' = tree' \/ repo' = Published(repo, t, o)
        BY <3>2, <4>1, <4>2
      <4>3. CASE repo' = repo /\ o \in repo[t]
        BY <3>2, <4>1, <4>3 DEF Onto
      <4> QED
        BY <3>2, <4>2, <4>3
    <3> DEFINE published == (R!Present(t) /\ o # NoPatch) /\ Verified(o)
    <3>3. CASE published
      BY <1>1, <3>2, <3>3 DEF Verify
    <3>4. CASE ~published
      BY <1>1, <3>1, <3>4 DEF Verify
    <3> QED
      BY <3>3, <3>4
  <2> QED
    BY <1>0, <2>1, <2>2
<1>2. ASSUME NEW t \in Tasks, NEW o \in Outputs \cup {NoPatch}, NEW a, VerifyDies(t, a, o)
      PROVE  Tidy'
  <2>1. \A u \in Tasks : u # t => tree'[u] = tree[u]
    BY <1>0, <1>2, PublishedFacts DEF VerifyDies, CodeTypes
  <2> QED
    BY <1>0, <1>2, <2>1 DEF VerifyDies
<1>3. CASE UNCHANGED code
  BY <1>0, <1>3 DEF code
<1>4. ASSUME NEW gone, Cleanup(gone) PROVE Tidy'
  BY <1>0, <1>4 DEF Cleanup
<1>5. ASSUME SettleOne PROVE Tidy'
  BY <1>3, <1>4, <1>5 DEF SettleOne
<1>6. CASE \/ \E t \in Tasks : Cancel(t) \/ Delete(t)
           \/ \E everything \in BOOLEAN : Clear(everything)
           \/ Collect
  BY <1>4, <1>6 DEF Cancel, Delete, Clear, Collect
<1>7. CASE \/ \E t \in Tasks : RaceSubmit(t)
           \/ RaceOverflow \/ RaceRegister \/ Decide \/ Record \/ SettleEnds \/ Resume
           \/ Dispatching \/ ServerRestart
  BY <1>3, <1>7 DEF RaceSubmit, RaceOverflow, RaceRegister, Decide, Record, SettleEnds, Resume,
                    Dispatching, ServerRestart
<1>8. CASE UNCHANGED vars
  BY <1>3, <1>8 DEF vars
<1> QED
  BY <1>1, <1>2, <1>5, <1>6, <1>7, <1>8 DEF Next

\* Commits and scars are never undone, so what is backed stays backed.
LEMMA CommitsStay ==
    ASSUME CodeInv, [Next]_vars
    PROVE  /\ commits \subseteq commits' /\ scarred \subseteq scarred'
           /\ \A t, a : BackedBy(commits, scarred, t, a) => BackedBy(commits', scarred', t, a)
<1>1. commits \subseteq commits' /\ scarred \subseteq scarred'
  <2>1. CASE \E t \in Tasks, o \in Outputs \cup {NoPatch} : \E a \in 1..issued[t] :
                Verify(t, a, o) \/ VerifyDies(t, a, o)
    BY <2>1 DEF Verify, VerifyDies
  <2>2. CASE \/ \E t \in Tasks : Cancel(t) \/ Delete(t)
             \/ \E everything \in BOOLEAN : Clear(everything)
             \/ Collect \/ SettleOne
    BY <2>2 DEF Cancel, Delete, Clear, Collect, SettleOne, Cleanup, code
  <2>3. CASE \/ \E t \in Tasks : RaceSubmit(t)
             \/ RaceOverflow \/ RaceRegister \/ Decide \/ Record \/ SettleEnds \/ Resume
             \/ Dispatching \/ ServerRestart
    BY <2>3 DEF RaceSubmit, RaceOverflow, RaceRegister, Decide, Record, SettleEnds, Resume,
                Dispatching, ServerRestart, code
  <2>4. CASE UNCHANGED vars
    BY <2>4 DEF vars, code
  <2> QED
    BY <2>1, <2>2, <2>3, <2>4 DEF Next
<1> QED
  BY <1>1 DEF BackedBy

\* A verdict of success comes with a commit that backs it.
LEMMA VerifyBacks ==
    ASSUME CodeInv, NEW t \in Tasks, NEW o \in Outputs \cup {NoPatch}, NEW a \in 1..issued[t],
           Verify(t, a, o), stage'.outcome = "succeeded"
    PROVE  BackedBy(commits', scarred', t, a)
<1> DEFINE files == Published(tree, t, o)
<1>1. R!Present(t) /\ o \in Outputs /\ Verified(o) /\ files # repo
  BY DEF Verify, Verdict
<1>2. Commit(t, a, o) \in commits' /\ scarred' = scarred
  BY DEF Verify, Verdict
<1>3. Flaw[o] = "none"
  BY <1>1, CodeEditAssumption
     DEF Verified, Extracted, Permitted, Seeded, Applies, TestsPass
<1>4. scarred = {} => o \notin repo[t]
  <2> SUFFICES ASSUME scarred = {}, o \in repo[t] PROVE FALSE
    OBVIOUS
  <2>1. CodeTypes /\ \A u \in Tasks : tree[u] = repo[u]
    BY DEF CodeInv, Tidy
  <2>2. tree = repo
    BY <2>1 DEF CodeTypes
  <2>3. files = tree
    BY <1>1, <2>1, PublishedFacts DEF CodeTypes
  <2> QED
    BY <1>1, <2>2, <2>3
<1> QED
  BY <1>2, <1>3, <1>4 DEF BackedBy, Commit
\* Only Verify puts the handler before a verdict, and only Decide before a record.
LEMMA VerdictStep == CodeInv /\ [Next]_vars => VerdictInv'
<1> SUFFICES ASSUME CodeInv, [Next]_vars PROVE VerdictInv'
  OBVIOUS
<1>0. CodeTypes /\ VerdictInv /\ R!TypeOK
  BY TableFacts DEF CodeInv
<1>1. ASSUME NEW t \in Tasks, NEW o \in Outputs \cup {NoPatch}, NEW a \in 1..issued[t], Verify(t, a, o)
      PROVE  VerdictInv'
  <2>1. /\ stage'.at = "decide" /\ stage'.task = t /\ stage'.attempt = a
        /\ issued' = issued
    BY <1>1 DEF Verify, Verdict, table
  <2> QED
    BY <1>1, <2>1, VerifyBacks DEF VerdictInv, At
<1>2. ASSUME Decide PROVE VerdictInv'
  <2>1. stage \in Verdicts
    BY <1>0, <1>2, StageShape DEF Decide
  <2>2. CASE R!Commit(stage.task, stage.attempt, stage.outcome) /\ stage' = [stage EXCEPT !.at = "record"]
    <3>1. stage'.at = "record" /\ stage'.task = stage.task /\ stage.task \in Tasks
      BY <2>1, <2>2 DEF Verdicts
    <3>2. /\ rows'[stage.task].state = stage.outcome
          /\ rows'[stage.task].result = [by |-> stage.attempt, outcome |-> stage.outcome]
      <4>1. R!TypeOK /\ stage.task \in Tasks /\ R!Commit(stage.task, stage.attempt, stage.outcome)
        BY <1>0, <2>2, <3>1
      <4> QED
        BY <4>1, CommitMoves
    <3>3. rows'[stage.task].state \in R!Terminal
      BY <2>1, <3>2 DEF Verdicts, R!Terminal
    <3> QED
      BY <3>1, <3>3 DEF VerdictInv, At
  <2>3. CASE stage' = Idle
    BY <2>3 DEF VerdictInv, At, Idle
  <2> QED
    BY <1>2, <2>2, <2>3 DEF Decide
<1>3. ASSUME stage' = Idle \/ (stage' \in Settlements) PROVE VerdictInv'
  BY <1>3 DEF VerdictInv, At, Idle, Settlements
<1>4. ASSUME Record \/ SettleOne \/ SettleEnds \/ Resume PROVE VerdictInv'
  <2>1. stage' = Idle \/ (stage' \in Settlements)
    <3>1. CASE SettleOne
      <4>1. stage \in Settlements
        BY <1>0, <3>1, StageShape DEF SettleOne
      <4>2. \A t : [stage EXCEPT !.left = @ \ {t}] \in Settlements
        BY <4>1 DEF Settlements
      <4> QED
        BY <3>1, <4>2 DEF SettleOne
    <3>2. CASE Record
      BY <1>0, <3>2 DEF Record, CodeTypes, Settlements
    <3>3. CASE SettleEnds \/ Resume
      BY <1>0, <3>3 DEF SettleEnds, Resume, CodeTypes
    <3> QED
      BY <1>4, <3>1, <3>2, <3>3
  <2> QED
    BY <1>3, <2>1
<1>5. ASSUME stage = Idle, stage' = stage PROVE VerdictInv'
  BY <1>3, <1>5
<1>6. CASE \/ \E t \in Tasks : RaceSubmit(t) \/ Cancel(t) \/ Delete(t)
           \/ RaceOverflow \/ RaceRegister \/ Dispatching \/ Collect
           \/ \E everything \in BOOLEAN : Clear(everything)
  BY <1>5, <1>6 DEF RaceSubmit, Cancel, Delete, RaceOverflow, RaceRegister, Dispatching, Collect, Clear
<1>7. ASSUME NEW t \in Tasks, NEW o, NEW a, VerifyDies(t, a, o) PROVE VerdictInv'
  BY <1>3, <1>7 DEF VerifyDies, Reports, Restarted
<1>8. ASSUME ServerRestart PROVE VerdictInv'
  BY <1>3, <1>8 DEF ServerRestart, Restarted
<1>9. CASE UNCHANGED vars
  BY <1>0, <1>9 DEF vars, table, code, VerdictInv, At, BackedBy
<1> QED
  BY <1>1, <1>2, <1>4, <1>6, <1>7, <1>8, <1>9 DEF Next

\* The only way to an accepted row is the commit of a verdict of success.
LEMMA AcceptedStep == CodeInv /\ [Next]_vars => AcceptedVerified'
<1> SUFFICES ASSUME CodeInv, [Next]_vars, NEW t \in Tasks, rows'[t].state = "succeeded"
             PROVE  BackedBy(commits', scarred', t, rows'[t].result.by)
  BY DEF AcceptedVerified, BackedBy
<1>0. CodeTypes /\ VerdictInv /\ R!TypeOK
  BY TableFacts DEF CodeInv
<1>1. CASE rows'[t] = rows[t]
  <2>1. BackedBy(commits, scarred, t, rows[t].result.by)
    BY <1>1 DEF CodeInv, AcceptedVerified, BackedBy
  <2> QED
    BY <1>1, <2>1, CommitsStay DEF BackedBy
<1>2. CASE RowMoves
  BY <1>1, <1>2 DEF RowMoves
<1>3. CASE Decide /\ R!Commit(stage.task, stage.attempt, stage.outcome)
  <2>1. At("decide") /\ stage \in Verdicts
    BY <1>0, <1>3, StageShape DEF Decide
  <2>2. stage.task \in Tasks
    BY <2>1 DEF Verdicts
  <2>3. CASE t = stage.task
    <3>0. /\ rows'[stage.task].state = stage.outcome
          /\ rows'[stage.task].result = [by |-> stage.attempt, outcome |-> stage.outcome]
      BY <1>0, <1>3, <2>2, CommitMoves
    <3>1. stage.outcome = "succeeded" /\ rows'[t].result.by = stage.attempt
      BY <2>3, <3>0
    <3>2. BackedBy(commits, scarred, t, stage.attempt)
      BY <1>0, <2>1, <2>3, <3>1 DEF VerdictInv
    <3> QED
      BY <3>1, <3>2, CommitsStay DEF BackedBy
  <2>4. CASE t # stage.task
    BY <1>0, <1>1, <1>3, <2>2, <2>4, CommitMoves
  <2> QED
    BY <2>3, <2>4
<1> QED
  BY <1>2, <1>3, RowStep

\* The row of the ledger is written from a settled row, which stays or goes.
LEMMA LedgerStep == CodeInv /\ [Next]_vars => LedgerSettled' /\ LedgerTruthful'
<1> SUFFICES ASSUME CodeInv, [Next]_vars, NEW t \in Tasks, ledger'[t] # NoRow
             PROVE  /\ t \in minted'
                    /\ R!Present(t)' => /\ rows'[t].state \in R!Terminal
                                       /\ ledger'[t] = Row(t)'
                    /\ Accepted(ledger'[t]) =>
                          \E c \in commits' : c.task = t /\ c.attempt = ledger'[t].sha
  BY DEF LedgerSettled, LedgerTruthful, Accepted, R!Terminal
<1>0. CodeTypes /\ VerdictInv /\ R!TypeOK /\ \A u \in Tasks : u \notin minted => rows[u].state = "absent"
  BY TableFacts DEF CodeInv
<1>1. CASE ledger'[t] = ledger[t]
  <2>1. /\ t \in minted
        /\ R!Present(t) => rows[t].state \in R!Terminal /\ ledger[t] = Row(t)
        /\ Accepted(ledger[t]) => \E c \in commits : c.task = t /\ c.attempt = ledger[t].sha
    BY <1>1 DEF CodeInv, LedgerSettled, LedgerTruthful
  <2>2. Accepted(ledger'[t]) => \E c \in commits' : c.task = t /\ c.attempt = ledger'[t].sha
    BY <1>1, <2>1, CommitsStay
  <2>3. CASE RowMoves
    <3>1. t \in minted'
      BY <2>1, <2>3 DEF RowMoves
    <3>2. ASSUME R!Present(t)' PROVE R!Present(t) /\ rows'[t] = rows[t]
      BY <2>1, <2>3, <3>2 DEF RowMoves, R!Present
    <3> QED
      BY <1>1, <2>1, <2>2, <3>1, <3>2 DEF Row
  <2>4. CASE Decide /\ R!Commit(stage.task, stage.attempt, stage.outcome)
    <3>1. stage \in Verdicts
      BY <1>0, <2>4, StageShape DEF Decide
    <3>2. stage.task \in Tasks
      BY <3>1 DEF Verdicts
    <3>3. t # stage.task
      <4> SUFFICES ASSUME t = stage.task PROVE FALSE
        OBVIOUS
      <4>1. rows[t].state \in R!Open
        BY <1>0, <2>4, <3>2, CommitMoves
      <4> QED
        BY <2>1, <4>1 DEF R!Present, R!Open, R!InFlight, R!Terminal
    <3>4. rows'[t] = rows[t] /\ minted' = minted
      BY <1>0, <2>4, <3>2, <3>3, CommitMoves
    <3> QED
      BY <1>1, <2>1, <2>2, <3>4 DEF R!Present, Row
  <2> QED
    BY <2>3, <2>4, RowStep
<1>2. CASE Record
  <2>1. At("record") /\ stage \in Verdicts
    BY <1>0, <1>2, StageShape DEF Record
  <2>2. stage.task \in Tasks /\ UNCHANGED table
    BY <1>2, <2>1 DEF Verdicts, Record
  <2>3. SUFFICES ASSUME ledger'[t] # ledger[t] PROVE
                    /\ t \in minted'
                    /\ R!Present(t)' => /\ rows'[t].state \in R!Terminal
                                       /\ ledger'[t] = Row(t)'
                    /\ Accepted(ledger'[t]) =>
                          \E c \in commits' : c.task = t /\ c.attempt = ledger'[t].sha
    BY <1>1
  <2>4. t = stage.task /\ ledger'[t] = Row(t)
    BY <1>0, <1>2, <2>2, <2>3 DEF Record, CodeTypes
  <2>5. rows[t].state \in R!Terminal
    BY <1>0, <2>1, <2>4 DEF VerdictInv
  <2>6. t \in minted
    BY <1>0, <2>5 DEF R!Terminal
  <2>7. Row(t)' = Row(t) /\ rows' = rows /\ minted' = minted
    BY <2>2 DEF Row, table
  <2>8. ASSUME Accepted(Row(t))
        PROVE  \E c \in commits' : c.task = t /\ c.attempt = Row(t).sha
    <3>1. rows[t].state = "succeeded" /\ Row(t).sha = rows[t].result.by
      BY <2>8 DEF Accepted, Row
    <3>2. \E c \in commits : c.task = t /\ c.attempt = rows[t].result.by
      BY <3>1 DEF CodeInv, AcceptedVerified
    <3> QED
      BY <3>1, <3>2, CommitsStay
  <2> QED
    BY <2>4, <2>5, <2>6, <2>7, <2>8
<1>3. CASE \E everything \in BOOLEAN : Clear(everything)
  BY <1>0, <1>1, <1>3 DEF Clear, CodeTypes
<1>4. CASE ledger' = ledger
  BY <1>1, <1>4
<1>5. CASE \/ \E u \in Tasks : RaceSubmit(u) \/ Cancel(u) \/ Delete(u)
           \/ \E u \in Tasks, o \in Outputs \cup {NoPatch} : \E a \in 1..issued[u] :
                 Verify(u, a, o) \/ VerifyDies(u, a, o)
  BY <1>4, <1>5 DEF RaceSubmit, Cancel, Delete, Verify, VerifyDies, Restarted
<1>6. CASE \/ RaceOverflow \/ RaceRegister \/ Dispatching \/ Collect \/ Decide
           \/ SettleOne \/ SettleEnds \/ Resume \/ ServerRestart
  BY <1>4, <1>6 DEF RaceOverflow, RaceRegister, Dispatching, Collect, Decide, SettleOne,
                    SettleEnds, Resume, ServerRestart, Restarted
<1>7. CASE UNCHANGED vars
  BY <1>4, <1>7 DEF vars
<1> QED
  BY <1>2, <1>3, <1>5, <1>6, <1>7 DEF Next

\* No step opens a task that was handed out and is not open: submitting mints.
LEMMA NothingReopens ==
    ASSUME CodeInv, [Next]_vars
    PROVE  /\ minted \subseteq minted'
           /\ \A t \in minted : rows'[t].state \in R!Open => rows[t].state \in R!Open
<1>0. CodeTypes /\ R!TypeOK
  BY TableFacts DEF CodeInv
<1>1. CASE RowMoves
  BY <1>0, <1>1 DEF RowMoves, R!TypeOK
<1>2. CASE Decide /\ R!Commit(stage.task, stage.attempt, stage.outcome)
  <2>1. stage \in Verdicts
    BY <1>0, <1>2, StageShape DEF Decide
  <2>2. stage.task \in Tasks
    BY <2>1 DEF Verdicts
  <2>3. /\ rows[stage.task].state \in R!Open
        /\ \A t \in Tasks \ {stage.task} : rows'[t] = rows[t]
        /\ minted' = minted
    BY <1>0, <1>2, <2>2, CommitMoves
  <2> QED
    BY <1>0, <2>3 DEF R!TypeOK
<1> QED
  BY <1>1, <1>2, RowStep

\* What a settlement has closed stays closed, also while it is suspended.
LEMMA ClosingStays ==
    ASSUME CodeInv, [Next]_vars, group' \subseteq group, NEW rest, NEW after, Closing(rest),
           rest.left \ after.left \subseteq {t \in Tasks : rows'[t].state \notin R!Open}
    PROVE  \A t \in group' \ after.left : rows'[t].state \notin R!Open
<1>1. group \subseteq minted
  BY DEF CodeInv, SettlementInv
<1> QED
  BY <1>1, NothingReopens DEF Closing

LEMMA SettlementStep == CodeInv /\ [Next]_vars => SettlementInv'
<1> SUFFICES ASSUME CodeInv, [Next]_vars PROVE SettlementInv'
  OBVIOUS
<1>0. CodeTypes /\ SettlementInv /\ R!TypeOK /\ minted \subseteq minted'
  BY TableFacts, NothingReopens DEF CodeInv
\* Steps that neither begin nor continue a settlement.
<1>1. ASSUME group' \subseteq group, parked' \subseteq parked,
             stage' = stage \/ ~At("settle")',
             race' = race \/ race' = "over" \/ (group' = {} /\ parked' = {} /\ ~At("settle")')
      PROVE  SettlementInv'
  <2>1. group' \subseteq minted'
    BY <1>0, <1>1 DEF SettlementInv
  <2>2. At("settle")' => At("settle") /\ stage' = stage
    BY <1>1 DEF At
  <2>3. (group' # {} \/ parked' # {} \/ At("settle")') => race' \in {"registered", "over"}
    BY <1>0, <1>1, <2>2 DEF SettlementInv
  <2>4. At("settle")' => Closing(stage)'
    BY <1>0, <1>1, <2>2, ClosingStays DEF SettlementInv, Closing
  <2>5. \A rest \in parked' : \A t \in group' \ rest.left : rows'[t].state \notin R!Open
    BY <1>0, <1>1, ClosingStays DEF SettlementInv
  <2> QED
    BY <2>1, <2>3, <2>4, <2>5 DEF SettlementInv, Closing
<1>2. ASSUME NEW t \in Tasks, RaceSubmit(t) PROVE SettlementInv'
  BY <1>0, <1>1, <1>2 DEF RaceSubmit, SettlementInv, At, Idle
<1>3. ASSUME RaceRegister PROVE SettlementInv'
  <2>1. parked = {} /\ ~At("settle")
    BY <1>0, <1>3 DEF RaceRegister, SettlementInv
  <2> QED
    BY <1>0, <1>3, <2>1 DEF RaceRegister, SettlementInv, At, table
<1>4. ASSUME NEW t \in Tasks, NEW o, NEW a, Verify(t, a, o) \/ VerifyDies(t, a, o)
      PROVE  SettlementInv'
  BY <1>1, <1>4 DEF Verify, VerifyDies, Verdict, Restarted, At, Idle
<1>5. ASSUME Decide PROVE SettlementInv'
  <2>1. stage \in Verdicts
    BY <1>0, <1>5, StageShape DEF Decide
  <2>2. ~At("settle")'
    BY <1>5, <2>1 DEF Decide, At, Idle, Verdicts
  <2> QED
    BY <1>1, <1>5, <2>2 DEF Decide
<1>6. ASSUME Record PROVE SettlementInv'
  <2>1. At("record") /\ UNCHANGED <<rows, minted, group, parked, race>>
    BY <1>6 DEF Record, table
  <2>2. CASE group # {} /\ Accepted(Row(stage.task))
    <3>1. stage' = [at |-> "settle", left |-> group \ {stage.task}]
      BY <1>6, <2>2 DEF Record
    <3>2. rows[stage.task].state \notin R!Open
      BY <2>2 DEF Accepted, Row, R!Open, R!InFlight
    <3>3. Closing(stage')
      BY <3>1, <3>2 DEF Closing
    <3>4. Closing(stage)'
      BY <2>1, <3>3 DEF Closing
    <3> QED
      BY <1>0, <2>1, <2>2, <3>1, <3>4 DEF SettlementInv, Closing, At
  <2>3. CASE ~(group # {} /\ Accepted(Row(stage.task)))
    <3>1. stage' = Idle
      BY <1>6, <2>3 DEF Record
    <3> QED
      BY <1>1, <2>1, <3>1 DEF At, Idle
  <2> QED
    BY <2>2, <2>3
<1>7. ASSUME SettleOne PROVE SettlementInv'
  <2>1. /\ At("settle") /\ stage \in Settlements
        /\ UNCHANGED <<group, race>>
    BY <1>0, <1>7, StageShape DEF SettleOne
  <2>2. PICK t \in stage.left :
          LET rest == [stage EXCEPT !.left = @ \ {t}]
          IN  \/ /\ R!Cancel(t) /\ Cleanup({t})
                 /\ \/ stage' = rest /\ UNCHANGED parked
                    \/ /\ rows[t].state \in R!InFlight
                       /\ stage' = Idle /\ parked' = parked \cup {rest}
              \/ /\ rows[t].state \notin R!Open
                 /\ stage' = rest
                 /\ UNCHANGED <<table, code, parked>>
    BY <1>7 DEF SettleOne
  <2> DEFINE rest == [stage EXCEPT !.left = @ \ {t}]
  <2>3. t \in Tasks /\ rest.left = stage.left \ {t} /\ rest.at = "settle"
    BY <2>1 DEF Settlements, At
  <2>4. rows'[t].state \notin R!Open
    <3>1. CASE R!Cancel(t)
      BY <1>0, <2>3, <3>1, CancelMoves DEF R!Open, R!InFlight
    <3>2. CASE rows[t].state \notin R!Open /\ UNCHANGED table
      BY <3>2 DEF table
    <3> QED
      BY <2>2, <3>1, <3>2
  <2>5. \A u \in group' \ rest.left : rows'[u].state \notin R!Open
    BY <1>0, <2>1, <2>3, <2>4, ClosingStays DEF SettlementInv
  <2>6. \A r \in parked : \A u \in group' \ r.left : rows'[u].state \notin R!Open
    BY <1>0, <2>1, ClosingStays DEF SettlementInv
  <2>7. /\ stage' = rest \/ stage' = Idle
        /\ parked' = parked \/ parked' = parked \cup {rest}
    BY <2>2
  <2>8. At("settle")' => stage' = rest
    BY <2>7 DEF At, Idle
  <2> HIDE DEF rest
  <2> QED
    BY <1>0, <2>1, <2>5, <2>6, <2>7, <2>8 DEF SettlementInv, Closing
<1>8. ASSUME SettleEnds PROVE SettlementInv'
  BY <1>1, <1>8 DEF SettleEnds, At, Idle
<1>9. ASSUME Resume PROVE SettlementInv'
  BY <1>0, <1>9 DEF Resume, SettlementInv, Closing, table, At
<1>10. ASSUME NEW t \in Tasks, Cancel(t) \/ Delete(t) PROVE SettlementInv'
  BY <1>1, <1>10 DEF Cancel, Delete
<1>11. ASSUME RaceOverflow \/ Dispatching \/ Collect PROVE SettlementInv'
  BY <1>1, <1>11 DEF RaceOverflow, Dispatching, Collect
<1>12. ASSUME NEW everything \in BOOLEAN, Clear(everything) PROVE SettlementInv'
  BY <1>1, <1>12 DEF Clear
<1>13. ASSUME ServerRestart PROVE SettlementInv'
  BY <1>1, <1>13 DEF ServerRestart, Restarted, At, Idle
<1>14. CASE UNCHANGED vars
  BY <1>1, <1>14 DEF vars
<1> QED
  BY <1>2, <1>3, <1>4, <1>5, <1>6, <1>7, <1>8, <1>9, <1>10, <1>11, <1>12, <1>13, <1>14 DEF Next

-----------------------------------------------------------------------------
(***************************************************************************)
(* The invariant holds, and what follows                                   *)
(***************************************************************************)
LEMMA InitCodeInv == Init => CodeInv
<1> SUFFICES ASSUME Init PROVE CodeInv
  OBVIOUS
<1>1. RP!IInv
  <2>1. RP!RouterAssumption
    BY SameTable, CodeTableAssumption
  <2>2. RP!Init
    BY SameTable DEF Init
  <2> QED
    BY <2>1, <2>2, RP!InitIInv
<1>2. CodeTypes
  BY DEF Init, CodeTypes, NoRow
<1>3. \A t \in Tasks : rows[t].state = "absent"
  BY DEF Init, R!Init, R!NoRow
<1> QED
  BY <1>1, <1>2, <1>3
     DEF Init, CodeInv, Tidy, VerdictInv, AcceptedVerified, LedgerSettled, LedgerTruthful,
         SettlementInv, At, Idle

LEMMA StepCodeInv == CodeInv /\ [Next]_vars => CodeInv'
<1> SUFFICES ASSUME CodeInv, [Next]_vars PROVE CodeInv'
  OBVIOUS
<1>1. RP!IInv' /\ CodeTypes' /\ Tidy'
  BY TableIInv, TypesStep, TidyStep
<1>2. VerdictInv' /\ AcceptedVerified'
  BY VerdictStep, AcceptedStep
<1>3. LedgerSettled' /\ LedgerTruthful' /\ SettlementInv'
  BY LedgerStep, SettlementStep
<1> QED
  BY <1>1, <1>2, <1>3 DEF CodeInv

LEMMA InvariantCodeInv == Spec => []CodeInv
  BY InitCodeInv, StepCodeInv, PTL DEF Spec

\* Harness, ledger and races drive the table by nothing but Router's methods,
\* so every theorem about Router is one about the server that edits code.
THEOREM TableImplementsRouter == Spec => R!Spec
<1>1. Init => R!Init
  BY DEF Init
<1>2. CodeInv /\ [Next]_vars => [R!Next]_(R!vars)
  BY TableFacts, TableStep DEF CodeInv, table, R!vars
<1> QED
  BY <1>1, <1>2, InvariantCodeInv, PTL DEF Spec, R!Spec

\* What run_code_verification and commit_paths leave in code-repo is committed,
\* and no workspace outlives the handler that made it, unless the handler died.
THEOREM VerificationTidy == Spec => []Tidy
  BY InvariantCodeInv, PTL DEF CodeInv

\* on_result accepts a code task only after its own last attempt's patch passed
\* the tests and was committed by _verify_code_result.
THEOREM AcceptedIsVerified == Spec => []AcceptedVerified
  BY InvariantCodeInv, PTL DEF CodeInv

\* Ledger.record writes what the table decided, and nothing the table does later
\* makes the row false.
THEOREM LedgerIsTruthful == Spec => []LedgerTruthful
  BY InvariantCodeInv, PTL DEF CodeInv

\* Between the commit of on_result and the row of Ledger.record only a death of
\* the process comes in.
THEOREM AcceptedIsRecorded == Spec => EveryAcceptedRecorded
<1>1. ASSUME CodeInv, [Next]_vars, NEW t \in Tasks, Unrecorded(t)', ~Restarted
      PROVE  Unrecorded(t)
  <2>0. CodeTypes /\ R!TypeOK
    BY <1>1, TableFacts DEF CodeInv
  <2>1. /\ rows'[t].state = "succeeded" /\ ledger'[t] = NoRow
        /\ ~(stage'.at = "record" /\ stage'.task = t)
    BY <1>1 DEF Unrecorded, At
  <2>2. SUFFICES /\ rows[t].state = "succeeded" /\ ledger[t] = NoRow
                 /\ ~(At("record") /\ stage.task = t)
    BY DEF Unrecorded
  <2>3. rows'[t] = rows[t]
    <3>1. CASE RowMoves
      BY <2>1, <3>1 DEF RowMoves
    <3>2. CASE /\ Decide
               /\ R!Commit(stage.task, stage.attempt, stage.outcome)
               /\ stage' = [stage EXCEPT !.at = "record"]
      <4>1. stage \in Verdicts
        BY <2>0, <3>2, StageShape DEF Decide
      <4>2. stage'.at = "record" /\ stage'.task = stage.task /\ stage.task \in Tasks
        BY <3>2, <4>1 DEF Verdicts
      <4>3. stage.task # t
        BY <2>1, <4>2
      <4> QED
        BY <2>0, <3>2, <4>2, <4>3, CommitMoves
    <3> QED
      BY <1>1, <3>1, <3>2, RowStep
  <2>4. CASE Record
    <3>1. stage \in Verdicts /\ At("record")
      BY <2>0, <2>4, StageShape DEF Record
    <3>2. Row(t) # NoRow
      BY <2>1, <2>3 DEF Row, NoRow
    <3>3. stage.task # t /\ ledger'[t] = ledger[t]
      BY <2>0, <2>1, <2>4, <3>1, <3>2 DEF Record, CodeTypes, Verdicts
    <3> QED
      BY <2>1, <2>3, <3>3
  <2>5. CASE ledger' = ledger /\ ~At("record")
    BY <2>1, <2>3, <2>5
  <2>6. CASE stage = Idle /\ ledger' = ledger
    BY <2>0, <2>5, <2>6, StageShape
  <2>7. CASE RaceOverflow \/ RaceRegister \/ Resume \/ Dispatching \/ Collect
    BY <2>6, <2>7 DEF RaceOverflow, RaceRegister, Resume, Dispatching, Collect
  <2>8. ASSUME NEW u \in Tasks, RaceSubmit(u) \/ Cancel(u) \/ Delete(u)
         PROVE  rows[t].state = "succeeded" /\ ledger[t] = NoRow /\ ~(At("record") /\ stage.task = t)
    BY <2>6, <2>8 DEF RaceSubmit, Cancel, Delete
  <2>9. ASSUME NEW u, NEW o, NEW a, Verify(u, a, o) \/ VerifyDies(u, a, o)
         PROVE  rows[t].state = "succeeded" /\ ledger[t] = NoRow /\ ~(At("record") /\ stage.task = t)
    BY <1>1, <2>6, <2>9 DEF Verify, VerifyDies, Reports
  <2>10. CASE Decide \/ SettleOne \/ SettleEnds
    BY <2>5, <2>10 DEF Decide, SettleOne, SettleEnds, At
  <2>11. ASSUME NEW everything \in BOOLEAN, Clear(everything) PROVE FALSE
    BY <2>0, <2>1, <2>11, RemoveMoves DEF Clear
  <2>12. CASE ServerRestart
    BY <1>1, <2>12 DEF ServerRestart
  <2>13. CASE UNCHANGED vars
    BY <2>1, <2>3, <2>13 DEF vars, At
  <2> QED
    BY <1>1, <2>4, <2>7, <2>8, <2>9, <2>10, <2>11, <2>12, <2>13 DEF Next
<1>2. CodeInv /\ [Next]_vars =>
        [\A t \in Tasks : Unrecorded(t)' => Unrecorded(t) \/ Restarted]_vars
  BY <1>1
<1> QED
  BY <1>2, InvariantCodeInv, PTL DEF Spec, EveryAcceptedRecorded

\* The settlement, the collector and delete_task remove a race_groups entry only
\* once no member is queued or in flight, though settlements overlap in a send.
THEOREM RaceIsClosed == Spec => RaceClosed
<1>1. ASSUME CodeInv, [Next]_vars, group # {}, group' = {}, ~Restarted, NEW t \in group
      PROVE  rows'[t].state \notin R!Open
  <2>0. CodeTypes /\ SettlementInv /\ R!TypeOK /\ t \in Tasks
    BY <1>1, TableFacts DEF CodeInv, CodeTypes
  <2>1. ASSUME NEW u \in Tasks, Delete(u) PROVE rows'[t].state \notin R!Open
    <3>1. t = u /\ R!Delete(u)
      BY <1>1, <2>1 DEF Delete
    <3>2. rows'[t].state = "absent"
      BY <2>0, <3>1, RemoveMoves
    <3> QED
      BY <3>2 DEF R!Open, R!InFlight
  <2>2. ASSUME NEW everything \in BOOLEAN, Clear(everything) PROVE rows'[t].state \notin R!Open
    <3>1. rows'[t].state = "absent"
      BY <2>0, <2>2, RemoveMoves DEF Clear
    <3> QED
      BY <3>1 DEF R!Open, R!InFlight
  <2>3. CASE SettleEnds
    <3>1. Closing(stage) /\ stage.left = {} /\ rows' = rows
      BY <2>0, <2>3 DEF SettleEnds, SettlementInv, table
    <3> QED
      BY <3>1 DEF Closing
  <2>4. CASE Collect
    <3>1. group \cap R!Has(R!Open) = {} /\ rows' = rows
      BY <1>1, <2>4 DEF Collect, table
    <3> QED
      BY <2>0, <3>1 DEF R!Has
  <2>5. CASE RaceRegister
    BY <1>1, <2>0, <2>5 DEF RaceRegister, SettlementInv
  <2>6. ASSUME NEW u \in Tasks, RaceSubmit(u) \/ Cancel(u) PROVE FALSE
    BY <1>1, <2>6 DEF RaceSubmit, Cancel
  <2>7. ASSUME NEW u, NEW o, NEW a, Verify(u, a, o) \/ VerifyDies(u, a, o) PROVE FALSE
    BY <1>1, <2>7 DEF Verify, VerifyDies
  <2>8. CASE RaceOverflow \/ Decide \/ Record \/ SettleOne \/ Resume \/ Dispatching
    BY <1>1, <2>8 DEF RaceOverflow, Decide, Record, SettleOne, Resume, Dispatching
  <2>9. CASE ServerRestart \/ UNCHANGED vars
    BY <1>1, <2>9 DEF ServerRestart, vars
  <2> QED
    BY <1>1, <2>1, <2>2, <2>3, <2>4, <2>5, <2>6, <2>7, <2>8, <2>9 DEF Next
<1>2. CodeInv /\ [Next]_vars =>
        [group # {} /\ group' = {} /\ ~Restarted =>
            \A t \in group : rows'[t].state \notin R!Open]_vars
  BY <1>1
<1> QED
  BY <1>2, InvariantCodeInv, PTL DEF Spec, RaceClosed
=============================================================================
