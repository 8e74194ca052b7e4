------------------------------ MODULE CodeEdit ------------------------------
(***************************************************************************)
(* Verified code edits (scheduler/server.py): a RESULT of a code task is   *)
(* verified in an ephemeral workspace, committed to the code repository,   *)
(* offered to the task table, recorded in the ledger, and, if it wins a    *)
(* race, followed by the cancellation of its siblings.                     *)
(*                                                                         *)
(* The stages of the handler are steps of their own, so that a crash can   *)
(* fall between two commits; other handlers run only between handlers,     *)
(* except while a send of the race settlement is suspended.  Scheduling    *)
(* and node loss are those of Router, at any time; Dispatch has the        *)
(* callers.                                                                *)
(***************************************************************************)
EXTENDS Naturals, FiniteSets

CONSTANTS
    Tasks, Keys, Nodes, NoNode, NoKey, Slots, Eligible, MaxAttempts, QueueCap,  \* see Router
    KeyOf,       \* KeyOf[t]: "race:<id>:<i>", one key per member
    Outputs,     \* what models answer
    Flaw,        \* Flaw[o]: the stage of the harness that rejects o, or "none"
    Keeps,       \* Keeps[o]: the outputs whose files are all still there when those
                 \* of o have been written: they only add some, and o has none of them
    NoPatch      \* no output: the report of a failure

ASSUME CodeEditAssumption ==
    /\ KeyOf \in [Tasks -> Keys]
    /\ Flaw \in [Outputs -> {"none", "diff", "guard", "seed", "conflict", "tests"}]
    /\ Keeps \in [Outputs -> SUBSET Outputs]
    /\ NoPatch \notin Outputs

VARIABLES
    rows, seq, minted, issued,  \* the task table, see Router
    reported,   \* attempts that have sent their RESULT
    tree,       \* tree[t]: the patches whose files are all under t/ in code-repo
    repo,       \* repo[t]: the same in its head commit
    dirs,       \* tasks with a directory in workspaces/
    commits,    \* commits of code-repo, by the attempt that caused them
    ledger,     \* ledger[t]: its ledger row
    race,       \* where POST /v1/code/race is: idle, submitting, registered, over
    group,      \* race_groups[race_id], {} when there is no entry
    stage,      \* the RESULT handler that has the event loop
    parked,     \* settlements suspended in the send of a REVOKE
    scarred     \* history: tasks in whose verification a handler died

table == <<rows, seq, minted, issued>>
code  == <<tree, repo, dirs, commits, scarred>>
vars  == <<table, reported, code, ledger, race, group, stage, parked>>

R == INSTANCE Router

ASSUME CodeTableAssumption == R!RouterAssumption

NoRow == [state |-> "none", sha |-> 0]
Idle  == [at |-> "idle"]

Init ==
    /\ R!Init
    /\ reported = {}
    /\ tree = [t \in Tasks |-> {}]
    /\ repo = [t \in Tasks |-> {}]
    /\ dirs = {}
    /\ commits = {}
    /\ scarred = {}
    /\ ledger = [t \in Tasks |-> NoRow]
    /\ race = "idle"
    /\ group = {}
    /\ stage = Idle
    /\ parked = {}

-----------------------------------------------------------------------------
(***************************************************************************)
(* POST /v1/code/race: the members are submitted one by one, each followed *)
(* by a scheduling pass that may suspend; the group is registered last.    *)
(***************************************************************************)
RaceSubmit(t) ==
    /\ stage = Idle
    /\ race \in {"idle", "submitting"}
    /\ R!Submit(t, KeyOf[t])
    /\ race' = "submitting"
    /\ UNCHANGED <<reported, code, ledger, group, stage, parked>>

\* A full queue (of other tasks too, which are not modelled) answers 429 and ends
\* the request; the members submitted stay.
RaceOverflow ==
    /\ stage = Idle
    /\ race \in {"idle", "submitting"} /\ minted # Tasks
    /\ race' = "over"
    /\ UNCHANGED <<table, reported, code, ledger, group, stage, parked>>

RaceRegister ==
    /\ stage = Idle
    /\ race = "submitting" /\ minted = Tasks
    /\ race' = "registered"
    /\ group' = Tasks
    /\ UNCHANGED <<table, reported, code, ledger, stage, parked>>

-----------------------------------------------------------------------------
(***************************************************************************)
(* The RESULT handler                                                      *)
(***************************************************************************)
At(name) == stage.at = name

\* The stages of the harness (scheduler/harness.py, scheduler/workspaces.py):
\* one fenced diff; size, paths and test command allowed; the snapshot written;
\* the patch applied; the tests run.
Extracted(o) == Flaw[o] # "diff"
Permitted(o) == Flaw[o] # "guard"
Seeded(o)    == Flaw[o] # "seed"
Applies(o)   == Flaw[o] # "conflict"
TestsPass(o) == Flaw[o] # "tests"

Verified(o) == Extracted(o) /\ Permitted(o) /\ Seeded(o) /\ Applies(o) /\ TestsPass(o)

\* The files of a verified workspace are written over those that are there; none is
\* removed.
Onto(o, patches) == IF o \in patches THEN patches ELSE {o} \cup (patches \cap Keeps[o])
Published(files, t, o) == [files EXCEPT ![t] = Onto(o, @)]

Commit(t, a, o) == [task |-> t, attempt |-> a, patch |-> o, fresh |-> o \notin repo[t]]

\* The attempt reports now, once.
Reports(t, a) ==
    /\ stage = Idle
    /\ a \in 1..issued[t] /\ <<t, a>> \notin reported
    /\ reported' = reported \cup {<<t, a>>}

Verdict(t, a, ok) ==
    [at |-> "decide", task |-> t, attempt |-> a, outcome |-> IF ok THEN "succeeded" ELSE "failed"]

\* Mutant: a commit that changes nothing still counts as verified.
Verify_EmptyAccepted(t, a, o) ==
    LET examined == R!Present(t) /\ o # NoPatch
        files == IF examined /\ Verified(o) THEN Published(tree, t, o) ELSE tree
        ok == examined /\ Verified(o)
    IN  /\ Reports(t, a)
        /\ tree' = files
        /\ repo' = IF files # repo THEN files ELSE repo
        /\ commits' = IF ok /\ files # repo THEN commits \cup {Commit(t, a, o)} ELSE commits
        /\ dirs' = IF examined THEN dirs \ {t} ELSE dirs
        /\ stage' = Verdict(t, a, ok)
        /\ UNCHANGED <<table, ledger, race, group, parked, scarred>>

\* Mutant: the files are published before the tests run.
Verify_PublishFirst(t, a, o) ==
    LET examined == R!Present(t) /\ o # NoPatch
        files == IF examined /\ Applies(o) THEN Published(tree, t, o) ELSE tree
        ok == examined /\ Verified(o) /\ files # repo
    IN  /\ Reports(t, a)
        /\ tree' = files
        /\ repo' = IF ok THEN files ELSE repo
        /\ commits' = IF ok THEN commits \cup {Commit(t, a, o)} ELSE commits
        /\ dirs' = IF examined THEN dirs \ {t} ELSE dirs
        /\ stage' = Verdict(t, a, ok)
        /\ UNCHANGED <<table, ledger, race, group, parked, scarred>>

\* _verify_code_result, from beginning to end: it looks only whether the task
\* exists; neither its state nor the attempt is compared before the commit.  Of a
\* verified patch the files are copied to the repository and committed if anything
\* there differs from its head, and what an earlier death left staged goes with
\* them; what one left that git was never told of does not count.  The workspace
\* is removed in any case.  A reported failure passes untouched.
Verify(t, a, o) ==
    LET examined  == R!Present(t) /\ o # NoPatch
        published == examined /\ Verified(o)
        files     == IF published THEN Published(tree, t, o) ELSE tree
    IN  /\ Reports(t, a)
        /\ tree' = files
        /\ dirs' = IF examined THEN dirs \ {t} ELSE dirs
        /\ \/ /\ published /\ files # repo
              /\ repo' \in {files, Published(repo, t, o)}
              /\ commits' = commits \cup {Commit(t, a, o)}
              /\ stage' = Verdict(t, a, TRUE)
           \/ /\ published => o \in repo[t]
              /\ stage' = Verdict(t, a, FALSE)
              /\ UNCHANGED <<repo, commits>>
        /\ UNCHANGED <<table, ledger, race, group, parked, scarred>>

\* What a process that dies and starts again has lost: groups are in memory only.
Restarted ==
    /\ R!Restart
    /\ group' = {}
    /\ stage' = Idle
    /\ parked' = {}
    /\ race' = IF race = "idle" THEN race ELSE "over"
    /\ UNCHANGED ledger

\* The handler dies in it: with the process, anywhere, or by an error of the file
\* system or of git once it publishes, which nothing catches.  The workspace
\* stays, and files may be in the repository that no commit has.
VerifyDies(t, a, o) ==
    /\ Reports(t, a)
    /\ R!Present(t) /\ o # NoPatch /\ Extracted(o) /\ Permitted(o)
    /\ scarred' = scarred \cup {t}
    /\ dirs' = dirs \cup {t}
    /\ tree' \in IF Verified(o) THEN {tree, Published(tree, t, o)} ELSE {tree}
    /\ \/ Restarted
       \/ Verified(o) /\ UNCHANGED <<table, ledger, race, group, stage, parked>>
    /\ UNCHANGED <<repo, commits>>

\* Mutant: a rejected report goes on to the ledger as well.
Decide_RecordsAll ==
    /\ At("decide")
    /\ LET t == stage.task
           a == stage.attempt
       IN  \/ R!OnResult(t, a, stage.outcome)
           \/ ~R!Reportable(t, a) /\ UNCHANGED table
    /\ stage' = [stage EXCEPT !.at = "record"]
    /\ UNCHANGED <<reported, code, ledger, race, group, parked>>

\* on_result: a stale, late or retried report ends the handler.
Decide ==
    /\ At("decide")
    /\ LET t == stage.task
           a == stage.attempt
       IN  \/ /\ R!Commit(t, a, stage.outcome)
              /\ stage' = [stage EXCEPT !.at = "record"]
           \/ /\ R!Retry(t, a, stage.outcome)
              /\ stage' = Idle
           \/ /\ ~R!Reportable(t, a)
              /\ stage' = Idle
              /\ UNCHANGED table
    /\ UNCHANGED <<reported, code, ledger, race, group, parked>>

\* Ledger.record: one row, for the task as it now stands in the table.
Row(t) == [state |-> rows[t].state,
           sha |-> IF rows[t].state = "succeeded" THEN rows[t].result.by ELSE 0]
Accepted(row) == row.state = "succeeded" /\ row.sha # 0

\* Mutant: an accepted member settles its race before, and instead of, its row.
Record_SettleFirst ==
    /\ At("record")
    /\ LET t == stage.task
           settles == group # {} /\ Accepted(Row(t))
       IN  /\ ledger' = IF ledger[t] = NoRow /\ ~settles THEN [ledger EXCEPT ![t] = Row(t)] ELSE ledger
           /\ stage' = IF settles THEN [at |-> "settle", left |-> group \ {t}] ELSE Idle
    /\ UNCHANGED <<table, reported, code, race, group, parked>>

\* Only an accepted member of a registered race settles it.
Record ==
    /\ At("record")
    /\ LET t == stage.task
       IN  /\ ledger' = IF ledger[t] = NoRow THEN [ledger EXCEPT ![t] = Row(t)] ELSE ledger
           /\ stage' = IF group # {} /\ Accepted(Row(t))
                       THEN [at |-> "settle", left |-> group \ {t}] ELSE Idle
    /\ UNCHANGED <<table, reported, code, race, group, parked>>

\* workspaces.cleanup: the directories of these tasks go.
Cleanup(gone) == dirs' = dirs \ gone /\ UNCHANGED <<tree, repo, commits, scarred>>

\* Mutant: the loop over the siblings ends with the first it cancels.
SettleOne_OnlyOne ==
    /\ At("settle") /\ stage.left # {}
    /\ \E t \in stage.left :
          /\ \/ R!Cancel(t) /\ Cleanup({t})
             \/ rows[t].state \notin R!Open /\ UNCHANGED <<table, code>>
          /\ stage' = [stage EXCEPT !.left = {}]
    /\ UNCHANGED <<reported, ledger, race, group, parked>>

\* _settle_race: siblings still open are cancelled one by one, and a REVOKE goes
\* to the node of one in flight, in which the handler may be suspended.
SettleOne ==
    /\ At("settle") /\ stage.left # {}
    /\ \E t \in stage.left :
          LET rest == [stage EXCEPT !.left = @ \ {t}]
          IN  \/ /\ R!Cancel(t) /\ Cleanup({t})
                 /\ \/ stage' = rest /\ UNCHANGED parked
                    \/ /\ rows[t].state \in R!InFlight
                       /\ stage' = Idle /\ parked' = parked \cup {rest}
              \/ /\ rows[t].state \notin R!Open
                 /\ stage' = rest
                 /\ UNCHANGED <<table, code, parked>>
    /\ UNCHANGED <<reported, ledger, race, group>>

\* The entry is deleted; if another settlement got there first, the KeyError
\* ends the handler and closes the connection of the winner's node.
SettleEnds ==
    /\ At("settle") /\ stage.left = {}
    /\ group' = {}
    /\ stage' = Idle
    /\ UNCHANGED <<table, reported, code, ledger, race, parked>>

Resume ==
    /\ stage = Idle
    /\ \E rest \in parked : stage' = rest /\ parked' = parked \ {rest}
    /\ UNCHANGED <<table, reported, code, ledger, race, group>>

-----------------------------------------------------------------------------
(***************************************************************************)
(* The rest of the server                                                  *)
(***************************************************************************)
\* Tasks are assigned, and requeued when their node is lost or their lease ends.
Dispatching ==
    /\ stage = Idle
    /\ R!SchedulePending(Nodes) \/ \E n \in Nodes : R!OnNodeLost(n)
    /\ UNCHANGED <<reported, code, ledger, race, group, stage, parked>>

Cancel(t) ==
    /\ stage = Idle
    /\ R!Cancel(t) /\ Cleanup({t})
    /\ UNCHANGED <<reported, ledger, race, group, stage, parked>>

\* delete_task also takes the task out of its race group.
Delete(t) ==
    /\ stage = Idle
    /\ R!Delete(t) /\ Cleanup({t})
    /\ group' = group \ {t}
    /\ UNCHANGED <<reported, ledger, race, stage, parked>>

\* clear_queue, and clear_data, which empties the ledger with the table.
Clear(everything) ==
    /\ stage = Idle
    /\ R!Clear /\ Cleanup(Tasks)
    /\ group' = {}
    /\ ledger' = IF everything THEN [t \in Tasks |-> NoRow] ELSE ledger
    /\ UNCHANGED <<reported, race, stage, parked>>

\* The periodic collection (gc_workspaces) drops a group without an open member,
\* and the workspaces an hour old of tasks that are no longer in the table.
Collect ==
    /\ stage = Idle
    /\ \E old \in SUBSET {t \in dirs : ~R!Present(t)} : Cleanup(old)
    /\ group' = IF group \cap R!Has(R!Open) = {} THEN {} ELSE group
    /\ UNCHANGED <<table, reported, ledger, race, stage, parked>>

\* The process dies between two steps; where it dies in a verification is VerifyDies.
ServerRestart == Restarted /\ UNCHANGED <<reported, code>>

Next ==
    \/ \E t \in Tasks : RaceSubmit(t) \/ Cancel(t) \/ Delete(t)
    \/ RaceOverflow \/ RaceRegister
    \/ \E t \in Tasks, o \in Outputs \cup {NoPatch} : \E a \in 1..issued[t] :
          Verify(t, a, o) \/ VerifyDies(t, a, o)
    \/ Decide \/ Record \/ SettleOne \/ SettleEnds \/ Resume
    \/ Dispatching \/ Collect
    \/ \E everything \in BOOLEAN : Clear(everything)
    \/ ServerRestart

Spec == Init /\ [][Next]_vars

-----------------------------------------------------------------------------
(***************************************************************************)
(* Safety                                                                  *)
(***************************************************************************)
\* Whatever a verification comes to, it leaves neither a workspace nor files in
\* code-repo that its head commit does not have, unless its handler died: an
\* attempt whose patch fails its tests has touched nothing a later one builds on.
Tidy == dirs \cup {t \in Tasks : tree[t] # repo[t]} \subseteq scarred

\* A task is accepted only with a commit of its own last attempt, of a patch that
\* passed its tests and that changed the repository, however many attempts
\* reported and whatever was committed for them.  Only what a dead handler left
\* uncommitted lets a commit pass that changes nothing of its own.
AcceptedVerified ==
    \A t \in Tasks :
        rows[t].state = "succeeded" =>
            \E c \in commits :
                /\ c.task = t /\ c.attempt = rows[t].result.by
                /\ Flaw[c.patch] = "none"
                /\ c.fresh \/ scarred # {}

\* The ledger is true to the table: the row of a task says how the table settled
\* it, and an accepted row names a commit that exists, even after the task is
\* deleted.
LedgerTruthful ==
    \A t \in Tasks :
        ledger[t] # NoRow =>
            /\ R!Present(t) => ledger[t] = Row(t)
            /\ Accepted(ledger[t]) => \E c \in commits : c.task = t /\ c.attempt = ledger[t].sha

\* An accepted task that no ledger row records, and none is about to.
Unrecorded(t) ==
    /\ rows[t].state = "succeeded" /\ ledger[t] = NoRow
    /\ ~(At("record") /\ stage.task = t)

\* Every accepted task gets its ledger row before another handler runs, so only
\* a server that dies between the two commits can lose one.
EveryAcceptedRecorded ==
    [][\A t \in Tasks : Unrecorded(t)' => Unrecorded(t) \/ Restarted]_vars

\* Whoever removes the entry of a race (the settlement, the collector, a delete)
\* leaves no member of it running, also when two settlements overlap.  Clearing
\* removes the tasks as well, and a restart loses the entry.
RaceClosed ==
    [][group # {} /\ group' = {} /\ ~Restarted =>
          \A t \in group : rows'[t].state \notin R!Open]_vars

(***************************************************************************)
(* What the code says of itself and does not keep                          *)
(***************************************************************************)
\* "Attempt reported after its lease expired; result must not commit."
\* (common/errors.py, of LeaseExpiredError, which on_result raises for an attempt
\* that is not the current one of an open task): such an attempt commits nothing
\* to code-repo.  It does, because the harness commits before on_result looks.
NoStaleCommit ==
    [][\A c \in commits' \ commits :
          rows[c.task].state \in R!Open => rows[c.task].attempt = c.attempt]_vars

\* "First harness-accepted patch wins; the server cancels siblings on accept"
\* (api/rest.py, code_race): at most one member of a race is accepted.
OneWinner ==
    \A t, u \in Tasks : rows[t].state = "succeeded" /\ rows[u].state = "succeeded" => t = u
=============================================================================
