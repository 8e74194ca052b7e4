----------------------------- MODULE StateRepo -----------------------------
(***************************************************************************)
(* The state repository (scheduler/vcs.py): what the server exports of its *)
(* sessions, nodes and ledger, committed to a git repository that is the   *)
(* auditable history of them.  Every operation is synchronous on the event *)
(* loop, so only the death of the process comes between two of its steps.  *)
(* A text is one of Contents; what an operation that died was writing may  *)
(* be Torn.                                                                *)
(***************************************************************************)
EXTENDS Integers, Sequences, FiniteSets

CONSTANTS
    Files,      \* what is registered: sessions.json, nodes.json, ledger.json
    Ledger,     \* ... the one registered after the baseline
    Roster,     \* ... the one whose source a restart empties
    Contents,   \* what an exporter may return
    Empty,      \* ... and what it returns of a registry without nodes
    Absent,     \* a file that is not there
    Torn,       \* a file cut off while it was written
    MaxFailing, \* bound: how many exporters fail at once
    MaxCommits, \* bound: how many commits; nothing changes after them
    MaxDeaths   \* bound: how often the process dies

ASSUME RepoAssumption ==
    /\ {Ledger, Roster} \subseteq Files
    /\ Empty \in Contents
    /\ {Absent, Torn} \cap Contents = {}

VARIABLES
    live,      \* what each exporter would return now: the database's truth
    tree,      \* the files of the working tree
    index,     \* what is staged
    log,       \* the commits, each the files it has
    made,      \* .git exists
    up,        \* the process serves
    deaths,
    shown,     \* history: files a snapshot exported, and nothing changed since
    lost       \* history: files an operation wrote and, dying, did not commit

repoVars == <<live, tree, index, log, made, up, deaths, shown, lost>>

\* What is registered when the repository is initialised.
Baseline == Files \ {Ledger}

\* The exporters that answer, of those registered.
Answering(registered) == {a \in SUBSET registered : Cardinality(registered \ a) <= MaxFailing}

NoTree == [f \in Files |-> Absent]

RepoInit ==
    /\ live \in [Files -> Contents] /\ live[Roster] = Empty
    /\ tree = NoTree /\ index = NoTree /\ log = <<>>
    /\ made = FALSE /\ up = FALSE /\ deaths = 0
    /\ shown = {} /\ lost = {}

HasHead == log # <<>>

Latest == log[Len(log)]

\* Writing what `new` has of the files in `written` over `old`.
Rewrite(old, new, written) ==
    [f \in Files |-> IF f \in written THEN new[f] ELSE old[f]]

\* The exporters that answer and whose text is not what the working tree has:
\* not what HEAD has.
Stale(answering) == {f \in answering : tree[f] # live[f]}

\* What is staged, of the files `named`: the working tree's copy.
Staged(files, named) == Rewrite(index, files, named)

\* Mutant: only the files that changed are staged.
SnapshotOf_Changed(registered, answering) ==
    /\ tree' = Rewrite(tree, live, Stale(answering))
    /\ shown' = answering
    /\ IF Stale(answering) = {} /\ HasHead
         THEN UNCHANGED <<index, log, lost>>
         ELSE /\ Len(log) < MaxCommits
              /\ index' = Staged(tree', Stale(answering))
              /\ log' = Append(log, index')
              /\ lost' = lost \ registered

\* The export rewrites the files that changed; without any, and with a HEAD,
\* nothing is committed.  All of the files registered are staged, also those
\* whose exporter failed and those an earlier death left behind.
SnapshotOf(registered, answering) ==
    /\ tree' = Rewrite(tree, live, Stale(answering))
    /\ shown' = answering
    /\ IF Stale(answering) = {} /\ HasHead
         THEN UNCHANGED <<index, log, lost>>
         ELSE /\ Len(log) < MaxCommits
              /\ index' = Staged(tree', registered)
              /\ log' = Append(log, index')
              /\ lost' = lost \ registered

\* The process dies in an operation that writes what `new` has of `written`,
\* then stages `named`: some are written, one perhaps in part; or all of them
\* are and also staged, but not committed.
DiesWriting(new, written, named) ==
    /\ deaths < MaxDeaths /\ deaths' = deaths + 1
    /\ up' = FALSE
    /\ \/ \E done \in SUBSET written, f \in written :
            /\ \/ tree' = Rewrite(tree, new, done)
               \/ tree' = [Rewrite(tree, new, done) EXCEPT ![f] = Torn]
            /\ UNCHANGED index
       \/ tree' = Rewrite(tree, new, written) /\ index' = Staged(tree', named)
    /\ lost' = lost \cup {f \in written : tree'[f] = new[f]}
    /\ live' = [live EXCEPT ![Roster] = Empty]
    /\ shown' = shown \ {Roster}
    /\ UNCHANGED log

------------------------------------------------------------------------------
\* A start makes the repository and its baseline, which the ledger is not yet
\* registered for; one that finds .git, be it without a commit, takes none.
Start ==
    /\ ~up
    /\ made' = TRUE
    /\ \/ /\ ~made /\ up' = TRUE
          /\ \E answering \in Answering(Baseline) : SnapshotOf(Baseline, answering)
          /\ UNCHANGED <<live, deaths>>
       \/ ~made /\ DiesWriting(live, Baseline, Baseline)
       \/ made /\ up' = TRUE /\ UNCHANGED <<live, tree, index, log, deaths, shown, lost>>

Change(f) ==
    /\ up /\ Len(log) < MaxCommits
    /\ \E c \in Contents \ {live[f]} : live' = [live EXCEPT ![f] = c]
    /\ shown' = shown \ {f}
    /\ UNCHANGED <<tree, index, log, made, up, deaths, lost>>

\* A node registers, takes another model, or leaves.
RosterChanges == Change(Roster)

\* A task reaches the ledger, or the ledger is cleared.
LedgerChanges == Change(Ledger)

\* A session is opened, bound, moved or closed, or all of them are cleared.
SessionsChange == \E f \in Files \ {Roster, Ledger} : Change(f)

\* The tick's snapshot of every 30 s, or one that is asked for.
Snapshot ==
    /\ up
    /\ \E answering \in Answering(Files) :
         \/ SnapshotOf(Files, answering) /\ UNCHANGED <<live, made, up, deaths>>
         \/ /\ Stale(answering) # {}
            /\ DiesWriting(live, Stale(answering), Files)
            /\ UNCHANGED made

\* The files a commit has.
FilesOf(commit) == {f \in Files : commit[f] # Absent}

\* The commits the history lists (the newest 50) and a caller can name.
History == 1..Len(log)

\* Rollback writes and stages the files of an earlier commit and commits them.
\* No file has an importer, so the database stays as it is, and a file the
\* commit does not have stays as it is staged.
Rollback ==
    /\ up
    /\ \E n \in History :
         \/ /\ Len(log) < MaxCommits
            /\ tree' = Rewrite(tree, log[n], FilesOf(log[n]))
            /\ index' = Staged(tree', FilesOf(log[n]))
            /\ log' = Append(log, index')
            /\ lost' = lost \ FilesOf(log[n])
            /\ shown' = {}
            /\ UNCHANGED <<live, made, up, deaths>>
         \/ DiesWriting(log[n], FilesOf(log[n]), FilesOf(log[n])) /\ UNCHANGED made

\* The process dies between two operations.
DieIdle ==
    /\ up /\ deaths < MaxDeaths
    /\ up' = FALSE /\ deaths' = deaths + 1
    /\ live' = [live EXCEPT ![Roster] = Empty]
    /\ shown' = shown \ {Roster}
    /\ UNCHANGED <<tree, index, log, made, lost>>

RepoNext ==
    \/ Start
    \/ RosterChanges \/ LedgerChanges \/ SessionsChange
    \/ Snapshot \/ Rollback
    \/ DieIdle

RepoSpec == RepoInit /\ [][RepoNext]_repoVars

------------------------------------------------------------------------------
\* What the audit's diff of two commits shows: the files that differ.
Diff(a, b) == {f \in Files : a[f] # b[f]}

\* Once a snapshot has returned, the diff of HEAD and the state is empty, after
\* a rollback too, with the exception the code makes of exporters that fail and of
\* files that a process wrote and died before it committed them: they equal what
\* is exported, so no snapshot commits them until something changes.
Audited == HasHead => Diff(Latest, live) \cap shown \subseteq lost
=============================================================================
