---------------------------- MODULE TextsProofs ----------------------------
(***************************************************************************)
(* Theorems about the texts that are kept apart from tasks: the repository *)
(* of the state (StateRepo), an editor of a live workspace (CoEditing) and *)
(* the workspace's files (LiveWorkspace).  Each has an invariant of its    *)
(* own, and its variables are only its own.                                *)
(***************************************************************************)
EXTENDS LiveWorkspace, CoEditing, StateRepo, SequenceFacts, TLAPS

-----------------------------------------------------------------------------
(***************************************************************************)
(* The state repository                                                    *)
(*                                                                         *)
(* What is in the working tree is in HEAD and staged, but for what a death *)
(* left behind: a file written and not committed, which is lost, and a     *)
(* torn one, which no exporter returns and so the next snapshot rewrites.  *)
(***************************************************************************)
Storable == Contents \cup {Absent, Torn}
Commit == [Files -> Storable]

RepoTypes ==
    /\ live \in [Files -> Contents]
    /\ tree \in Commit /\ index \in Commit /\ log \in Seq(Commit)
    /\ made \in BOOLEAN /\ up \in BOOLEAN
    /\ shown \subseteq Files /\ lost \subseteq Files

\* Before the first start there is nothing.
Blank == ~made => ~up /\ tree = NoTree /\ index = NoTree /\ log = <<>> /\ lost = {}

\* A file of the working tree that no exporter could have written, or that a
\* death kept from being committed.
Excused(f) == f \in lost \/ tree[f] \notin Contents

Committed == HasHead => \A f \in Files : Excused(f) \/ tree[f] = Latest[f]
StagedToo == \A f \in Files : Excused(f) \/ tree[f] = index[f]

RepoInv == RepoTypes /\ Blank /\ Committed /\ StagedToo /\ Audited

LEMMA RepoInitially == RepoInit => RepoInv
<1>1. NoTree \in Commit
  BY DEF NoTree, Commit, Storable
<1>2. <<>> \in Seq(Commit)
  OBVIOUS
<1>3. RepoInit => RepoTypes
  BY <1>1, <1>2 DEF RepoInit, RepoTypes
<1>4. RepoInit => Blank /\ StagedToo
  BY DEF RepoInit, Blank, StagedToo
<1>5. RepoInit => Committed /\ Audited
  BY DEF RepoInit, Committed, Audited, HasHead
<1> QED
  BY <1>3, <1>4, <1>5 DEF RepoInv

\* What an append leaves as the newest commit.
LEMMA NewestCommit ==
    ASSUME NEW l \in Seq(Commit), NEW c \in Commit
    PROVE  /\ Append(l, c) \in Seq(Commit)
           /\ Append(l, c) # <<>>
           /\ Append(l, c)[Len(Append(l, c))] = c
  OBVIOUS

LEMMA RewriteType ==
    ASSUME NEW old \in Commit, NEW new \in Commit, NEW written
    PROVE  Rewrite(old, new, written) \in Commit
  BY DEF Rewrite, Commit

\* An exporter returns a text, and a text is something a commit may have.
LEMMA LiveIsCommit == RepoTypes => live \in Commit
  BY DEF RepoTypes, Commit, Storable

LEMMA SnapshotKeeps ==
    ASSUME RepoInv, NEW registered \in SUBSET Files, NEW answering \in SUBSET registered,
           SnapshotOf(registered, answering), live' = live,
           registered = Files \/ ~made, made' \in BOOLEAN, up' \in BOOLEAN, made'
    PROVE  RepoInv'
<1> USE DEF RepoInv, RepoTypes
<1>1. tree' \in Commit /\ tree' = Rewrite(tree, live, Stale(answering))
  BY RewriteType, LiveIsCommit DEF SnapshotOf
<1>2. shown' = answering
  BY DEF SnapshotOf
<1>3. \A f \in answering : tree'[f] = live[f]
  BY <1>1 DEF Rewrite, Stale
<1>4. CASE Stale(answering) = {} /\ HasHead
  <2>1. UNCHANGED <<index, log, lost>>
    BY <1>4 DEF SnapshotOf
  <2>2. tree' = tree
    BY <1>1, <1>4 DEF Rewrite, Commit
  <2>3. RepoTypes' /\ Blank'
    BY <1>1, <1>2, <2>1 DEF Blank
  <2>4. Committed' /\ StagedToo'
    BY <2>1, <2>2 DEF Committed, StagedToo, Excused, HasHead, Latest
  <2>5. Audited'
    BY <1>2, <1>3, <1>4, <2>1, <2>2 DEF Audited, Diff, Committed, Excused, HasHead, Latest
  <2> QED
    BY <2>3, <2>4, <2>5
<1>5. CASE ~(Stale(answering) = {} /\ HasHead)
  <2>1. /\ index' = Staged(tree', registered)
        /\ log' = Append(log, index')
        /\ lost' = lost \ registered
    BY <1>5 DEF SnapshotOf
  <2>2. index' \in Commit
    BY <1>1, <2>1, RewriteType DEF Staged
  <2>3. \A f \in Files : index'[f] = IF f \in registered THEN tree'[f] ELSE index[f]
    BY <2>1 DEF Staged, Rewrite
  <2>4. log' \in Seq(Commit) /\ HasHead' /\ Latest' = index'
    BY <2>1, <2>2, NewestCommit DEF HasHead, Latest
  <2>5. RepoTypes' /\ Blank'
    BY <1>1, <1>2, <2>1, <2>2, <2>4 DEF Blank
  <2>6. \A f \in Files : index'[f] = tree'[f]
    <3>1. CASE registered = Files
      BY <3>1, <2>3
    <3>2. CASE ~made
      <4>1. tree = NoTree /\ index = NoTree
        BY <3>2 DEF Blank
      <4> QED
        BY <1>1, <2>3, <4>1 DEF Rewrite, Stale, NoTree
    <3> QED
      BY <3>1, <3>2
  <2>7. Committed' /\ StagedToo'
    BY <2>4, <2>6 DEF Committed, StagedToo, Excused
  <2>8. Audited'
    BY <1>2, <1>3, <2>4, <2>6 DEF Audited, Diff
  <2> QED
    BY <2>5, <2>7, <2>8
<1> QED
  BY <1>4, <1>5

LEMMA DeathKeeps ==
    ASSUME RepoInv, NEW new \in Commit, NEW written \in SUBSET Files, NEW named \in SUBSET Files,
           DiesWriting(new, written, named), named = Files \/ named = written,
           made' \in BOOLEAN, made', RepoAssumption
    PROVE  RepoInv'
<1> USE DEF RepoInv, RepoTypes
<1>1. /\ up' = FALSE /\ log' = log /\ shown' = shown \ {Roster}
      /\ lost' = lost \cup {f \in written : tree'[f] = new[f]}
      /\ live' = [live EXCEPT ![Roster] = Empty]
  BY DEF DiesWriting
<1>2. live' \in [Files -> Contents] /\ \A f \in Files \ {Roster} : live'[f] = live[f]
  BY <1>1 DEF RepoAssumption
<1>3. Audited'
  BY <1>1, <1>2 DEF Audited, Diff, HasHead, Latest
<1>4. CASE \E done \in SUBSET written, f \in written :
             /\ \/ tree' = Rewrite(tree, new, done)
                \/ tree' = [Rewrite(tree, new, done) EXCEPT ![f] = Torn]
             /\ UNCHANGED index
  <2>1. PICK done \in SUBSET written, g \in written :
             /\ \/ tree' = Rewrite(tree, new, done)
                \/ tree' = [Rewrite(tree, new, done) EXCEPT ![g] = Torn]
             /\ index' = index
    BY <1>4
  <2>2. Rewrite(tree, new, done) \in Commit
    BY RewriteType
  <2>3. tree' \in Commit
    BY <2>1, <2>2 DEF Commit, Storable
  <2>4. \A f \in Files : tree'[f] = tree[f] \/ tree'[f] = Torn \/ (f \in written /\ tree'[f] = new[f])
    BY <2>1, <2>2 DEF Rewrite, Commit
  <2>5. RepoTypes' /\ Blank'
    BY <1>1, <1>2, <2>1, <2>3 DEF Blank
  <2>6. \A f \in Files : Excused(f)' \/ (tree'[f] = tree[f] /\ ~Excused(f))
    BY <1>1, <2>4 DEF Excused, RepoAssumption
  <2>7. Committed' /\ StagedToo'
    BY <1>1, <2>1, <2>6 DEF Committed, StagedToo, HasHead, Latest
  <2> QED
    BY <1>3, <2>5, <2>7
<1>5. CASE tree' = Rewrite(tree, new, written) /\ index' = Staged(tree', named)
  <2>1. tree' \in Commit /\ index' \in Commit
    BY <1>5, RewriteType DEF Staged
  <2>2. RepoTypes' /\ Blank'
    BY <1>1, <1>2, <2>1 DEF Blank
  <2>3. \A f \in Files : f \in lost' \/ (tree'[f] = tree[f] /\ (index'[f] = index[f] \/ index'[f] = tree'[f]))
    BY <1>1, <1>5 DEF Rewrite, Staged
  <2>4. lost \subseteq lost'
    BY <1>1
  <2>5. Committed' /\ StagedToo'
    BY <1>1, <2>3, <2>4 DEF Committed, StagedToo, HasHead, Latest, Excused
  <2> QED
    BY <1>3, <2>2, <2>5
<1> QED
  BY <1>4, <1>5 DEF DiesWriting

LEMMA StartKeeps == ASSUME RepoInv, Start PROVE RepoInv'
<1> USE DEF RepoInv, RepoTypes
<1>1. made'
  BY DEF Start
<1>2. Baseline \in SUBSET Files
  BY DEF Baseline
<1>3. CASE /\ ~made /\ up' = TRUE
           /\ \E answering \in Answering(Baseline) : SnapshotOf(Baseline, answering)
           /\ UNCHANGED <<live, deaths>>
  <2>1. PICK answering \in SUBSET Baseline : SnapshotOf(Baseline, answering)
    BY <1>3 DEF Answering
  <2> QED
    BY <1>1, <1>2, <1>3, <2>1, SnapshotKeeps DEF Start
<1>4. CASE ~made /\ DiesWriting(live, Baseline, Baseline)
  BY <1>1, <1>2, <1>4, LiveIsCommit, DeathKeeps, RepoAssumption DEF Start
<1>5. CASE made /\ up' = TRUE /\ UNCHANGED <<live, tree, index, log, deaths, shown, lost>>
  BY <1>1, <1>5 DEF Blank, Committed, StagedToo, Audited, Excused, HasHead, Latest, Diff, Start
<1> QED
  BY <1>3, <1>4, <1>5 DEF Start

LEMMA ChangeKeeps == ASSUME RepoInv, NEW f \in Files, Change(f) PROVE RepoInv'
<1> USE DEF RepoInv, RepoTypes
<1>1. PICK c \in Contents : live' = [live EXCEPT ![f] = c]
  BY DEF Change
<1>2. shown' = shown \ {f} /\ UNCHANGED <<tree, index, log, made, up, lost>>
  BY DEF Change
<1>3. live' \in [Files -> Contents] /\ \A g \in Files \ {f} : live'[g] = live[g]
  BY <1>1
<1>4. Audited'
  BY <1>2, <1>3 DEF Audited, Diff, HasHead, Latest
<1> QED
  BY <1>2, <1>3, <1>4 DEF Blank, Committed, StagedToo, Excused, HasHead, Latest

LEMMA RepoSnapshotKeeps == ASSUME RepoInv, Snapshot PROVE RepoInv'
<1>1. PICK answering \in SUBSET Files :
         \/ SnapshotOf(Files, answering) /\ UNCHANGED <<live, made, up, deaths>>
         \/ DiesWriting(live, Stale(answering), Files) /\ UNCHANGED made
  BY DEF Snapshot, Answering
<1>2. made /\ made \in BOOLEAN
  BY DEF Snapshot, RepoInv, RepoTypes, Blank
<1>3. CASE SnapshotOf(Files, answering) /\ UNCHANGED <<live, made, up, deaths>>
  <2>1. up' \in BOOLEAN /\ live' = live /\ made' = made
    BY <1>3 DEF RepoInv, RepoTypes
  <2> QED
    BY <1>2, <1>3, <2>1, SnapshotKeeps
<1>4. CASE DiesWriting(live, Stale(answering), Files) /\ UNCHANGED made
  <2>1. Stale(answering) \in SUBSET Files /\ live \in Commit
    BY LiveIsCommit DEF Stale, RepoInv
  <2> QED
    BY <1>2, <1>4, <2>1, DeathKeeps, RepoAssumption
<1> QED
  BY <1>1, <1>3, <1>4

LEMMA RollbackKeeps == ASSUME RepoInv, Rollback PROVE RepoInv'
<1> USE DEF RepoInv, RepoTypes
<1>1. PICK n \in History :
         \/ /\ tree' = Rewrite(tree, log[n], FilesOf(log[n]))
            /\ index' = Staged(tree', FilesOf(log[n]))
            /\ log' = Append(log, index')
            /\ lost' = lost \ FilesOf(log[n])
            /\ shown' = {}
            /\ UNCHANGED <<live, made, up, deaths>>
         \/ DiesWriting(log[n], FilesOf(log[n]), FilesOf(log[n])) /\ UNCHANGED made
  BY DEF Rollback
<1>2. made /\ up
  BY DEF Rollback, Blank
<1>3. log[n] \in Commit
  BY <1>1 DEF History
<1> DEFINE F == FilesOf(log[n])
<1>4. F \in SUBSET Files
  BY DEF FilesOf
<1>5. CASE /\ tree' = Rewrite(tree, log[n], F)
           /\ index' = Staged(tree', F)
           /\ log' = Append(log, index')
           /\ lost' = lost \ F
           /\ shown' = {}
           /\ UNCHANGED <<live, made, up, deaths>>
  <2>1. tree' \in Commit /\ index' \in Commit
    BY <1>3, <1>5, RewriteType DEF Staged
  <2>2. log' \in Seq(Commit) /\ HasHead' /\ Latest' = index'
    BY <1>5, <2>1, NewestCommit DEF HasHead, Latest
  <2>3. \A f \in Files : IF f \in F THEN index'[f] = tree'[f] ELSE index'[f] = index[f] /\ tree'[f] = tree[f]
    BY <1>5 DEF Rewrite, Staged
  <2>4. \A f \in Files : Excused(f)' \/ tree'[f] = index'[f]
    BY <1>5, <2>3 DEF StagedToo, Excused
  <2>5. RepoTypes' /\ Blank'
    BY <1>2, <1>4, <1>5, <2>1, <2>2 DEF Blank
  <2>6. Committed' /\ StagedToo' /\ Audited'
    BY <1>5, <2>2, <2>4 DEF Committed, StagedToo, Audited
  <2> QED
    BY <2>5, <2>6
<1>6. CASE DiesWriting(log[n], F, F) /\ UNCHANGED made
  BY <1>2, <1>3, <1>4, <1>6, DeathKeeps, RepoAssumption
<1> QED
  BY <1>1, <1>5, <1>6

LEMMA DieIdleKeeps == ASSUME RepoInv, DieIdle PROVE RepoInv'
<1> USE DEF RepoInv, RepoTypes
<1>1. /\ live' \in [Files -> Contents] /\ \A f \in Files \ {Roster} : live'[f] = live[f]
      /\ up' = FALSE /\ shown' = shown \ {Roster} /\ UNCHANGED <<tree, index, log, made, lost>>
  BY RepoAssumption DEF DieIdle, RepoAssumption
<1>2. Audited'
  BY <1>1 DEF Audited, Diff, HasHead, Latest
<1> QED
  BY <1>1, <1>2 DEF Blank, Committed, StagedToo, Excused, HasHead, Latest

LEMMA RepoStep == RepoInv /\ [RepoNext]_repoVars => RepoInv'
<1> SUFFICES ASSUME RepoInv, [RepoNext]_repoVars PROVE RepoInv'
  OBVIOUS
<1>1. CASE RosterChanges \/ LedgerChanges \/ SessionsChange
  BY <1>1, ChangeKeeps, RepoAssumption DEF RosterChanges, LedgerChanges, SessionsChange, RepoAssumption
<1>2. CASE UNCHANGED repoVars
  BY <1>2 DEF repoVars, RepoInv, RepoTypes, Blank, Committed, StagedToo, Audited, Excused,
              HasHead, Latest, Diff
<1> QED
  BY <1>1, <1>2, StartKeeps, RepoSnapshotKeeps, RollbackKeeps, DieIdleKeeps DEF RepoNext

\* Once a snapshot has returned, the diff of HEAD and what is exported is empty,
\* but for what an earlier process wrote and died over (snapshot and rollback of
\* scheduler/vcs.py).
THEOREM AuditHolds == RepoSpec => []Audited
<1>1. RepoInv => Audited
  BY DEF RepoInv
<1> QED
  BY <1>1, RepoInitially, RepoStep, PTL DEF RepoSpec

-----------------------------------------------------------------------------
(***************************************************************************)
(* The editor of a live workspace                                          *)
(*                                                                         *)
(* As long as the workspace is the one the editor joined, the newest delta *)
(* is on its way to it, or it has it, or it has asked for the text or will *)
(* when it reads the heads.  The answer to come may be older than that     *)
(* delta, which is then behind it.                                         *)
(***************************************************************************)
Messages == [kind : {"delta", "full", "heads", "presence"}, seq : Nat]
Events == [kind : {"delta", "presence"}, seq : Nat]

EditTypes ==
    /\ head \in Nat /\ life \in Nat
    /\ pending \in Seq(Events) /\ wire \in Seq(Messages)
    /\ editor \in [at : {"away", "open"}, has : BOOLEAN, seq : Nat, asked : BOOLEAN, since : Nat]
    /\ editor.since <= life

Holds(queue, m) == \E i \in 1..Len(queue) : queue[i] = m
HeadsIn(queue) == \E i \in 1..Len(queue) : queue[i].kind = "heads"

\* The newest patch reaches the editor, or has.
Coming ==
    \/ Holds(wire, DeltaOf(head)) \/ Holds(pending, DeltaOf(head))
    \/ editor.has /\ editor.seq = head
    \/ editor.asked
    \/ HeadsIn(wire)

\* An answer that is not the newest text is overtaken by the newest patch only
\* behind it.
AnswersTrue ==
    \A i \in 1..Len(wire) : wire[i].kind = "full" =>
        \/ wire[i].seq = head
        \/ \E j \in (i + 1)..Len(wire) : wire[j] = DeltaOf(head)
        \/ Holds(pending, DeltaOf(head))

\* An editor without a text asks for it, or will.
WillAsk == editor.has \/ editor.asked \/ HeadsIn(wire)

\* Nothing is newer than the workspace.
NotAhead ==
    /\ \A i \in 1..Len(wire) : wire[i].kind \in {"delta", "full"} => wire[i].seq <= head
    /\ \A i \in 1..Len(pending) : pending[i].kind \in {"delta", "full"} => pending[i].seq <= head
    /\ editor.has => editor.seq <= head

EditInv ==
    /\ EditTypes
    /\ editor.at = "open" /\ editor.since = life => Coming /\ AnswersTrue /\ WillAsk /\ NotAhead

LEMMA EditInitially == EditInit => EditInv
BY DEF EditInit, EditInv, EditTypes, NoEditor

\* What publishing leaves in the queue: the event itself, unless it is presence,
\* and then all that was there.
LEMMA QueuedFacts ==
    ASSUME EditAssumption, NEW q \in Seq(Events), NEW m \in Events
    PROVE  /\ Queued(q, m) \in Seq(Events)
           /\ m # Presence => Holds(Queued(q, m), m)
           /\ m = Presence => \A x : x # m => (Holds(q, x) <=> Holds(Queued(q, m), x))
           /\ \A i \in 1..Len(Queued(q, m)) : Queued(q, m)[i] = m \/ Holds(q, Queued(q, m)[i])
<1> USE DEF Holds
<1>1. CASE Len(q) < Room
  <2>1. Queued(q, m) = Append(q, m)
    BY <1>1 DEF Queued
  <2>2. Append(q, m) \in Seq(Events) /\ Len(Append(q, m)) = Len(q) + 1
    OBVIOUS
  <2>3. \A i \in 1..(Len(q) + 1) : Append(q, m)[i] = IF i = Len(q) + 1 THEN m ELSE q[i]
    OBVIOUS
  <2> QED
    BY <2>1, <2>2, <2>3
<1>2. CASE ~(Len(q) < Room) /\ m = Presence
  BY <1>2 DEF Queued
<1>3. CASE ~(Len(q) < Room) /\ m # Presence
  <2>1. Queued(q, m) = Append(Tail(q), m)
    BY <1>3 DEF Queued
  <2>2. q # <<>> /\ Len(q) \in Nat \ {0}
    BY <1>3 DEF EditAssumption
  <2>3. Tail(q) \in Seq(Events) /\ Len(Tail(q)) = Len(q) - 1 /\ \A i \in 1..(Len(q) - 1) : Tail(q)[i] = q[i + 1]
    BY <2>2
  <2>4. PICK t \in Seq(Events) : t = Tail(q)
    BY <2>3
  <2>5. Append(t, m) \in Seq(Events) /\ Len(Append(t, m)) = Len(t) + 1
    OBVIOUS
  <2>6. \A i \in 1..(Len(t) + 1) : Append(t, m)[i] = IF i = Len(t) + 1 THEN m ELSE t[i]
    OBVIOUS
  <2>7. PICK u \in Seq(Events) : u = Queued(q, m) /\ Len(u) = Len(q)
            /\ \A i \in 1..Len(u) : u[i] = IF i = Len(u) THEN m ELSE q[i + 1]
    <3>1. PICK n \in Nat : Len(q) = n /\ Len(t) = n - 1 /\ n # 0
      BY <2>2, <2>3, <2>4
    <3>2. PICK u \in Seq(Events) : u = Append(t, m)
      BY <2>5
    <3>3. u = Queued(q, m) /\ Len(u) = n
      BY <2>1, <2>4, <2>5, <3>1, <3>2
    <3>4. \A i \in 1..n : u[i] = IF i = n THEN m ELSE t[i]
      BY <2>6, <3>1, <3>2
    <3>5. \A i \in 1..n : i # n => t[i] = q[i + 1]
      BY <2>3, <2>4, <3>1
    <3> QED
      BY <3>1, <3>3, <3>4, <3>5
  <2>8. Holds(u, m)
    BY <2>2, <2>7
  <2>9. \A i \in 1..Len(u) : u[i] = m \/ Holds(q, u[i])
    BY <2>2, <2>7
  <2> QED
    BY <1>3, <2>7, <2>8, <2>9
<1> QED
  BY <1>1, <1>2, <1>3

\* A message more on the wire.
LEMMA SentFacts ==
    ASSUME NEW q \in Seq(Messages), NEW m \in Messages
    PROVE  /\ Append(q, m) \in Seq(Messages)
           /\ Len(Append(q, m)) = Len(q) + 1
           /\ \A i \in 1..Len(q) : Append(q, m)[i] = q[i]
           /\ Append(q, m)[Len(q) + 1] = m
OBVIOUS

\* A message less.
LEMMA TakenFacts ==
    ASSUME NEW S, NEW q \in Seq(S), q # <<>>
    PROVE  /\ Head(q) \in S /\ Head(q) = q[1]
           /\ Tail(q) \in Seq(S)
           /\ Len(q) \in Nat \ {0} /\ Len(Tail(q)) = Len(q) - 1
           /\ \A i \in 1..(Len(q) - 1) : Tail(q)[i] = q[i + 1]
OBVIOUS

LEMMA EditKeeps == ASSUME EditInv, Edit PROVE EditInv'
<1> USE DEF EditInv, EditTypes
<1> DEFINE d == DeltaOf(head + 1)
<1>1. head' = head + 1 /\ UNCHANGED <<life, wire, editor>>
  BY DEF Edit
<1>2. d \in Events /\ d # Presence
  BY DEF Events, DeltaOf, Presence
<1>3. pending' \in Seq(Events)
  BY <1>2, QueuedFacts, EditAssumption DEF Edit, Published
<1>4. EditTypes'
  BY <1>1, <1>3
<1>5. ASSUME editor.at = "open", editor.since = life
      PROVE  (Coming /\ AnswersTrue /\ WillAsk /\ NotAhead)'
  <2>1. pending' = Queued(pending, d)
    BY <1>5 DEF Edit, Published
  <2>2. Holds(pending', d) /\ \A i \in 1..Len(pending') : pending'[i] = d \/ Holds(pending, pending'[i])
    BY <1>2, <2>1, QueuedFacts, EditAssumption
  <2>3. d = DeltaOf(head)'
    BY <1>1
  <2>4. Coming' /\ AnswersTrue'
    BY <2>2, <2>3 DEF Coming, AnswersTrue
  <2>5. WillAsk'
    BY <1>1, <1>5 DEF WillAsk, HeadsIn
  <2>6. NotAhead'
    <3>1. NotAhead
      BY <1>5
    <3>2. \A i \in 1..Len(pending') : pending'[i].kind \in {"delta", "full"} => pending'[i].seq <= head + 1
      <4>1. SUFFICES ASSUME NEW i \in 1..Len(pending'), pending'[i].kind \in {"delta", "full"}
                     PROVE  pending'[i].seq <= head + 1
        OBVIOUS
      <4>2. CASE pending'[i] = d
        BY <4>2 DEF DeltaOf
      <4>3. CASE Holds(pending, pending'[i])
        <5>1. PICK j \in 1..Len(pending) : pending[j] = pending'[i]
          BY <4>3 DEF Holds
        <5>2. pending[j] \in Events
          OBVIOUS
        <5>3. pending[j].seq \in Nat /\ pending[j].seq <= head
          BY <3>1, <4>1, <5>1, <5>2 DEF NotAhead, Events
        <5> QED
          BY <5>1, <5>3
      <4> QED
        BY <2>2, <4>2, <4>3
    <3>3. \A i \in 1..Len(wire) : wire[i].kind \in {"delta", "full"} => wire[i].seq <= head + 1
      <4>1. \A i \in 1..Len(wire) : wire[i] \in Messages
        OBVIOUS
      <4> QED
        BY <3>1, <4>1 DEF NotAhead, Messages
    <3>4. editor.has => editor.seq <= head + 1
      BY <3>1 DEF NotAhead
    <3> QED
      BY <1>1, <3>2, <3>3, <3>4 DEF NotAhead
  <2> QED
    BY <2>4, <2>5, <2>6
<1> QED
  BY <1>1, <1>4, <1>5

LEMMA PresenceKeeps == ASSUME EditInv, ShowPresence PROVE EditInv'
<1> USE DEF EditInv, EditTypes
<1>1. pending' = Queued(pending, Presence) /\ UNCHANGED <<head, life, wire, editor>>
  BY DEF ShowPresence, Published
<1>2. Presence \in Events /\ DeltaOf(head) # Presence
  BY DEF Events, DeltaOf, Presence
<1>3. /\ pending' \in Seq(Events)
      /\ Holds(pending, DeltaOf(head)) <=> Holds(pending', DeltaOf(head))
      /\ \A i \in 1..Len(pending') : pending'[i] = Presence \/ Holds(pending, pending'[i])
  BY <1>1, <1>2, QueuedFacts, EditAssumption
<1>4. NotAhead => NotAhead'
  BY <1>1, <1>3 DEF NotAhead, Holds, Presence
<1>5. (Coming => Coming') /\ (AnswersTrue => AnswersTrue') /\ (WillAsk => WillAsk')
  BY <1>1, <1>3 DEF Coming, AnswersTrue, WillAsk, HeadsIn, Holds
<1> QED
  BY <1>1, <1>3, <1>4, <1>5

\* A place after the i-th of n messages is one of their places, and stays after
\* the i-th when one more message is sent.
LEMMA LaterPlace == ASSUME NEW n \in Nat, NEW i \in 1..n, NEW j \in (i + 1)..n
                    PROVE  j \in 1..n /\ j \in (i + 1)..(n + 1)
  OBVIOUS

LEMMA PumpKeeps == ASSUME EditInv, Pump PROVE EditInv'
<1> USE DEF EditInv, EditTypes
<1> DEFINE m == Head(pending)
<1>1. /\ pending # <<>> /\ wire' = Append(wire, m) /\ pending' = Tail(pending)
      /\ UNCHANGED <<head, life, editor>>
  BY DEF Pump
<1>2. /\ m \in Events /\ m = pending[1] /\ pending' \in Seq(Events)
      /\ Len(pending) \in Nat \ {0} /\ Len(pending') = Len(pending) - 1
      /\ \A i \in 1..(Len(pending) - 1) : pending'[i] = pending[i + 1]
  BY <1>1, TakenFacts
<1>3. /\ wire' \in Seq(Messages) /\ Len(wire') = Len(wire) + 1 /\ Len(wire) \in Nat
      /\ \A i \in 1..Len(wire) : wire'[i] = wire[i]
      /\ wire'[Len(wire) + 1] = m
  <2>1. m \in Messages
    BY <1>2 DEF Events, Messages
  <2> QED
    BY <1>1, <2>1, SentFacts
<1> HIDE DEF m
<1>4. \A x : Holds(pending, x) => x = m \/ Holds(pending', x)
  <2>1. SUFFICES ASSUME NEW x, NEW i \in 1..Len(pending), pending[i] = x, i # 1
                 PROVE  \E j \in 1..Len(pending') : pending'[j] = x
    BY <1>2 DEF Holds
  <2>2. i - 1 \in 1..Len(pending') /\ pending'[i - 1] = x
    BY <1>2, <2>1
  <2> QED
    BY <2>2
<1>5. Holds(wire', m) /\ (HeadsIn(wire) => HeadsIn(wire')) /\ \A x : Holds(wire, x) => Holds(wire', x)
  BY <1>3 DEF Holds, HeadsIn
<1>6. Coming => Coming'
  BY <1>1, <1>4, <1>5 DEF Coming
<1>7. WillAsk => WillAsk'
  BY <1>1, <1>5 DEF WillAsk
<1>8. NotAhead => NotAhead'
  BY <1>1, <1>2, <1>3 DEF NotAhead
<1>9. ASSUME AnswersTrue, NotAhead, Coming, editor.at = "open", editor.since = life
      PROVE  AnswersTrue'
  <2>1. SUFFICES ASSUME NEW i \in 1..Len(wire'), wire'[i].kind = "full"
                 PROVE  \/ wire'[i].seq = head
                        \/ \E j \in (i + 1)..Len(wire') : wire'[j] = DeltaOf(head)
                        \/ Holds(pending', DeltaOf(head))
    BY <1>1 DEF AnswersTrue
  <2>2. CASE i \in 1..Len(wire)
    <3>1. \/ wire[i].seq = head
          \/ \E j \in (i + 1)..Len(wire) : wire[j] = DeltaOf(head)
          \/ Holds(pending, DeltaOf(head))
      BY <1>3, <1>9, <2>1, <2>2 DEF AnswersTrue
    <3>2. ASSUME NEW j \in (i + 1)..Len(wire), wire[j] = DeltaOf(head)
          PROVE  j \in (i + 1)..Len(wire') /\ wire'[j] = DeltaOf(head)
      <4>1. j \in 1..Len(wire) /\ j \in (i + 1)..(Len(wire) + 1)
        BY <1>3, <2>2, <3>2, LaterPlace
      <4>2. wire'[j] = wire[j] /\ Len(wire') = Len(wire) + 1
        BY <1>3, <4>1
      <4> QED
        BY <3>2, <4>1, <4>2
    <3>3. m = DeltaOf(head) => Len(wire) + 1 \in (i + 1)..Len(wire') /\ wire'[Len(wire) + 1] = DeltaOf(head)
      BY <1>3, <2>2
    <3> QED
      BY <1>3, <1>4, <2>2, <3>1, <3>2, <3>3
  <2>3. CASE i = Len(wire) + 1
    BY <1>2, <1>3, <2>1, <2>3 DEF Events
  <2> QED
    BY <1>3, <2>2, <2>3
<1> QED
  BY <1>1, <1>2, <1>3, <1>6, <1>7, <1>8, <1>9

LEMMA AnswerKeeps == ASSUME EditInv, Answer PROVE EditInv'
<1> USE DEF EditInv, EditTypes
<1> DEFINE m == Full(head)
<1>1. wire' = Append(wire, m) /\ UNCHANGED <<head, life, pending, editor>> /\ editor.asked
  BY DEF Answer
<1>2. m \in Messages /\ m.kind = "full" /\ m.seq = head
  BY DEF Messages, Full
<1>3. /\ wire' \in Seq(Messages) /\ Len(wire') = Len(wire) + 1 /\ Len(wire) \in Nat
      /\ \A i \in 1..Len(wire) : wire'[i] = wire[i]
      /\ wire'[Len(wire) + 1] = m
  BY <1>1, <1>2, SentFacts
<1> HIDE DEF m
<1>4. (Coming /\ WillAsk)'
  BY <1>1 DEF Coming, WillAsk
<1>5. NotAhead => NotAhead'
  BY <1>1, <1>2, <1>3 DEF NotAhead
<1>6. ASSUME AnswersTrue PROVE AnswersTrue'
  <2>1. SUFFICES ASSUME NEW i \in 1..Len(wire'), wire'[i].kind = "full"
                 PROVE  \/ wire'[i].seq = head
                        \/ \E j \in (i + 1)..Len(wire') : wire'[j] = DeltaOf(head)
                        \/ Holds(pending, DeltaOf(head))
    BY <1>1 DEF AnswersTrue
  <2>2. CASE i \in 1..Len(wire)
    <3>1. \/ wire[i].seq = head
          \/ \E j \in (i + 1)..Len(wire) : wire[j] = DeltaOf(head)
          \/ Holds(pending, DeltaOf(head))
      BY <1>3, <1>6, <2>1, <2>2 DEF AnswersTrue
    <3>2. ASSUME NEW j \in (i + 1)..Len(wire), wire[j] = DeltaOf(head)
          PROVE  j \in (i + 1)..Len(wire') /\ wire'[j] = DeltaOf(head)
      <4>1. j \in 1..Len(wire) /\ j \in (i + 1)..(Len(wire) + 1)
        BY <1>3, <2>2, <3>2, LaterPlace
      <4>2. wire'[j] = wire[j] /\ Len(wire') = Len(wire) + 1
        BY <1>3, <4>1
      <4> QED
        BY <3>2, <4>1, <4>2
    <3> QED
      BY <1>3, <2>2, <3>1, <3>2
  <2>3. CASE i = Len(wire) + 1
    BY <1>2, <1>3, <2>3
  <2> QED
    BY <1>3, <2>2, <2>3
<1> QED
  BY <1>1, <1>3, <1>4, <1>5, <1>6

LEMMA JoinKeeps == ASSUME EditInv, Join PROVE EditInv'
<1> USE DEF EditInv, EditTypes
<1>1. /\ editor' = [NoEditor EXCEPT !.at = "open", !.since = life]
      /\ pending' = <<>> /\ UNCHANGED <<head, life>> /\ wire' = <<Heads(head)>>
  BY DEF Join
<1>2. /\ Len(wire') = 1 /\ wire'[1] = Heads(head) /\ wire' \in Seq(Messages)
      /\ Len(pending') = 0 /\ pending' \in Seq(Events)
  BY <1>1 DEF Heads, Messages
<1>3. ~editor'.has
  BY <1>1 DEF NoEditor
<1>4. EditTypes'
  <2>1. editor' = [at |-> "open", has |-> FALSE, seq |-> 0, asked |-> FALSE, since |-> life]
    BY <1>1 DEF NoEditor
  <2>2. editor'.since = life /\ life' = life /\ head' = head
    BY <1>1, <2>1
  <2>3. editor' \in [at : {"away", "open"}, has : BOOLEAN, seq : Nat, asked : BOOLEAN, since : Nat]
    BY <2>1
  <2> QED
    BY <1>2, <2>2, <2>3
<1>5. HeadsIn(wire')
  BY <1>2 DEF HeadsIn, Heads
<1>6. (Coming /\ WillAsk)'
  BY <1>5 DEF Coming, WillAsk
<1>7. (AnswersTrue /\ NotAhead)'
  BY <1>2, <1>3 DEF AnswersTrue, NotAhead, Heads
<1> QED
  BY <1>4, <1>6, <1>7

\* The order of what remains on the wire.
LEMMA TakeKeeps == ASSUME EditInv, Take PROVE EditInv'
<1> USE DEF EditInv, EditTypes
<1> DEFINE m == Head(wire)
           follows == m.kind = "delta" /\ editor.has /\ ~editor.asked
<1>1. /\ wire # <<>> /\ editor.at = "open" /\ wire' = Tail(wire)
      /\ UNCHANGED <<head, life, pending>>
      /\ editor' = IF m.kind = "heads" THEN [editor EXCEPT !.asked = TRUE]
             ELSE IF m.kind = "full" THEN [editor EXCEPT !.has = TRUE, !.seq = m.seq, !.asked = FALSE]
             ELSE IF follows /\ m.seq = editor.seq + 1 THEN [editor EXCEPT !.seq = m.seq]
             ELSE IF follows /\ m.seq > editor.seq + 1 THEN [editor EXCEPT !.asked = TRUE]
             ELSE editor
  BY DEF Take
<1>2. /\ m \in Messages /\ m = wire[1] /\ wire' \in Seq(Messages)
      /\ Len(wire) \in Nat \ {0} /\ Len(wire') = Len(wire) - 1
      /\ \A i \in 1..(Len(wire) - 1) : wire'[i] = wire[i + 1]
  BY <1>1, TakenFacts
<1>3. m.kind \in {"delta", "full", "heads", "presence"} /\ m.seq \in Nat
  BY <1>2 DEF Messages
<1> HIDE DEF m
<1>4. EditTypes' /\ editor'.at = "open" /\ editor'.since = editor.since
  BY <1>1, <1>2, <1>3
<1>5. ASSUME Coming, AnswersTrue, WillAsk, NotAhead
      PROVE  (Coming /\ AnswersTrue /\ WillAsk /\ NotAhead)'
  <2>1. \A x : Holds(wire, x) => x = m \/ Holds(wire', x)
    <3>1. SUFFICES ASSUME NEW x, NEW i \in 1..Len(wire), wire[i] = x, i # 1
                   PROVE  \E j \in 1..Len(wire') : wire'[j] = x
      BY <1>2 DEF Holds
    <3>2. i - 1 \in 1..Len(wire') /\ wire'[i - 1] = x
      BY <1>2, <3>1
    <3> QED
      BY <3>2
  <2>2. HeadsIn(wire) => m.kind = "heads" \/ HeadsIn(wire')
    <3>1. SUFFICES ASSUME NEW i \in 1..Len(wire), wire[i].kind = "heads", i # 1
                   PROVE  \E j \in 1..Len(wire') : wire'[j].kind = "heads"
      BY <1>2 DEF HeadsIn
    <3>2. i - 1 \in 1..Len(wire') /\ wire'[i - 1].kind = "heads"
      BY <1>2, <3>1
    <3> QED
      BY <3>2
  <2>3. AnswersTrue'
    <3>1. SUFFICES ASSUME NEW i \in 1..Len(wire'), wire'[i].kind = "full"
                   PROVE  \/ wire'[i].seq = head
                          \/ \E j \in (i + 1)..Len(wire') : wire'[j] = DeltaOf(head)
                          \/ Holds(pending, DeltaOf(head))
      BY <1>1 DEF AnswersTrue
    <3>2. i + 1 \in 1..Len(wire) /\ wire'[i] = wire[i + 1]
      BY <1>2
    <3>3. ASSUME NEW j \in (i + 2)..Len(wire), wire[j] = DeltaOf(head)
          PROVE  j - 1 \in (i + 1)..Len(wire') /\ wire'[j - 1] = DeltaOf(head)
      BY <1>2, <3>3
    <3>4. \/ wire[i + 1].seq = head
          \/ \E j \in (i + 2)..Len(wire) : wire[j] = DeltaOf(head)
          \/ Holds(pending, DeltaOf(head))
      BY <1>5, <3>1, <3>2 DEF AnswersTrue
    <3> QED
      BY <3>2, <3>3, <3>4
  <2>4. m.kind = "full" => m.seq = head \/ Holds(wire', DeltaOf(head)) \/ Holds(pending, DeltaOf(head))
    <3>1. SUFFICES ASSUME m.kind = "full" PROVE m.seq = head \/ Holds(wire', DeltaOf(head)) \/ Holds(pending, DeltaOf(head))
      OBVIOUS
    <3>2. \/ m.seq = head \/ Holds(pending, DeltaOf(head))
          \/ \E j \in 2..Len(wire) : wire[j] = DeltaOf(head)
      BY <1>2, <1>5, <3>1 DEF AnswersTrue
    <3>3. ASSUME NEW j \in 2..Len(wire), wire[j] = DeltaOf(head)
          PROVE  j - 1 \in 1..Len(wire') /\ wire'[j - 1] = DeltaOf(head)
      BY <1>2, <3>3
    <3> QED
      BY <3>2, <3>3 DEF Holds
  <2>5. m.kind \in {"delta", "full"} => m.seq <= head
    BY <1>2, <1>5 DEF NotAhead
  <2>6. NotAhead'
    BY <1>1, <1>2, <1>3, <1>5, <2>5 DEF NotAhead
  <2>7. WillAsk'
    BY <1>1, <1>2, <1>3, <1>5, <2>2 DEF WillAsk
  <2>8. Coming'
    <3>1. CASE m.kind = "heads"
      BY <1>1, <3>1 DEF Coming
    <3>2. CASE m.kind = "full"
      BY <1>1, <2>4, <3>2 DEF Coming
    <3>3. CASE m.kind = "presence"
      <4>1. m # DeltaOf(head) /\ editor' = editor
        BY <1>1, <3>3 DEF DeltaOf
      <4> QED
        BY <1>1, <1>5, <2>1, <2>2, <3>3, <4>1 DEF Coming
    <3>4. CASE m.kind = "delta" /\ follows
      <4>1. editor'.asked \/ (editor'.has /\ editor'.seq = m.seq) \/ (editor' = editor /\ m.seq <= editor.seq)
        BY <1>1, <1>3, <3>4
      <4>2. m = DeltaOf(head) => m.seq = head
        BY DEF DeltaOf
      <4>3. editor.seq <= head
        BY <1>5, <3>4 DEF NotAhead
      <4>4. m = DeltaOf(head) => Coming'
        BY <1>1, <3>4, <4>1, <4>2, <4>3 DEF Coming
      <4>5. m # DeltaOf(head) => Coming'
        <5>1. editor'.has
          BY <1>1, <3>4
        <5>2. editor.seq = head => editor' = editor
          BY <1>1, <1>3, <2>5, <3>4
        <5> QED
          BY <1>1, <1>5, <2>1, <2>2, <3>4, <5>1, <5>2 DEF Coming
      <4> QED
        BY <4>4, <4>5
    <3>5. CASE m.kind = "delta" /\ ~follows
      <4>1. editor' = editor
        BY <1>1, <3>5
      <4>2. editor.asked \/ HeadsIn(wire')
        BY <1>5, <2>2, <3>5 DEF WillAsk
      <4> QED
        BY <4>1, <4>2 DEF Coming
    <3> QED
      BY <1>3, <3>1, <3>2, <3>3, <3>4, <3>5
  <2> QED
    BY <2>3, <2>6, <2>7, <2>8
<1> QED
  BY <1>1, <1>4, <1>5

LEMMA EditStep == EditInv /\ [EditNext]_editVars => EditInv'
<1> SUFFICES ASSUME EditInv, [EditNext]_editVars PROVE EditInv'
  OBVIOUS
<1>1. CASE Replace
  BY <1>1 DEF Replace, EditInv, EditTypes
<1>2. CASE HangUp
  BY <1>2 DEF HangUp, EditInv, EditTypes, NoEditor
<1>3. CASE UNCHANGED editVars
  BY <1>3 DEF editVars, EditInv, EditTypes, Coming, AnswersTrue, WillAsk, NotAhead, Holds, HeadsIn
<1> QED
  BY <1>1, <1>2, <1>3, EditKeeps, PresenceKeeps, PumpKeeps, AnswerKeeps, JoinKeeps, TakeKeeps DEF EditNext

\* Publish and workspace_ws of scheduler/api/workspace_routes.py: an editor that
\* has nothing left to receive has the text of the workspace it joined.
THEOREM EditorsConverge == EditSpec => []Converged
<1>1. EditInv => Converged
  <2>1. SUFFICES ASSUME EditInv, editor.at = "open", editor.has, ~editor.asked,
                        wire = <<>>, ~\E i \in DOMAIN pending : pending[i].kind = "delta",
                        editor.since = life
                 PROVE  editor.seq = head
    BY DEF Converged
  <2>2. pending \in Seq(Events)
    BY <2>1 DEF EditInv, EditTypes
  <2>3. ~Holds(pending, DeltaOf(head))
    BY <2>1, <2>2 DEF Holds, DeltaOf
  <2>4. ~HeadsIn(wire) /\ ~Holds(wire, DeltaOf(head))
    BY <2>1 DEF HeadsIn, Holds
  <2> QED
    BY <2>1, <2>3, <2>4 DEF EditInv, Coming
<1> QED
  BY <1>1, EditInitially, EditStep, PTL DEF EditSpec

-----------------------------------------------------------------------------
(***************************************************************************)
(* The files of a live workspace                                           *)
(*                                                                         *)
(* The invariant is Recoverable and the shape of the objects; what texts   *)
(* and histories are does not matter.                                      *)
(***************************************************************************)
IsObject(w) ==
    /\ w = [files |-> w.files, seq |-> w.seq, dirty |-> w.dirty]
    /\ w.dirty \in BOOLEAN
    /\ w.files = [p \in DOMAIN w.files |-> w.files[p]]

LiveTypes ==
    /\ \E S : space \in Seq(S)
    /\ \A k \in 1..Len(space) : IsObject(space[k])
    /\ current \in 0..Len(space)
    /\ stray \in BOOLEAN

\* The files d have what the object w shows.
Saved(w, d) ==
    \A p \in DOMAIN w.files : w.files[p].version > 0 => p \in DOMAIN d /\ d[p] = w.files[p].text

\* Recoverable, of the current object.
Restored == Exists /\ ~Ws.dirty /\ ~stray => Saved(Ws, disk)

LiveInv == LiveTypes /\ Restored

LEMMA LiveInitially == LiveInit => LiveInv
<1>1. LiveInit => Len(space) = 0 /\ space \in Seq({})
  BY DEF LiveInit
<1>2. LiveInit => LiveTypes
  <2>1. SUFFICES ASSUME LiveInit PROVE LiveTypes
    OBVIOUS
  <2>2. \E S : space \in Seq(S)
    BY <1>1, <2>1
  <2>3. current = 0 /\ stray = FALSE /\ Len(space) = 0
    BY <1>1, <2>1 DEF LiveInit
  <2>4. \A k \in 1..Len(space) : IsObject(space[k])
    BY <2>3
  <2>5. current \in 0..Len(space)
    BY <2>3
  <2> QED
    BY <2>2, <2>3, <2>4, <2>5 DEF LiveTypes
<1> QED
  BY <1>2 DEF LiveInit, LiveInv, Restored, Exists

\* Another row in a sequence, and one more.
LEMMA RowReplaced ==
    ASSUME NEW S, NEW s \in Seq(S), NEW c \in 1..Len(s), NEW r
    PROVE  LET t == [s EXCEPT ![c] = r]
           IN  /\ \E T : t \in Seq(T)
               /\ Len(t) = Len(s)
               /\ t[c] = r /\ \A k \in 1..Len(s) : k # c => t[k] = s[k]
<1>1. s \in Seq(S \cup {r})
  OBVIOUS
<1>2. [s EXCEPT ![c] = r] \in Seq(S \cup {r})
  BY <1>1
<1>3. Len([s EXCEPT ![c] = r]) = Len(s)
  OBVIOUS
<1>4. DOMAIN s = 1..Len(s)
  OBVIOUS
<1> QED
  BY <1>2, <1>3, <1>4

LEMMA RowAdded ==
    ASSUME NEW S, NEW s \in Seq(S), NEW r
    PROVE  /\ \E T : Append(s, r) \in Seq(T)
           /\ Len(Append(s, r)) = Len(s) + 1
           /\ Append(s, r)[Len(s) + 1] = r
           /\ \A k \in 1..Len(s) : Append(s, r)[k] = s[k]
<1> DEFINE T == S \cup {r}
<1>1. s \in Seq(T) /\ r \in T
  OBVIOUS
<1> HIDE DEF T
<1> QED
  BY <1>1

\* What a flush writes over the disk is there afterwards.
LEMMA OverFacts ==
    ASSUME NEW files, NEW below
    PROVE  \A p \in DOMAIN files : p \in DOMAIN Over(files, below) /\ Over(files, below)[p] = files[p]
BY DEF Over

\* A step that replaces the row of an object, and keeps which is current.
LEMMA ReplacedTypes ==
    ASSUME LiveTypes, NEW c \in 1..Len(space), NEW r, IsObject(r),
           space' = [space EXCEPT ![c] = r], current' = current, stray' \in BOOLEAN
    PROVE  /\ LiveTypes'
           /\ space'[c] = r /\ \A k \in 1..Len(space) : k # c => space'[k] = space[k]
<1>1. PICK S : space \in Seq(S)
  BY DEF LiveTypes
<1>2. /\ \E T : space' \in Seq(T)
      /\ Len(space') = Len(space)
      /\ space'[c] = r /\ \A k \in 1..Len(space) : k # c => space'[k] = space[k]
  BY <1>1, RowReplaced
<1>3. \A k \in 1..Len(space') : IsObject(space'[k])
  BY <1>2 DEF LiveTypes
<1>4. current' \in 0..Len(space')
  BY <1>2 DEF LiveTypes
<1> QED
  BY <1>2, <1>3, <1>4 DEF LiveTypes

LEMMA PatchKeeps == ASSUME LiveInv, NEW b, NEW os, Patch(b, os) PROVE LiveInv'
<1> DEFINE f == Patched(FileAt(current, b.path), b.version, os)
           files == [p \in DOMAIN Ws.files \cup {b.path} |-> IF p = b.path THEN f ELSE Ws.files[p]]
           r == [files |-> files, seq |-> space[current].seq + 1, dirty |-> TRUE]
<1>1. /\ Exists /\ space' = [space EXCEPT ![current] = r]
      /\ UNCHANGED <<current, stray>>
  BY DEF Patch
<1>2. current \in 1..Len(space) /\ LiveTypes /\ stray' \in BOOLEAN
  BY <1>1 DEF LiveInv, LiveTypes, Exists
<1>3. IsObject(r) /\ r.dirty
  BY DEF IsObject
<1> HIDE DEF r
<1>4. LiveTypes' /\ space'[current] = r
  BY <1>1, <1>2, <1>3, ReplacedTypes
<1>5. Ws' = r
  BY <1>1, <1>4 DEF Ws
<1> QED
  BY <1>3, <1>4, <1>5 DEF LiveInv, Restored, Recoverable

LEMMA RefusePatchKeeps == ASSUME LiveInv, NEW p, RefusePatch(p) PROVE LiveInv'
<1> DEFINE files == [q \in DOMAIN Ws.files \cup {p} |-> FileAt(current, q)]
           r == [files |-> files, seq |-> Ws.seq, dirty |-> Ws.dirty]
<1>1. /\ Exists /\ p \notin DOMAIN Ws.files
      /\ space' = [space EXCEPT ![current].files = files]
      /\ UNCHANGED <<current, disk, stray>>
  BY DEF RefusePatch
<1>2. current \in 1..Len(space) /\ LiveTypes /\ stray' \in BOOLEAN
  BY <1>1 DEF LiveInv, LiveTypes, Exists
<1>3. IsObject(Ws)
  BY <1>2 DEF LiveTypes, Ws
<1>4. [Ws EXCEPT !.files = files] = r
  BY <1>3 DEF IsObject
<1>5. space' = [space EXCEPT ![current] = r]
  BY <1>1, <1>2, <1>4 DEF Ws
<1>6. IsObject(r)
  BY <1>3 DEF IsObject
<1>7. LiveTypes' /\ space'[current] = r
  BY <1>1, <1>2, <1>5, <1>6, ReplacedTypes
<1>8. Ws' = r
  BY <1>1, <1>7 DEF Ws
<1>9. \A q \in DOMAIN files : IF q \in DOMAIN Ws.files THEN files[q] = Ws.files[q] ELSE files[q].version = 0
  BY DEF FileAt, Ws, NoFile, File
<1> HIDE DEF files
<1>10. Saved(Ws, disk) => Saved(r, disk)
  <2>1. r.files = files
    OBVIOUS
  <2> QED
    BY <1>9, <2>1 DEF Saved
<1>11. (Exists /\ ~Ws.dirty /\ ~stray)' => Exists /\ ~Ws.dirty /\ ~stray
  BY <1>1, <1>8 DEF Exists
<1> QED
  BY <1>1, <1>7, <1>8, <1>10, <1>11 DEF LiveInv, Restored

\* An object whose files have been saved.
LEMMA CleanObject ==
    ASSUME NEW w, IsObject(w)
    PROVE  [w EXCEPT !.dirty = FALSE] = [files |-> w.files, seq |-> w.seq, dirty |-> FALSE]
<1>1. PICK a, b, c : w = [files |-> a, seq |-> b, dirty |-> c]
  BY DEF IsObject
<1>2. w.files = a /\ w.seq = b
  BY <1>1
<1>3. PICK d : d = FALSE
  OBVIOUS
<1>4. [w EXCEPT !.dirty = d] = [files |-> a, seq |-> b, dirty |-> d]
  BY <1>1
<1> QED
  BY <1>2, <1>3, <1>4, Zenon

LEMMA FlushKeeps ==
    ASSUME LiveInv, NEW k \in 1..Len(space), Flush(k), current' = current
    PROVE  LiveInv'
<1>1. LiveTypes /\ Restored /\ IsObject(space[k])
  BY DEF LiveInv, LiveTypes
<1>2. CASE ~space[k].dirty
  BY <1>2 DEF Flush, LiveInv, LiveTypes, Restored, Exists, Ws
<1>3. CASE /\ space[k].dirty
           /\ disk' = Over(Texts(k), disk)
           /\ space' = [space EXCEPT ![k].dirty = FALSE]
           /\ stray' = (k # current)
  <2> DEFINE r == [files |-> space[k].files, seq |-> space[k].seq, dirty |-> FALSE]
  <2> DEFINE F == space[k].files
  <2>1. IsObject(r) /\ space' = [space EXCEPT ![k] = r]
    <3>1. F = [p \in DOMAIN F |-> F[p]]
      BY <1>1 DEF IsObject
    <3>2. [space[k] EXCEPT !.dirty = FALSE] = r
      BY <1>1, CleanObject
    <3> HIDE DEF F
    <3>3. r.files = F /\ r.dirty = FALSE /\ r = [files |-> r.files, seq |-> r.seq, dirty |-> r.dirty]
      BY DEF F
    <3>4. IsObject(r)
      BY <3>1, <3>3 DEF IsObject
    <3> QED
      BY <1>3, <3>2, <3>4
  <2>2. LiveTypes' /\ space'[k] = r
    BY <1>1, <1>3, <2>1, ReplacedTypes
  <2>3. ASSUME (Exists /\ ~Ws.dirty /\ ~stray)' PROVE Saved(Ws, disk)'
    <3>1. k = current /\ Ws' = r
      BY <1>3, <2>2, <2>3 DEF Ws
    <3>2. DOMAIN Texts(k) = DOMAIN r.files /\ \A p \in DOMAIN r.files : Texts(k)[p] = r.files[p].text
      BY DEF Texts
    <3>3. Saved(r, disk')
      BY <1>3, <3>2, OverFacts DEF Saved
    <3> QED
      BY <3>1, <3>3
  <2> QED
    BY <2>2, <2>3 DEF LiveInv, Restored
<1>4. CASE space[k].dirty /\ UNCHANGED space /\ stray' = (stray \/ k # current)
  <2>1. LiveTypes'
    BY <1>1, <1>4 DEF LiveTypes
  <2>2. ~(Exists /\ ~Ws.dirty /\ ~stray)'
    BY <1>1, <1>4 DEF Ws
  <2> QED
    BY <2>1, <2>2 DEF LiveInv, Restored
<1> QED
  BY <1>2, <1>3, <1>4 DEF Flush

\* The object that files make, and the files it is made of.
LEMMA FreshFacts ==
    ASSUME NEW files
    PROVE  /\ IsObject(Fresh(files))
           /\ \A d : (\A p \in DOMAIN files : p \in DOMAIN d /\ d[p] = files[p]) => Saved(Fresh(files), d)
BY DEF Fresh, IsObject, Saved, File

LEMMA CreateKeeps == ASSUME LiveInv, NEW files, Create(files) PROVE LiveInv'
<1>1. /\ current' = Len(space) + 1 /\ space' = Append(space, Fresh(files))
      /\ disk' = Over(files, disk) /\ stray' = FALSE
  BY DEF Create, NewLife
<1>2. PICK S : space \in Seq(S)
  BY DEF LiveInv, LiveTypes
<1>3. /\ \E T : space' \in Seq(T)
      /\ Len(space') = Len(space) + 1
      /\ space'[Len(space) + 1] = Fresh(files)
      /\ \A k \in 1..Len(space) : space'[k] = space[k]
  <2>1. PICK r : r = Fresh(files)
    OBVIOUS
  <2>2. /\ \E T : Append(space, r) \in Seq(T)
        /\ Len(Append(space, r)) = Len(space) + 1
        /\ Append(space, r)[Len(space) + 1] = r
        /\ \A k \in 1..Len(space) : Append(space, r)[k] = space[k]
    BY ONLY <1>2, RowAdded
  <2>3. space' = Append(space, r)
    BY <1>1, <2>1
  <2> QED
    BY <2>1, <2>2, <2>3
<1>4. Len(space) \in Nat
  BY <1>2
<1>5. \A k \in 1..Len(space') : IsObject(space'[k])
  BY <1>3, <1>4, FreshFacts DEF LiveInv, LiveTypes
<1>0. stray' \in BOOLEAN
  BY Zenon DEF Create
<1>6. LiveTypes'
  <2>1. current' \in 0..Len(space')
    BY <1>1, <1>3, <1>4
  <2> QED
    BY <1>0, <1>3, <1>5, <2>1, Zenon DEF LiveTypes
<1>7. Ws' = Fresh(files)
  BY <1>1, <1>3 DEF Ws
<1>8. Saved(Ws, disk)'
  BY <1>1, <1>7, OverFacts, FreshFacts
<1> QED
  BY <1>6, <1>8 DEF LiveInv, Restored

\* Either nothing of the refused creation is on disk, or the directory is spoiled.
LEMMA CreateRefusedKeeps == ASSUME LiveInv, NEW files, CreateRefused(files) PROVE LiveInv'
<1>1. UNCHANGED <<space, current>>
  BY DEF CreateRefused
<1>2. PICK P \in SUBSET DOMAIN files : disk' = Over(Some(files, P), disk) /\ stray' = (stray \/ P # {})
  BY DEF CreateRefused
<1>3. stray \in BOOLEAN /\ stray' \in BOOLEAN
  BY <1>2 DEF LiveInv, LiveTypes
<1>4. LiveTypes'
  BY <1>1, <1>3 DEF LiveInv, LiveTypes
<1>5. ASSUME (Exists /\ ~Ws.dirty /\ ~stray)' PROVE Saved(Ws, disk)'
  <2>1. P = {} /\ Exists /\ ~Ws.dirty /\ ~stray /\ Ws' = Ws
    BY <1>1, <1>2, <1>3, <1>5 DEF Exists, Ws
  <2>2. Saved(Ws, disk)
    BY <2>1 DEF LiveInv, Restored
  <2>3. DOMAIN Some(files, P) = {}
    BY <2>1 DEF Some
  <2>4. \A p \in DOMAIN disk : p \in DOMAIN disk' /\ disk'[p] = disk[p]
    BY <1>2, <2>3 DEF Over
  <2> QED
    BY <2>1, <2>2, <2>4 DEF Saved
<1> QED
  BY <1>4, <1>5 DEF LiveInv, Restored

LEMMA LiveRestartKeeps == ASSUME LiveInv, LiveRestart PROVE LiveInv'
<1> DEFINE gone == [k \in DOMAIN space |-> Fresh(NoFiles)]
<1>1. stray' = FALSE /\ disk' = disk
  BY DEF LiveRestart
<1>0. stray' \in BOOLEAN
  BY Zenon DEF LiveRestart
<1>2. PICK S : space \in Seq(S)
  BY DEF LiveInv, LiveTypes
<1>3. /\ gone \in Seq({Fresh(NoFiles)}) /\ Len(gone) = Len(space) /\ Len(space) \in Nat
      /\ \A k \in 1..Len(space) : gone[k] = Fresh(NoFiles)
  BY <1>2
<1>4. IsObject(Fresh(NoFiles))
  BY FreshFacts
<1>5. CASE repo.there
  <2>1. current' = Len(space) + 1 /\ space' = Append(gone, Fresh(disk))
    BY <1>5 DEF LiveRestart, NewLife
  <2> HIDE DEF gone
  <2>2. /\ \E T : space' \in Seq(T)
        /\ Len(space') = Len(space) + 1
        /\ space'[Len(space) + 1] = Fresh(disk)
        /\ \A k \in 1..Len(space) : space'[k] = gone[k]
    BY <1>3, <2>1, RowAdded
  <2>3. \A k \in 1..Len(space') : IsObject(space'[k])
    BY <1>3, <1>4, <2>2, FreshFacts
  <2>4. LiveTypes'
    <3>1. current' \in 0..Len(space')
      BY <1>3, <2>1, <2>2
    <3> QED
      BY <1>0, <2>2, <2>3, <3>1, Zenon DEF LiveTypes
  <2>5. Saved(Ws, disk)'
    BY <1>1, <2>1, <2>2, FreshFacts DEF Ws
  <2> QED
    BY <2>4, <2>5 DEF LiveInv, Restored
<1>6. CASE ~repo.there
  <2>1. current' = 0 /\ space' = gone
    BY <1>6 DEF LiveRestart
  <2>2. \E T : space' \in Seq(T)
    BY <1>3, <2>1
  <2> HIDE DEF gone
  <2>3. LiveTypes'
    <3>1. current' \in 0..Len(space') /\ \A k \in 1..Len(space') : IsObject(space'[k])
      BY <1>3, <1>4, <2>1
    <3> QED
      BY <1>0, <2>2, <3>1, Zenon DEF LiveTypes
  <2> QED
    BY <2>1, <2>3 DEF LiveInv, Restored, Exists
<1> QED
  BY <1>5, <1>6

LEMMA LiveStep == LiveInv /\ [LiveNext]_liveVars => LiveInv'
<1> SUFFICES ASSUME LiveInv, [LiveNext]_liveVars PROVE LiveInv'
  OBVIOUS
<1>1. DOMAIN space = 1..Len(space) /\ Len(space) \in Nat
  BY DEF LiveInv, LiveTypes
<1>2. ASSUME NEW k \in DOMAIN space, DebouncedFlush(k) \/ DueFlush(k) PROVE LiveInv'
  BY <1>1, <1>2, FlushKeeps DEF DebouncedFlush, DueFlush
<1>3. ASSUME NEW k \in DOMAIN space, CancellationHandled(k) PROVE LiveInv'
  BY <1>3 DEF CancellationHandled, LiveInv, LiveTypes, Restored, Exists, Ws
<1>4. CASE ForceFlush \/ Tick
  <2>1. current \in 1..Len(space) /\ Flush(current) /\ current' = current
    BY <1>1, <1>4 DEF Tick, ForceFlush, Exists, LiveInv, LiveTypes
  <2> QED
    BY <2>1, FlushKeeps
<1>5. CASE Clear
  <2>1. current' = 0 /\ space' = space
    BY <1>5 DEF Clear
  <2>2. stray' \in BOOLEAN
    BY <1>5, Zenon DEF Clear
  <2>3. current' \in 0..Len(space')
    BY <1>1, <2>1
  <2>4. LiveTypes'
    BY <2>1, <2>2, <2>3, Zenon DEF LiveInv, LiveTypes
  <2> QED
    BY <2>1, <2>4 DEF LiveInv, Restored, Exists
<1>6. CASE UNCHANGED liveVars
  BY <1>6 DEF liveVars, LiveInv, LiveTypes, Restored, Exists, Ws
<1> QED
  BY <1>2, <1>3, <1>4, <1>5, <1>6, PatchKeeps, RefusePatchKeeps, CreateKeeps, CreateRefusedKeeps,
     LiveRestartKeeps DEF LiveNext

\* Flush, patch and rehydrate of scheduler/workspace.py: what a workspace that is
\* not dirty shows is on disk, and comes back after a restart.
THEOREM RecoverableHolds == LiveSpec => []Recoverable
<1>1. LiveInv => Recoverable
  BY DEF LiveInv, Restored, Recoverable, Saved
<1> QED
  BY <1>1, LiveInitially, LiveStep, PTL DEF LiveSpec

-----------------------------------------------------------------------------
(***************************************************************************)
(* Lines through operations                                                *)
(***************************************************************************)
\* The function by which the library folds: the last element, over the rest.
Folds(g, line, os) ==
    g = [S \in SUBSET DOMAIN os |-> IF S = {} THEN line ELSE Shifted(g[S \ {Max(S)}], os[Max(S)])]

LEMMA FoldIs ==
    ASSUME NEW line, NEW os
    PROVE  FoldLeft(Shifted, line, os) = (CHOOSE g : Folds(g, line, os))[DOMAIN os]
BY DEF FoldLeft, MapThenFoldSet, Folds

\* Its values for sets of the first n places.
FoldsTo(g, n, line, os) ==
    \A S \in SUBSET (1..n) : g[S] = IF S = {} THEN line ELSE Shifted(g[S \ {Max(S)}], os[Max(S)])

LEMMA LastPlace ==
    ASSUME NEW n \in Nat, NEW S \in SUBSET (1..(n + 1))
    PROVE  /\ n + 1 \in S => Max(S) = n + 1 /\ S \ {Max(S)} \in SUBSET (1..n)
           /\ n + 1 \notin S => S \in SUBSET (1..n)
           /\ S # {} => Max(S) \in S
<1>1. n + 1 \notin S => S \in SUBSET (1..n)
  OBVIOUS
<1>2. S # {} => Max(S) \in S /\ \A y \in S : Max(S) >= y
  <2>1. n + 1 \in Nat /\ S \subseteq 1..(n + 1)
    OBVIOUS
  <2> QED
    BY <2>1, MaxIs
<1>3. n + 1 \in S => Max(S) = n + 1
  <2>1. ASSUME n + 1 \in S PROVE Max(S) \in 1..(n + 1) /\ Max(S) >= n + 1
    BY <1>2, <2>1
  <2>2. PICK m : m = Max(S)
    OBVIOUS
  <2> QED
    BY <2>1, <2>2
<1>4. n + 1 \in S => S \ {n + 1} \in SUBSET (1..n)
  OBVIOUS
<1> QED
  BY <1>1, <1>2, <1>3, <1>4

LEMMA FoldNext ==
    ASSUME NEW line, NEW os, NEW n \in Nat, NEW g, FoldsTo(g, n, line, os)
    PROVE  \E h : FoldsTo(h, n + 1, line, os)
<1> DEFINE h == [S \in SUBSET (1..(n + 1)) |->
                    IF n + 1 \in S THEN Shifted(g[S \ {n + 1}], os[n + 1]) ELSE g[S]]
<1>1. ASSUME NEW S \in SUBSET (1..(n + 1))
      PROVE  h[S] = IF S = {} THEN line ELSE Shifted(h[S \ {Max(S)}], os[Max(S)])
  <2>1. CASE n + 1 \in S
    <3>1. Max(S) = n + 1 /\ S \ {n + 1} \in SUBSET (1..n) /\ S # {}
      BY <2>1, LastPlace
    <3>2. h[S \ {n + 1}] = g[S \ {n + 1}]
      BY <3>1
    <3>3. h[S] = Shifted(g[S \ {n + 1}], os[n + 1])
      BY <2>1
    <3> HIDE DEF h
    <3> QED
      BY <3>1, <3>2, <3>3
  <2>2. CASE n + 1 \notin S
    <3>1. S \in SUBSET (1..n) /\ h[S] = g[S]
      BY <2>2
    <3>2. S # {} => h[S \ {Max(S)}] = g[S \ {Max(S)}]
      BY <2>2
    <3> HIDE DEF h
    <3> QED
      BY <3>1, <3>2 DEF FoldsTo
  <2> QED
    BY <2>1, <2>2
<1> HIDE DEF h
<1> QED
  BY <1>1 DEF FoldsTo

LEMMA FoldExists ==
    ASSUME NEW T, NEW line, NEW os \in Seq(T)
    PROVE  \E g : Folds(g, line, os)
<1> DEFINE P == {n \in Nat : \E g : FoldsTo(g, n, line, os)}
<1>1. 0 \in P
  <2>1. FoldsTo([S \in SUBSET (1..0) |-> line], 0, line, os)
    <3>1. 1..0 = {}
      OBVIOUS
    <3> QED
      BY <3>1 DEF FoldsTo
  <2> QED
    BY <2>1
<1>2. \A n \in P : n + 1 \in P
  BY FoldNext
<1>3. P = Nat
  <2>1. P \subseteq Nat
    OBVIOUS
  <2> HIDE DEF P
  <2> QED
    BY <1>1, <1>2, <2>1, Inductive
<1>4. Len(os) \in Nat /\ DOMAIN os = 1..Len(os)
  OBVIOUS
<1>5. PICK g : FoldsTo(g, Len(os), line, os)
  BY <1>3, <1>4
<1> DEFINE h == [S \in SUBSET DOMAIN os |-> g[S]]
<1>6. ASSUME NEW S \in SUBSET DOMAIN os
      PROVE  h[S] = IF S = {} THEN line ELSE Shifted(h[S \ {Max(S)}], os[Max(S)])
  <2>1. h[S] = g[S] /\ h[S \ {Max(S)}] = g[S \ {Max(S)}]
    OBVIOUS
  <2> HIDE DEF h
  <2> QED
    BY <1>4, <1>5, <2>1 DEF FoldsTo
<1>7. h = [S \in SUBSET DOMAIN os |-> h[S]]
  OBVIOUS
<1> HIDE DEF h
<1> QED
  BY <1>6, <1>7 DEF Folds

LEMMA FoldOnce ==
    ASSUME NEW T, NEW line, NEW os \in Seq(T), NEW g, NEW h, Folds(g, line, os), Folds(h, line, os)
    PROVE  g = h
<1> DEFINE P == {n \in Nat : n <= Len(os) => \A S \in SUBSET (1..n) : g[S] = h[S]}
<1>1. Len(os) \in Nat /\ DOMAIN os = 1..Len(os)
  OBVIOUS
<1>2. \A S \in SUBSET (1..Len(os)) :
          /\ g[S] = IF S = {} THEN line ELSE Shifted(g[S \ {Max(S)}], os[Max(S)])
          /\ h[S] = IF S = {} THEN line ELSE Shifted(h[S \ {Max(S)}], os[Max(S)])
  BY <1>1 DEF Folds
<1>3. 0 \in P
  <2>1. \A S \in SUBSET (1..0) : S = {} /\ S \in SUBSET (1..Len(os))
    OBVIOUS
  <2> QED
    BY <1>2, <2>1
<1>4. ASSUME NEW n \in P PROVE n + 1 \in P
  <2>1. n \in Nat /\ n + 1 \in Nat
    OBVIOUS
  <2>2. ASSUME n + 1 <= Len(os), NEW S \in SUBSET (1..(n + 1)) PROVE g[S] = h[S]
    <3>1. n <= Len(os) /\ S \in SUBSET (1..Len(os))
      BY <1>1, <2>1, <2>2
    <3>2. \A R \in SUBSET (1..n) : g[R] = h[R]
      BY <3>1
    <3>3. CASE n + 1 \in S
      <4>1. Max(S) = n + 1 /\ S \ {Max(S)} \in SUBSET (1..n)
        BY <2>1, <3>3, LastPlace
      <4> QED
        BY <1>2, <3>1, <3>2, <4>1
    <3>4. CASE n + 1 \notin S
      BY <2>1, <3>2, <3>4, LastPlace
    <3> QED
      BY <3>3, <3>4
  <2> QED
    BY <2>1, <2>2
<1>5. P = Nat
  <2>1. P \subseteq Nat
    OBVIOUS
  <2> HIDE DEF P
  <2> QED
    BY <1>3, <1>4, <2>1, Inductive
<1>6. \A S \in SUBSET (1..Len(os)) : g[S] = h[S]
  <2>1. Len(os) \in P
    BY <1>1, <1>5
  <2> QED
    BY <1>1, <2>1
<1>7. g = [S \in SUBSET DOMAIN os |-> g[S]] /\ h = [S \in SUBSET DOMAIN os |-> h[S]]
  BY DEF Folds
<1> HIDE DEF P
<1> QED
  BY <1>1, <1>6, <1>7

\* Where a line is once operations have been applied.
Through(line, os) == FoldLeft(Shifted, line, os)

LEMMA ThroughNone == ASSUME NEW line PROVE Through(line, <<>>) = line
<1>1. \E g : Folds(g, line, <<>>)
  <2>1. <<>> \in Seq({})
    OBVIOUS
  <2> QED
    BY <2>1, FoldExists
<1>2. PICK h : Folds(h, line, <<>>) /\ FoldLeft(Shifted, line, <<>>) = h[DOMAIN <<>>]
  BY <1>1, FoldIs
<1>3. PICK D : D = DOMAIN <<>>
  OBVIOUS
<1>4. D = {}
  BY <1>3
<1>5. h[D] = line
  BY <1>2, <1>3, <1>4 DEF Folds
<1> QED
  BY <1>2, <1>3, <1>5 DEF Through

LEMMA ThroughMore ==
    ASSUME NEW T, NEW line, NEW os \in Seq(T), NEW o \in T
    PROVE  Through(line, Append(os, o)) = Shifted(Through(line, os), o)
<1> DEFINE more == Append(os, o)
           n == Len(os)
<1>1. /\ more \in Seq(T) /\ DOMAIN more = 1..(n + 1) /\ n \in Nat /\ DOMAIN os = 1..n
      /\ more[n + 1] = o /\ \A i \in 1..n : more[i] = os[i]
  OBVIOUS
<1> HIDE DEF more, n
<1>2. PICK g : Folds(g, line, more) /\ FoldLeft(Shifted, line, more) = g[DOMAIN more]
  <2>1. \E g : Folds(g, line, more)
    BY <1>1, FoldExists
  <2> QED
    BY <2>1, FoldIs
<1>3. PICK h : Folds(h, line, os) /\ FoldLeft(Shifted, line, os) = h[DOMAIN os]
  <2>1. \E h : Folds(h, line, os)
    BY FoldExists
  <2> QED
    BY <2>1, FoldIs
<1>4. \A S \in SUBSET (1..(n + 1)) : g[S] = IF S = {} THEN line ELSE Shifted(g[S \ {Max(S)}], more[Max(S)])
  BY <1>1, <1>2 DEF Folds
<1> DEFINE k == [S \in SUBSET DOMAIN os |-> g[S]]
<1>5. Folds(k, line, os)
  <2>1. ASSUME NEW S \in SUBSET DOMAIN os
        PROVE  k[S] = IF S = {} THEN line ELSE Shifted(k[S \ {Max(S)}], os[Max(S)])
    <3>1. k[S] = g[S] /\ k[S \ {Max(S)}] = g[S \ {Max(S)}]
      OBVIOUS
    <3>2. S \in SUBSET (1..(n + 1)) /\ (S # {} => Max(S) \in 1..n)
      <4>1. S \subseteq 1..n
        BY <1>1
      <4> HIDE DEF k
      <4> QED
        BY <1>1, <4>1, MaxIs
    <3> HIDE DEF k
    <3> QED
      BY <1>1, <1>4, <3>1, <3>2
  <2>2. k = [S \in SUBSET DOMAIN os |-> k[S]]
    OBVIOUS
  <2> HIDE DEF k
  <2> QED
    BY <2>1, <2>2 DEF Folds
<1>6. k[DOMAIN os] = g[DOMAIN os]
  OBVIOUS
<1>7. k = h
  <2> HIDE DEF k
  <2> QED
    BY <1>3, <1>5, FoldOnce
<1>8. Max(1..(n + 1)) = n + 1 /\ 1..(n + 1) # {}
  <2>1. PICK S : S = 1..(n + 1)
    OBVIOUS
  <2>2. S \in SUBSET (1..(n + 1)) /\ n + 1 \in S
    BY <1>1, <2>1
  <2>3. Max(S) = n + 1
    BY <1>1, <2>2, LastPlace
  <2> QED
    BY <2>1, <2>2, <2>3
<1>9. (1..(n + 1)) \ {n + 1} = 1..n
  BY <1>1
<1> HIDE DEF k
<1> QED
  BY <1>1, <1>2, <1>3, <1>4, <1>6, <1>7, <1>8, <1>9 DEF more, Through

\* One operation applied is what applying it says.
LEMMA FoldOne ==
    ASSUME NEW text, NEW o
    PROVE  FoldLeft(ApplyOp, text, <<o>>) = ApplyOp(text, o)
<1> DEFINE Solves(g) == g = [S \in SUBSET DOMAIN <<o>> |->
                               IF S = {} THEN text ELSE ApplyOp(g[S \ {Max(S)}], <<o>>[Max(S)])]
           h == [S \in SUBSET DOMAIN <<o>> |-> IF S = {} THEN text ELSE ApplyOp(text, o)]
           f == CHOOSE g : Solves(g)
<1>1. FoldLeft(ApplyOp, text, <<o>>) = f[DOMAIN <<o>>]
  BY DEF FoldLeft, MapThenFoldSet
<1>2. DOMAIN <<o>> = {1}
  OBVIOUS
<1>3. Max({1}) = 1
  <2>1. {1} \subseteq 1..1 /\ {1} # {}
    OBVIOUS
  <2>2. Max({1}) \in {1}
    BY <2>1, MaxIs
  <2> QED
    BY <2>2
<1>4. \A S \in SUBSET {1} : S = {} \/ S = {1}
  OBVIOUS
<1>5. Solves(h)
  <2>1. ASSUME NEW S \in SUBSET {1}
        PROVE  h[S] = IF S = {} THEN text ELSE ApplyOp(h[S \ {Max(S)}], <<o>>[Max(S)])
    <3>1. h[{}] = text /\ h[{1}] = ApplyOp(text, o)
      BY <1>2
    <3>2. {1} \ {1} = {} /\ <<o>>[1] = o
      OBVIOUS
    <3> HIDE DEF h, f, Solves
    <3>3. CASE S = {}
      BY <3>1, <3>3
    <3>4. CASE S = {1}
      <4>1. Max(S) = 1 /\ S \ {Max(S)} = {}
        BY <1>3, <3>2, <3>4
      <4> QED
        BY <3>1, <3>2, <3>4, <4>1
    <3> QED
      BY <1>4, <3>3, <3>4
  <2>2. h = [S \in SUBSET DOMAIN <<o>> |-> h[S]]
    OBVIOUS
  <2> HIDE DEF h
  <2> QED
    BY <1>2, <2>1, <2>2
<1>6. Solves(f)
  <2> HIDE DEF h
  <2>1. \E g : Solves(g)
    BY <1>5
  <2> HIDE DEF Solves
  <2> QED
    BY <2>1
<1> HIDE DEF f
<1>7. \A S \in SUBSET {1} : f[S] = IF S = {} THEN text ELSE ApplyOp(f[S \ {Max(S)}], <<o>>[Max(S)])
  BY <1>2, <1>6
<1>8. f[{}] = text
  BY <1>7
<1>9. f[{1}] = ApplyOp(f[{1} \ {1}], <<o>>[1])
  BY <1>3, <1>7
<1>10. {1} \ {1} = {} /\ <<o>>[1] = o
  OBVIOUS
<1> QED
  BY <1>1, <1>2, <1>8, <1>9, <1>10

LEMMA AppliedOne == ASSUME NEW text, NEW o PROVE Applied(text, <<o>>) = ApplyOp(text, o)
<1> DEFINE stop == {i \in DOMAIN <<o>> : <<o>>[i].op = "replace"}
           first == CHOOSE i \in stop : \A j \in stop : i <= j
           last == IF stop = {} THEN Len(<<o>>) ELSE first
<1>1. DOMAIN <<o>> = {1} /\ Len(<<o>>) = 1
  OBVIOUS
<1>2. stop = {} \/ stop = {1}
  BY <1>1
<1>3. stop = {1} => first = 1
  <2> HIDE DEF stop
  <2> QED
    OBVIOUS
<1> HIDE DEF stop, first
<1>4. last = 1
  BY <1>1, <1>2, <1>3
<1>5. SubSeq(<<o>>, 1, 1) = <<o>>
  <2>1. <<o>> \in Seq({o})
    OBVIOUS
  <2> QED
    BY <1>1, <2>1, SubSeqAll
<1>6. Applied(text, <<o>>) = FoldLeft(ApplyOp, text, SubSeq(<<o>>, 1, last))
  BY DEF Applied, stop, first
<1> QED
  BY <1>4, <1>5, <1>6, FoldOne

-----------------------------------------------------------------------------
(***************************************************************************)
(* What an operation does to a text                                        *)
(***************************************************************************)
LineIds == Nat \X Nat
InsertOps  == [op : {"insert"}, line : Nat \ {0}, text : Seq(LineIds)]
DeleteOps  == [op : {"delete"}, line : Nat \ {0}, count : Nat]
ReplaceOps == [op : {"replace"}, line : Nat \ {0}, text : Seq(LineIds)]
Ops == InsertOps \cup DeleteOps \cup ReplaceOps

\* The lines an operation brings.
Brings(o) == IF o.op = "delete" THEN {} ELSE Lines(o.text)

LEMMA Clamped ==
    ASSUME NEW S, NEW text \in Seq(S), NEW line \in Nat \ {0}
    PROVE  /\ Clamp(line, text) \in 0..Len(text) /\ Clamp(line, text) < line
           /\ line <= Len(text) + 1 => Clamp(line, text) = line - 1
           /\ line > Len(text) + 1 => Clamp(line, text) = Len(text)
BY DEF Clamp

\* Two and three sequences, one behind the other.
LEMMA CatFacts ==
    ASSUME NEW S, NEW a \in Seq(S), NEW c \in Seq(S), NEW s, s = a \o c,
           NEW n, n = Len(a), NEW m, m = Len(c)
    PROVE  /\ s \in Seq(S) /\ Len(s) = n + m /\ n \in Nat /\ m \in Nat
           /\ \A i \in 1..n : s[i] = a[i]
           /\ \A i \in (n + 1)..(n + m) : s[i] = c[i - n]
OBVIOUS

LEMMA SubSeqFacts ==
    ASSUME NEW S, NEW s \in Seq(S), NEW m \in Nat \ {0}, NEW n \in Nat, n <= Len(s)
    PROVE  /\ SubSeq(s, m, n) \in Seq(S)
           /\ Len(SubSeq(s, m, n)) = IF m <= n THEN n - m + 1 ELSE 0
           /\ \A i \in 1..Len(SubSeq(s, m, n)) : SubSeq(s, m, n)[i] = s[m + i - 1]
OBVIOUS

\* Where a line goes that is the i-th before o is applied, behind at lines.
Moved(i, at, o) ==
    IF i <= at THEN i ELSE IF o.op = "insert" THEN i + Len(o.text) ELSE i - o.count

\* The i-th line of text is the j-th after o.
Becomes(i, j, text, o) ==
    LET at == Clamp(o.line, text)
    IN  /\ o.op # "replace" /\ i \in DOMAIN text
        /\ j = Moved(i, at, o)
        /\ o.op = "delete" => i <= at \/ i > at + o.count

LEMMA InsertedFacts ==
    ASSUME NEW text \in Seq(LineIds), NEW o \in InsertOps
    PROVE  LET new == ApplyOp(text, o)
           IN  /\ new \in Seq(LineIds) /\ Len(new) = Len(text) + Len(o.text)
               /\ \A i \in 1..Len(text) :
                      Moved(i, Clamp(o.line, text), o) \in DOMAIN new /\ new[Moved(i, Clamp(o.line, text), o)] = text[i]
               /\ \A i \in 1..Len(o.text) : new[Clamp(o.line, text) + i] = o.text[i]
               /\ \A j \in DOMAIN new :
                      \/ \E i \in DOMAIN text : Becomes(i, j, text, o)
                      \/ j - Clamp(o.line, text) \in 1..Len(o.text)
<1> DEFINE at == Clamp(o.line, text)
           n == Len(text)
           m == Len(o.text)
           front == SubSeq(text, 1, at)
           back == SubSeq(text, at + 1, Len(text))
           new == (front \o o.text) \o back
<1>1. o.text \in Seq(LineIds) /\ o.line \in Nat \ {0} /\ o.op = "insert"
  BY DEF InsertOps
<1>2. at \in 0..n /\ n \in Nat /\ m \in Nat
  BY <1>1, Clamped
<1>3. ApplyOp(text, o) = new
  BY <1>1 DEF ApplyOp
<1> HIDE DEF at
<1>4. /\ front \in Seq(LineIds) /\ Len(front) = at /\ \A i \in 1..at : front[i] = text[i]
      /\ back \in Seq(LineIds) /\ Len(back) = n - at /\ \A i \in 1..(n - at) : back[i] = text[at + i]
  <2>1. /\ front \in Seq(LineIds) /\ Len(front) = at
        /\ \A i \in 1..Len(front) : front[i] = text[1 + i - 1]
    BY <1>2, SubSeqFacts
  <2>2. /\ back \in Seq(LineIds) /\ Len(back) = n - at
        /\ \A i \in 1..Len(back) : back[i] = text[at + 1 + i - 1]
    BY <1>2, SubSeqFacts
  <2> HIDE DEF front, back
  <2> QED
    BY <1>2, <2>1, <2>2
<1> HIDE DEF front, back
<1> DEFINE half == front \o o.text
<1>5. /\ half \in Seq(LineIds) /\ Len(half) = at + m
      /\ \A i \in 1..at : half[i] = text[i]
      /\ \A i \in 1..m : half[at + i] = o.text[i]
  <2>1. /\ half \in Seq(LineIds) /\ Len(half) = at + m
        /\ \A i \in 1..at : half[i] = front[i]
        /\ \A i \in (at + 1)..(at + m) : half[i] = o.text[i - at]
    <3> HIDE DEF half, m, n
    <3>1. half = front \o o.text /\ m = Len(o.text)
      BY DEF half, m
    <3>2. front \in Seq(LineIds) /\ o.text \in Seq(LineIds) /\ at = Len(front)
      BY <1>1, <1>4
    <3> HIDE DEF new
    <3> QED
      BY <3>1, <3>2, CatFacts
  <2> HIDE DEF half
  <2> QED
    BY <1>2, <1>4, <2>1
<1>6. new = half \o back
  OBVIOUS
<1> HIDE DEF half, new, n, m
<1>7. /\ new \in Seq(LineIds) /\ Len(new) = n + m
      /\ \A i \in 1..(at + m) : new[i] = half[i]
      /\ \A i \in (at + m + 1)..(n + m) : new[i] = back[i - (at + m)]
  <2>1. /\ new \in Seq(LineIds) /\ Len(new) = (at + m) + (n - at)
        /\ \A i \in 1..(at + m) : new[i] = half[i]
        /\ \A i \in (at + m + 1)..((at + m) + (n - at)) : new[i] = back[i - (at + m)]
    <3>1. half \in Seq(LineIds) /\ back \in Seq(LineIds) /\ at + m = Len(half) /\ n - at = Len(back)
      BY <1>4, <1>5
    <3>2. PICK x, y : x = at + m /\ y = n - at
      OBVIOUS
    <3>3. x = Len(half) /\ y = Len(back)
      BY <3>1, <3>2
    <3>4. /\ new \in Seq(LineIds) /\ Len(new) = x + y
          /\ \A i \in 1..x : new[i] = half[i]
          /\ \A i \in (x + 1)..(x + y) : new[i] = back[i - x]
      BY <1>6, <3>1, <3>3, CatFacts
    <3> QED
      BY <3>2, <3>4
  <2> QED
    BY <1>2, <2>1
<1>8. ASSUME NEW i \in 1..n PROVE Moved(i, at, o) \in 1..(n + m) /\ new[Moved(i, at, o)] = text[i]
  <2>1. CASE i <= at
    BY <1>2, <1>5, <1>7, <2>1 DEF Moved
  <2>2. CASE i > at
    <3>1. Moved(i, at, o) = i + m
      BY <1>1, <1>2, <2>2 DEF Moved, m
    <3>2. i + m \in (at + m + 1)..(n + m) /\ (i + m) - (at + m) = i - at /\ i - at \in 1..(n - at) /\ at + (i - at) = i
      BY <1>2, <2>2
    <3>3. new[i + m] = back[i - at]
      BY <1>7, <3>2
    <3>4. back[i - at] = text[i]
      BY <1>4, <3>2
    <3> QED
      BY <1>2, <3>1, <3>2, <3>3, <3>4
  <2> QED
    BY <1>2, <2>1, <2>2
<1>9. \A i \in 1..m : new[at + i] = o.text[i]
  BY <1>2, <1>5, <1>7
<1>10. ASSUME NEW j \in 1..(n + m)
       PROVE  \/ \E i \in DOMAIN text : Becomes(i, j, text, o)
              \/ j - at \in 1..m
  <2>1. DOMAIN text = 1..n
    BY DEF n
  <2>2. CASE j <= at
    BY <1>1, <1>2, <2>1, <2>2 DEF Becomes, Moved, at
  <2>3. CASE j > at + m
    <3>1. j - m \in 1..n /\ ~(j - m <= at) /\ (j - m) + m = j
      BY <1>2, <2>3
    <3>2. Becomes(j - m, j, text, o)
      BY <1>1, <2>1, <3>1 DEF Becomes, Moved, at, m
    <3> QED
      BY <2>1, <3>1, <3>2
  <2> QED
    BY <1>2, <2>2, <2>3
<1> QED
  BY <1>3, <1>7, <1>8, <1>9, <1>10 DEF n, m, at

LEMMA DeletedFacts ==
    ASSUME NEW text \in Seq(LineIds), NEW o \in DeleteOps
    PROVE  LET new == ApplyOp(text, o)
           IN  /\ new \in Seq(LineIds) /\ Len(new) <= Len(text)
               /\ \A i \in 1..Len(text) :
                      i <= Clamp(o.line, text) \/ i > Clamp(o.line, text) + o.count =>
                          /\ Moved(i, Clamp(o.line, text), o) \in DOMAIN new
                          /\ new[Moved(i, Clamp(o.line, text), o)] = text[i]
               /\ \A j \in DOMAIN new : \E i \in DOMAIN text : Becomes(i, j, text, o)
<1> DEFINE at == Clamp(o.line, text)
           n == Len(text)
           c == o.count
           front == SubSeq(text, 1, at)
           back == SubSeq(text, at + c + 1, Len(text))
           rest == IF at + c + 1 <= n THEN n - (at + c) ELSE 0
           new == front \o back
<1>1. c \in Nat /\ o.line \in Nat \ {0} /\ o.op = "delete"
  BY DEF DeleteOps
<1>2. at \in 0..n /\ n \in Nat
  BY <1>1, Clamped
<1>3. ApplyOp(text, o) = new
  BY <1>1 DEF ApplyOp
<1> HIDE DEF at, c
<1>4. /\ front \in Seq(LineIds) /\ Len(front) = at /\ \A i \in 1..at : front[i] = text[i]
      /\ back \in Seq(LineIds) /\ Len(back) = rest /\ \A i \in 1..rest : back[i] = text[at + c + i]
  <2>1. /\ front \in Seq(LineIds) /\ Len(front) = at
        /\ \A i \in 1..Len(front) : front[i] = text[1 + i - 1]
    BY <1>2, SubSeqFacts
  <2>2. /\ back \in Seq(LineIds) /\ Len(back) = rest
        /\ \A i \in 1..Len(back) : back[i] = text[(at + c + 1) + i - 1]
    <3>1. PICK x : x = at + c + 1
      OBVIOUS
    <3>2. x \in Nat \ {0} /\ n \in Nat /\ n <= Len(text) /\ n - x + 1 = n - (at + c)
      BY <1>1, <1>2, <3>1
    <3>3. /\ SubSeq(text, x, n) \in Seq(LineIds)
          /\ Len(SubSeq(text, x, n)) = IF x <= n THEN n - x + 1 ELSE 0
          /\ \A i \in 1..Len(SubSeq(text, x, n)) : SubSeq(text, x, n)[i] = text[x + i - 1]
      BY <3>2, SubSeqFacts
    <3> QED
      BY <3>1, <3>2, <3>3
  <2> HIDE DEF front, back
  <2>3. rest \in Nat
    BY <1>1, <1>2
  <2> HIDE DEF rest
  <2> QED
    BY <1>1, <1>2, <2>1, <2>2, <2>3
<1>5. rest \in Nat
  BY <1>1, <1>2
<1>6. at + c + 1 <= n => rest = n - (at + c)
  OBVIOUS
<1>7. rest # 0 => at + c + 1 <= n
  OBVIOUS
<1> HIDE DEF front, back, rest, n
<1>8. /\ new \in Seq(LineIds) /\ Len(new) = at + rest
      /\ \A i \in 1..at : new[i] = front[i]
      /\ \A i \in (at + 1)..(at + rest) : new[i] = back[i - at]
  <2>1. new = front \o back
    OBVIOUS
  <2>2. front \in Seq(LineIds) /\ back \in Seq(LineIds) /\ at = Len(front) /\ rest = Len(back)
    BY <1>4
  <2> HIDE DEF new
  <2> QED
    BY <2>1, <2>2, CatFacts
<1> HIDE DEF new
<1>9. ASSUME NEW i \in 1..n, i <= at \/ i > at + c
      PROVE  Moved(i, at, o) \in 1..(at + rest) /\ new[Moved(i, at, o)] = text[i]
  <2>1. CASE i <= at
    BY <1>2, <1>4, <1>5, <1>8, <2>1 DEF Moved
  <2>2. CASE i > at + c
    <3>1. Moved(i, at, o) = i - c
      BY <1>1, <1>2, <2>2 DEF Moved, c
    <3>2. at + c + 1 <= n
      BY <1>1, <1>2, <2>2
    <3>3. i - c \in (at + 1)..(at + rest) /\ (i - c) - at \in 1..rest /\ at + c + ((i - c) - at) = i
      BY <1>1, <1>2, <1>6, <2>2, <3>2
    <3> QED
      BY <1>2, <1>4, <1>8, <3>1, <3>3
  <2> QED
    BY <1>9, <2>1, <2>2
<1>10. ASSUME NEW j \in 1..(at + rest)
       PROVE  \E i \in DOMAIN text : Becomes(i, j, text, o)
  <2>1. DOMAIN text = 1..n
    BY DEF n
  <2>2. CASE j <= at
    BY <1>1, <1>2, <2>1, <2>2 DEF Becomes, Moved, at
  <2>3. CASE j > at
    <3>1. j + c \in 1..n /\ ~(j + c <= at) /\ (j + c) - c = j /\ j + c > at + c
      BY <1>1, <1>2, <1>5, <1>6, <1>7, <2>3
    <3>2. Becomes(j + c, j, text, o)
      BY <1>1, <2>1, <3>1 DEF Becomes, Moved, at, c
    <3> QED
      BY <2>1, <3>1, <3>2
  <2> QED
    BY <1>2, <2>2, <2>3
<1>11. Len(new) <= n
  BY <1>1, <1>2, <1>5, <1>6, <1>7, <1>8
<1> QED
  BY <1>3, <1>8, <1>9, <1>10, <1>11 DEF n, at, c

LEMMA ReplacedFacts ==
    ASSUME NEW text, NEW o \in ReplaceOps
    PROVE  ApplyOp(text, o) = o.text /\ o.text \in Seq(LineIds)
BY DEF ApplyOp, ReplaceOps

\* Every line of the text was there before, or the operation brings it.
LEMMA LinesComeFrom ==
    ASSUME NEW text \in Seq(LineIds), NEW o \in Ops
    PROVE  LET new == ApplyOp(text, o)
           IN  /\ new \in Seq(LineIds)
               /\ \A j \in DOMAIN new :
                      \/ \E i \in DOMAIN text : Becomes(i, j, text, o) /\ new[j] = text[i]
                      \/ new[j] \in Brings(o)
<1> DEFINE new == ApplyOp(text, o)
<1>1. CASE o \in InsertOps
  <2>1. o.op = "insert" /\ o.text \in Seq(LineIds) /\ o.line \in Nat \ {0}
    BY <1>1 DEF InsertOps
  <2>2. new \in Seq(LineIds)
    BY <1>1, InsertedFacts
  <2>3. ASSUME NEW j \in DOMAIN new
        PROVE  (\E i \in DOMAIN text : Becomes(i, j, text, o) /\ new[j] = text[i]) \/ new[j] \in Brings(o)
    <3>1. CASE \E i \in DOMAIN text : Becomes(i, j, text, o)
      <4>1. PICK i \in DOMAIN text : Becomes(i, j, text, o)
        BY <3>1
      <4>2. i \in 1..Len(text) /\ j = Moved(i, Clamp(o.line, text), o)
        BY <4>1 DEF Becomes
      <4>3. new[j] = text[i]
        BY <1>1, <4>2, InsertedFacts
      <4> QED
        BY <4>1, <4>3
    <3>2. CASE j - Clamp(o.line, text) \in 1..Len(o.text)
      <4>1. PICK k : k = j - Clamp(o.line, text)
        OBVIOUS
      <4>2. k \in 1..Len(o.text) /\ new[Clamp(o.line, text) + k] = o.text[k]
        BY <1>1, <3>2, <4>1, InsertedFacts
      <4>3. Clamp(o.line, text) \in Nat /\ j \in Nat
        BY <2>1, <2>2, Clamped
      <4>4. Clamp(o.line, text) + k = j
        BY <4>1, <4>3
      <4>5. o.text[k] \in Lines(o.text)
        BY <2>1, <4>2 DEF Lines
      <4> QED
        BY <2>1, <4>2, <4>4, <4>5 DEF Brings
    <3> QED
      BY <1>1, <3>1, <3>2, InsertedFacts
  <2> QED
    BY <2>2, <2>3
<1>2. CASE o \in DeleteOps
  <2>1. new \in Seq(LineIds)
    BY <1>2, DeletedFacts
  <2>2. ASSUME NEW j \in DOMAIN new PROVE \E i \in DOMAIN text : Becomes(i, j, text, o) /\ new[j] = text[i]
    <3>1. PICK i \in DOMAIN text : Becomes(i, j, text, o)
      BY <1>2, DeletedFacts
    <3>2. /\ i \in 1..Len(text) /\ j = Moved(i, Clamp(o.line, text), o)
          /\ i <= Clamp(o.line, text) \/ i > Clamp(o.line, text) + o.count
      BY <1>2, <3>1 DEF Becomes, DeleteOps
    <3>3. new[j] = text[i]
      BY <1>2, <3>2, DeletedFacts
    <3> QED
      BY <3>1, <3>3
  <2> QED
    BY <2>1, <2>2
<1>3. CASE o \in ReplaceOps
  <2>1. new = o.text /\ o.text \in Seq(LineIds) /\ o.op = "replace"
    BY <1>3, ReplacedFacts DEF ReplaceOps
  <2> HIDE DEF new
  <2> QED
    BY <2>1 DEF Brings, Lines, new
<1> QED
  BY <1>1, <1>2, <1>3 DEF Ops

\* An insertion counts for at least a line, and for its own lines if it has any.
LEMMA CountedFacts ==
    ASSUME NEW text \in Seq(LineIds)
    PROVE  Counted(text) \in Nat \ {0} /\ (text # <<>> => Counted(text) = Len(text))
BY DEF Counted

\* A place stays a place.
LEMMA ShiftType ==
    ASSUME NEW o \in Ops, NEW line \in Nat \ {0}
    PROVE  Shifted(line, o) \in Nat \ {0}
<1>1. o.line \in Nat \ {0}
  BY DEF Ops, InsertOps, DeleteOps, ReplaceOps
<1>2. CASE o \in InsertOps
  <2>1. PICK m \in Nat \ {0} : m = Counted(o.text)
    BY <1>2, CountedFacts DEF InsertOps
  <2>2. Shifted(line, o) = IF line >= o.line THEN line + m ELSE line
    BY <1>2, <2>1 DEF Shifted, InsertOps
  <2> QED
    BY <2>2
<1>3. CASE o \in DeleteOps
  <2>1. PICK c \in Nat : c = o.count
    BY <1>3 DEF DeleteOps
  <2>2. Shifted(line, o) = IF line > o.line THEN IF line - c > o.line THEN line - c ELSE o.line ELSE line
    BY <1>3, <2>1 DEF Shifted, DeleteOps
  <2> QED
    BY <1>1, <2>2
<1>4. CASE o \in ReplaceOps
  BY <1>4 DEF ReplaceOps, Shifted
<1> QED
  BY <1>2, <1>3, <1>4 DEF Ops

\* A line moves as the place it is at does: it stays before or behind any other
\* place, and at it if it was.
LEMMA ShiftMoves ==
    ASSUME NEW text \in Seq(LineIds), NEW o \in Ops, NEW line \in Nat \ {0}, ~Vacuous(o)
    PROVE  \A i, j : Becomes(i, j, text, o) =>
                  /\ i < line => j < Shifted(line, o)
                  /\ i >= line => j >= Shifted(line, o)
                  /\ i = line => j = Shifted(line, o)
<1>1. o.line \in Nat \ {0}
  BY DEF Ops, InsertOps, DeleteOps, ReplaceOps
<1> DEFINE at == Clamp(o.line, text)
           n == Len(text)
<1>2. /\ n \in Nat /\ at \in 0..n /\ at < o.line
      /\ (o.line <= n + 1 => at = o.line - 1) /\ (o.line > n + 1 => at = n)
  BY <1>1, Clamped
<1>3. DOMAIN text = 1..n
  OBVIOUS
<1> HIDE DEF at, n
<1>4. CASE o \in InsertOps
  <2> DEFINE m == Len(o.text)
  <2>1. o.op = "insert" /\ m \in Nat /\ Counted(o.text) = m
    BY <1>4, CountedFacts DEF InsertOps, Vacuous
  <2>2. Shifted(line, o) = IF line >= o.line THEN line + m ELSE line
    BY <2>1 DEF Shifted
  <2>3. \A i, j : Becomes(i, j, text, o) => i \in 1..n /\ j = IF i <= at THEN i ELSE i + m
    BY <1>3, <2>1 DEF Becomes, Moved, at
  <2> HIDE DEF m
  <2> QED
    BY <1>1, <1>2, <2>1, <2>2, <2>3
<1>5. CASE o \in DeleteOps
  <2> DEFINE c == o.count
  <2>1. o.op = "delete" /\ c \in Nat
    BY <1>5 DEF DeleteOps
  <2>2. Shifted(line, o) = IF line > o.line THEN IF line - c > o.line THEN line - c ELSE o.line ELSE line
    BY <2>1 DEF Shifted
  <2>3. \A i, j : Becomes(i, j, text, o) =>
            /\ i \in 1..n /\ j = IF i <= at THEN i ELSE i - c
            /\ i <= at \/ i > at + c
    BY <1>3, <2>1 DEF Becomes, Moved, at
  <2> HIDE DEF c
  <2> QED
    BY <1>1, <1>2, <2>1, <2>2, <2>3
<1>6. CASE o \in ReplaceOps
  BY <1>6 DEF ReplaceOps, Shifted, Becomes
<1> QED
  BY <1>4, <1>5, <1>6 DEF Ops

\* Going through os, a place of the text old stays where the lines of old that
\* are still there have it.
Tracks(old, text, os) ==
    \A line \in Nat \ {0} :
        LET now == Through(line, os)
        IN  /\ now \in Nat \ {0}
            /\ \A i \in DOMAIN old, j \in DOMAIN text : old[i] = text[j] =>
                   /\ i < line => j < now
                   /\ i >= line => j >= now
                   /\ i = line => j = now

LEMMA TracksNone ==
    ASSUME NEW text \in Seq(LineIds), IsInjective(text)
    PROVE  Tracks(text, text, <<>>)
BY ThroughNone DEF Tracks, IsInjective

LEMMA TracksMore ==
    ASSUME NEW old \in Seq(LineIds), NEW text \in Seq(LineIds), NEW os \in Seq(Ops), NEW o \in Ops,
           Tracks(old, text, os), \A i \in DOMAIN old : old[i] \notin Brings(o), ~Vacuous(o)
    PROVE  Tracks(old, ApplyOp(text, o), Append(os, o))
<1> DEFINE new == ApplyOp(text, o)
<1>1. SUFFICES ASSUME NEW line \in Nat \ {0}
               PROVE  LET now == Through(line, Append(os, o))
                      IN  /\ now \in Nat \ {0}
                          /\ \A i \in DOMAIN old, j \in DOMAIN new : old[i] = new[j] =>
                                 /\ i < line => j < now
                                 /\ i >= line => j >= now
                                 /\ i = line => j = now
  BY DEF Tracks
<1>0. Through(line, Append(os, o)) = Shifted(Through(line, os), o)
  <2> HIDE DEF new
  <2> QED
    BY ThroughMore
<1> DEFINE then == Through(line, os)
           now == Through(line, Append(os, o))
<1>2. then \in Nat \ {0} /\ now = Shifted(then, o)
  <2>1. then \in Nat \ {0}
    BY DEF Tracks
  <2>2. now = Shifted(then, o)
    BY <1>0
  <2> QED
    BY <2>1, <2>2
<1>3. /\ Shifted(then, o) \in Nat \ {0}
      /\ \A i, j : Becomes(i, j, text, o) =>
             /\ i < then => j < Shifted(then, o)
             /\ i >= then => j >= Shifted(then, o)
             /\ i = then => j = Shifted(then, o)
  <2> HIDE DEF then
  <2> QED
    BY <1>2, ShiftMoves, ShiftType
<1>4. ASSUME NEW i \in DOMAIN old, NEW j \in DOMAIN new, old[i] = new[j]
      PROVE  /\ i < line => j < now
             /\ i >= line => j >= now
             /\ i = line => j = now
  <2>1. PICK k \in DOMAIN text : Becomes(k, j, text, o) /\ new[j] = text[k]
    BY <1>4, LinesComeFrom
  <2>2. /\ i < line => k < then
        /\ i >= line => k >= then
        /\ i = line => k = then
    BY <1>4, <2>1 DEF Tracks
  <2> HIDE DEF then, now, new
  <2> QED
    BY <1>2, <1>3, <2>1, <2>2
<1> QED
  BY <1>2, <1>3, <1>4

-----------------------------------------------------------------------------
(***************************************************************************)
(* Histories                                                               *)
(***************************************************************************)
Entries == [version : Nat, ops : {<<o>> : o \in Ops}]

\* What the operations since base are flattened from.
Sel(h, base) == [i \in DOMAIN h |-> IF h[i].version > base THEN h[i].ops ELSE <<>>]

LEMMA EntryOps ==
    ASSUME NEW e \in Entries
    PROVE  e.version \in Nat /\ e.ops \in Seq(Ops)
<1>1. e.version \in Nat /\ e.ops \in {<<o>> : o \in Ops}
  BY DEF Entries
<1>2. PICK o \in Ops : e.ops = <<o>>
  BY <1>1
<1>3. <<o>> \in Seq(Ops)
  OBVIOUS
<1> QED
  BY <1>1, <1>2, <1>3

LEMMA SelFacts ==
    ASSUME NEW h \in Seq(Entries), NEW base
    PROVE  /\ Sel(h, base) \in Seq(Seq(Ops)) /\ Len(Sel(h, base)) = Len(h)
           /\ \A i \in 1..Len(h) : Sel(h, base)[i] = IF h[i].version > base THEN h[i].ops ELSE <<>>
<1>1. Len(h) \in Nat /\ DOMAIN h = 1..Len(h) /\ \A i \in 1..Len(h) : h[i] \in Entries
  OBVIOUS
<1>2. \A e \in Entries : e.ops \in Seq(Ops)
  BY EntryOps
<1> DEFINE S == Seq(Ops)
<1>3. <<>> \in S
  OBVIOUS
<1>4. \A i \in 1..Len(h) : Sel(h, base)[i] = IF h[i].version > base THEN h[i].ops ELSE <<>>
  BY <1>1 DEF Sel
<1>5. \A e \in Entries : e.ops \in S
  BY <1>2
<1> HIDE DEF S
<1>6. Sel(h, base) \in [1..Len(h) -> S]
  <2>1. \A i \in 1..Len(h) : (IF h[i].version > base THEN h[i].ops ELSE <<>>) \in S
    BY <1>1, <1>3, <1>5
  <2> QED
    BY <1>1, <2>1 DEF Sel
<1>7. Sel(h, base) \in Seq(S) /\ Len(Sel(h, base)) = Len(h)
  BY <1>1, <1>6
<1> QED
  BY <1>4, <1>7 DEF S

LEMMA SinceType ==
    ASSUME NEW f, f.history \in Seq(Entries), NEW base
    PROVE  Since(f, base) \in Seq(Ops)
BY SelFacts, FlatType DEF Since, Sel

LEMMA SinceNone ==
    ASSUME NEW f, f.history \in Seq(Entries), NEW base,
           \A i \in 1..Len(f.history) : ~(f.history[i].version > base)
    PROVE  Since(f, base) = <<>>
<1>1. \A i \in 1..Len(Sel(f.history, base)) : Sel(f.history, base)[i] = <<>>
  BY SelFacts
<1> QED
  BY <1>1, SelFacts, FlatNone DEF Since, Sel

LEMMA KeptFacts ==
    ASSUME NEW h \in Seq(Entries)
    PROVE  \E d \in Nat : /\ d <= Len(h) /\ Kept(h) = SubSeq(h, d + 1, Len(h))
                          /\ Kept(h) \in Seq(Entries) /\ Len(Kept(h)) = Len(h) - d
                          /\ \A i \in 1..(Len(h) - d) : Kept(h)[i] = h[d + i]
<1> DEFINE d == IF Len(h) > HistoryCap THEN Len(h) - HistoryCap ELSE 0
<1>1. Len(h) \in Nat /\ HistoryCap \in Nat
  BY LiveWorkspaceAssumption
<1>2. d \in Nat /\ d <= Len(h) /\ Kept(h) = SubSeq(h, d + 1, Len(h))
  BY <1>1 DEF Kept
<1> HIDE DEF d
<1>3. PICK x, n : x = d + 1 /\ n = Len(h)
  OBVIOUS
<1>4. /\ SubSeq(h, x, n) \in Seq(Entries)
      /\ Len(SubSeq(h, x, n)) = IF x <= n THEN n - x + 1 ELSE 0
      /\ \A i \in 1..Len(SubSeq(h, x, n)) : SubSeq(h, x, n)[i] = h[x + i - 1]
  BY <1>1, <1>2, <1>3, SubSeqFacts
<1>5. Len(SubSeq(h, x, n)) = n - d
  BY <1>1, <1>2, <1>3, <1>4
<1>6. \A i \in 1..(n - d) : SubSeq(h, x, n)[i] = h[d + i]
  BY <1>1, <1>2, <1>3, <1>4, <1>5
<1> QED
  BY <1>2, <1>3, <1>4, <1>5, <1>6

\* A history of which the first d entries are dropped, and whether those are
\* of versions up to base.
Dropped(m, k, d) ==
    /\ m \in Seq(Entries) /\ k \in Seq(Entries) /\ d \in Nat /\ d <= Len(m)
    /\ k = SubSeq(m, d + 1, Len(m)) /\ Len(k) = Len(m) - d
    /\ \A i \in 1..(Len(m) - d) : k[i] = m[d + i]
Outdated(m, d, base) == \A i \in 1..d : ~(m[i].version > base)

\* What is dropped is not needed by whoever read a version in what is left.
LEMMA SinceDropped ==
    ASSUME NEW h, NEW k, NEW d, Dropped(h, k, d), NEW base, Outdated(h, d, base)
    PROVE  FlattenSeq(Sel(h, base)) = FlattenSeq(Sel(k, base))
<1>0. /\ h \in Seq(Entries) /\ d \in Nat /\ d <= Len(h) /\ k = SubSeq(h, d + 1, Len(h))
      /\ \A i \in 1..d : ~(h[i].version > base)
  BY DEF Dropped, Outdated
<1> USE <1>0
<1> DEFINE S == Seq(Ops)
           all == Sel(h, base)
           front == SubSeq(all, 1, d)
           back == SubSeq(all, d + 1, Len(h))
<1>1. /\ all \in Seq(S) /\ Len(all) = Len(h) /\ Len(h) \in Nat
      /\ \A i \in 1..Len(h) : all[i] = IF h[i].version > base THEN h[i].ops ELSE <<>>
  BY SelFacts
<1> HIDE DEF all
<1>2. /\ front \in Seq(S) /\ back \in Seq(S) /\ all = front \o back
      /\ Len(front) = d /\ \A i \in 1..d : front[i] = all[i]
      /\ Len(back) = Len(h) - d /\ \A i \in 1..(Len(h) - d) : back[i] = all[d + i]
  <2> HIDE DEF S
  <2>1. /\ front \in Seq(S) /\ Len(front) = d /\ \A i \in 1..d : front[i] = all[i]
    BY <1>1
  <2>2. /\ back \in Seq(S) /\ Len(back) = Len(h) - d
        /\ \A i \in 1..(Len(h) - d) : back[i] = all[d + i]
    BY <1>1
  <2>3. all = front \o back
    <3>1. PICK x, y, z : x = front /\ y = back /\ z = x \o y
      OBVIOUS
    <3>2. PICK m : m = Len(h) - d
      OBVIOUS
    <3>3. d = Len(x) /\ m = Len(y) /\ x \in Seq(S) /\ y \in Seq(S)
      BY <2>1, <2>2, <3>1, <3>2
    <3>4. /\ z \in Seq(S) /\ Len(z) = d + m
          /\ \A i \in 1..d : z[i] = x[i]
          /\ \A i \in (d + 1)..(d + m) : z[i] = y[i - d]
      <4>1. z = x \o y /\ d = Len(x) /\ m = Len(y) /\ x \in Seq(S) /\ y \in Seq(S)
        BY <3>1, <3>3
      <4> HIDE DEF front, back
      <4> QED
        BY <4>1, CatFacts
    <3>5. d + m = Len(all) /\ m \in Nat
      BY <1>1, <3>2
    <3>6. ASSUME NEW i \in 1..Len(all) PROVE z[i] = all[i]
      <4>1. CASE i <= d
        <5>1. i \in 1..d
          BY <1>1, <4>1
        <5> HIDE DEF front, back
        <5> QED
          BY <2>1, <3>1, <3>4, <5>1
      <4>2. CASE i > d
        <5>1. i - d \in 1..m /\ d + (i - d) = i
          BY <3>5, <4>2
        <5>2. y[i - d] = all[d + (i - d)]
          BY <2>2, <3>1, <3>2, <5>1
        <5> QED
          BY <3>4, <3>5, <4>2, <5>1, <5>2
      <4> QED
        BY <1>1, <4>1, <4>2
    <3>7. z = all
      BY <1>1, <3>4, <3>5, <3>6
    <3> QED
      BY <3>1, <3>7
  <2> HIDE DEF front, back
  <2> QED
    BY <2>1, <2>2, <2>3
<1>3. /\ k \in Seq(Entries) /\ Len(k) = Len(h) - d
      /\ \A i \in 1..(Len(h) - d) : k[i] = h[d + i]
  BY DEF Dropped
<1>4. Sel(k, base) = back
  <2>1. /\ Sel(k, base) \in Seq(S) /\ Len(Sel(k, base)) = Len(h) - d
        /\ \A i \in 1..(Len(h) - d) : Sel(k, base)[i] = IF k[i].version > base THEN k[i].ops ELSE <<>>
    BY <1>3, SelFacts
  <2>2. \A i \in 1..(Len(h) - d) : d + i \in 1..Len(h)
    BY <1>1
  <2>3. \A i \in 1..(Len(h) - d) : Sel(k, base)[i] = back[i]
    BY <1>1, <1>2, <1>3, <2>1, <2>2
  <2> HIDE DEF S, back
  <2> QED
    BY <1>2, <2>1, <2>3
<1>5. FlattenSeq(front) = <<>>
  <2> HIDE DEF front, back, S
  <2>1. ASSUME NEW i \in 1..Len(front) PROVE front[i] = <<>>
    <3>1. i \in 1..d /\ i \in 1..Len(h)
      BY <1>1, <1>2
    <3>2. front[i] = all[i] /\ all[i] = IF h[i].version > base THEN h[i].ops ELSE <<>>
      BY <1>1, <1>2, <3>1
    <3> QED
      BY <3>1, <3>2
  <2> USE DEF S
  <2> QED
    BY <1>2, <2>1, FlatNone
<1>6. FlattenSeq(all) = FlattenSeq(front) \o FlattenSeq(back) /\ FlattenSeq(back) \in Seq(Ops)
  <2> HIDE DEF front, back
  <2> QED
    BY <1>2, FlatCat, FlatType
<1>7. <<>> \o FlattenSeq(back) = FlattenSeq(back)
  BY <1>6
<1> QED
  BY <1>4, <1>5, <1>6, <1>7 DEF all

LEMMA SelAppend ==
    ASSUME NEW h \in Seq(Entries), NEW e \in Entries, NEW base
    PROVE  Sel(Append(h, e), base) = Append(Sel(h, base), IF e.version > base THEN e.ops ELSE <<>>)
<1> DEFINE last == IF e.version > base THEN e.ops ELSE <<>>
           more == Append(h, e)
           S == Seq(Ops)
<1>1. /\ more \in Seq(Entries) /\ Len(more) = Len(h) + 1 /\ Len(h) \in Nat
      /\ more[Len(h) + 1] = e /\ \A i \in 1..Len(h) : more[i] = h[i]
  OBVIOUS
<1>2. last \in S
  <2>1. e.ops \in Seq(Ops) /\ <<>> \in Seq(Ops)
    BY EntryOps
  <2> QED
    BY <2>1
<1> HIDE DEF more, last
<1>3. /\ Sel(more, base) \in Seq(S) /\ Len(Sel(more, base)) = Len(h) + 1
      /\ \A i \in 1..(Len(h) + 1) : Sel(more, base)[i] = IF more[i].version > base THEN more[i].ops ELSE <<>>
  BY <1>1, SelFacts
<1>4. /\ Sel(h, base) \in Seq(S) /\ Len(Sel(h, base)) = Len(h)
      /\ \A i \in 1..Len(h) : Sel(h, base)[i] = IF h[i].version > base THEN h[i].ops ELSE <<>>
  BY SelFacts
<1> HIDE DEF S
<1>5. /\ Append(Sel(h, base), last) \in Seq(S) /\ Len(Append(Sel(h, base), last)) = Len(h) + 1
      /\ \A i \in 1..Len(h) : Append(Sel(h, base), last)[i] = Sel(h, base)[i]
      /\ Append(Sel(h, base), last)[Len(h) + 1] = last
  BY <1>2, <1>4
<1>6. \A i \in 1..(Len(h) + 1) : Sel(more, base)[i] = Append(Sel(h, base), last)[i]
  BY <1>1, <1>3, <1>4, <1>5 DEF last
<1> QED
  BY <1>3, <1>5, <1>6 DEF last, more

\* A place stays one through any operations.
LEMMA ThroughType ==
    ASSUME NEW line \in Nat \ {0}, NEW os \in Seq(Ops)
    PROVE  Through(line, os) \in Nat \ {0}
<1> DEFINE P == {n \in Nat : \A s \in Seq(Ops) : Len(s) = n => Through(line, s) \in Nat \ {0}}
<1>1. 0 \in P
  <2>1. \A s \in Seq(Ops) : Len(s) = 0 => s = <<>>
    OBVIOUS
  <2> QED
    BY <2>1, ThroughNone
<1>2. ASSUME NEW n \in P PROVE n + 1 \in P
  <2>1. n \in Nat /\ n + 1 \in Nat
    OBVIOUS
  <2>2. ASSUME NEW s \in Seq(Ops), Len(s) = n + 1 PROVE Through(line, s) \in Nat \ {0}
    <3>1. PICK t, o : t = SubSeq(s, 1, n) /\ o = s[n + 1]
      OBVIOUS
    <3>2. t \in Seq(Ops) /\ Len(t) = n /\ o \in Ops /\ s = Append(t, o)
      <4>1. t \in Seq(Ops) /\ Len(t) = n /\ \A i \in 1..n : t[i] = s[i]
        BY <2>1, <2>2, <3>1
      <4>2. o \in Ops /\ o = s[n + 1]
        BY <2>1, <2>2, <3>1
      <4>3. PICK u : u = Append(t, o)
        OBVIOUS
      <4>4. u \in Seq(Ops) /\ Len(u) = n + 1 /\ u[n + 1] = o /\ \A i \in 1..n : u[i] = t[i]
        BY <4>1, <4>2, <4>3
      <4>5. \A i \in 1..(n + 1) : u[i] = s[i]
        BY <2>1, <4>1, <4>2, <4>4
      <4>6. u = s
        BY <2>1, <2>2, <4>4, <4>5
      <4> QED
        BY <4>1, <4>2, <4>3, <4>6
    <3>3. Through(line, t) \in Nat \ {0}
      BY <3>2
    <3>4. Through(line, s) = Shifted(Through(line, t), o)
      BY <3>2, ThroughMore
    <3>6. PICK x \in Nat \ {0} : x = Through(line, t)
      BY <3>3
    <3>7. Shifted(x, o) \in Nat \ {0}
      <4> HIDE DEF P
      <4>1. o \in Ops
        BY <3>2
      <4> QED
        BY ONLY <4>1, ShiftType
    <3> QED
      BY <3>4, <3>6, <3>7
  <2> QED
    BY <2>1, <2>2
<1>3. P = Nat
  <2>1. P \subseteq Nat
    OBVIOUS
  <2> HIDE DEF P
  <2> QED
    BY <1>1, <1>2, <2>1, Inductive
<1>4. Len(os) \in Nat
  OBVIOUS
<1> QED
  BY <1>3, <1>4

\* The history of a file counts its versions one by one, up to the present one.
Numbered(h, v) ==
    h \in Seq(Entries) /\ \A i \in 1..Len(h) : h[i].version = v - Len(h) + i
Recorded(f) == f.version \in Nat /\ Numbered(f.history, f.version)

LEMMA NothingSince == ASSUME NEW f, Recorded(f) PROVE Since(f, f.version) = <<>>
<1>1. PICK n \in Nat : n = Len(f.history)
  BY DEF Recorded, Numbered
<1>2. \A i \in 1..n : ~(f.history[i].version > f.version)
  BY <1>1 DEF Recorded, Numbered
<1> QED
  BY <1>1, <1>2, SinceNone DEF Recorded, Numbered

\* The operation as it is applied: its place has gone through what is since base.
Moves(f, base, o) ==
    IF o.op = "replace" THEN o ELSE [o EXCEPT !.line = Through(o.line, Since(f, base))]

LEMMA MovesFacts ==
    ASSUME NEW f, Recorded(f), NEW base, NEW o \in Ops
    PROVE  /\ Moves(f, base, o) \in Ops
           /\ Moves(f, base, o).op = o.op
           /\ o.op # "delete" => Moves(f, base, o).text = o.text
           /\ o.op = "delete" => Moves(f, base, o).count = o.count
           /\ o.op # "replace" => Moves(f, base, o).line = Through(o.line, Since(f, base))
<1>1. o.line \in Nat \ {0}
  BY DEF Ops, InsertOps, DeleteOps, ReplaceOps
<1>2. PICK line \in Nat \ {0} : line = Through(o.line, Since(f, base))
  BY <1>1, ThroughType, SinceType DEF Recorded, Numbered
<1>3. Moves(f, base, o) = IF o.op = "replace" THEN o ELSE [o EXCEPT !.line = line]
  BY <1>2 DEF Moves
<1>4. CASE o \in InsertOps
  <2>1. o = [op |-> "insert", line |-> o.line, text |-> o.text] /\ o.text \in Seq(LineIds)
    BY <1>4 DEF InsertOps
  <2>2. [o EXCEPT !.line = line] = [op |-> "insert", line |-> line, text |-> o.text]
    BY <2>1
  <2>3. [op |-> "insert", line |-> line, text |-> o.text] \in InsertOps
    BY <2>1 DEF InsertOps
  <2>4. o.op = "insert"
    BY <1>4 DEF InsertOps
  <2> QED
    BY <1>2, <1>3, <2>2, <2>3, <2>4 DEF Ops
<1>5. CASE o \in DeleteOps
  <2>1. o = [op |-> "delete", line |-> o.line, count |-> o.count] /\ o.count \in Nat
    BY <1>5 DEF DeleteOps
  <2>2. [o EXCEPT !.line = line] = [op |-> "delete", line |-> line, count |-> o.count]
    BY <2>1
  <2>3. [op |-> "delete", line |-> line, count |-> o.count] \in DeleteOps
    BY <2>1 DEF DeleteOps
  <2>4. o.op = "delete"
    BY <1>5 DEF DeleteOps
  <2> QED
    BY <1>2, <1>3, <2>2, <2>3, <2>4 DEF Ops
<1>6. CASE o \in ReplaceOps
  BY <1>3, <1>6 DEF Ops, ReplaceOps
<1> QED
  BY <1>4, <1>5, <1>6 DEF Ops

LEMMA PatchedOne ==
    ASSUME NEW f, Recorded(f), NEW base, NEW o \in Ops
    PROVE  LET p == Moves(f, base, o)
           IN  Patched(f, base, <<o>>) =
                   [text |-> ApplyOp(f.text, p), version |-> f.version + 1,
                    history |-> Kept(Append(f.history, [version |-> f.version + 1, ops |-> <<p>>]))]
<1> DEFINE done == IF base = f.version THEN <<o>> ELSE Rebased(f, base, <<o>>)
<1>1. Rebased(f, base, <<o>>) = <<Moves(f, base, o)>>
  <2>1. DOMAIN <<o>> = {1} /\ <<o>>[1] = o
    OBVIOUS
  <2>2. Rebased(f, base, <<o>>) = [i \in {1} |-> Moves(f, base, o)]
    BY <2>1 DEF Rebased, Moves, Through
  <2>3. [i \in {1} |-> Moves(f, base, o)] = <<Moves(f, base, o)>>
    OBVIOUS
  <2> QED
    BY <2>2, <2>3
<1>2. base = f.version => Moves(f, base, o) = o
  <2>1. SUFFICES ASSUME base = f.version, o.op # "replace" PROVE [o EXCEPT !.line = Through(o.line, Since(f, base))] = o
    BY DEF Moves
  <2>2. Through(o.line, Since(f, base)) = o.line
    BY <2>1, NothingSince, ThroughNone
  <2>3. [o EXCEPT !.line = o.line] = o
    BY DEF Ops, InsertOps, DeleteOps, ReplaceOps
  <2> QED
    BY <2>2, <2>3
<1>3. done = <<Moves(f, base, o)>>
  BY <1>1, <1>2
<1>4. Applied(f.text, <<Moves(f, base, o)>>) = ApplyOp(f.text, Moves(f, base, o))
  BY AppliedOne
<1>5. Patched(f, base, <<o>>) =
          [text |-> Applied(f.text, done), version |-> f.version + 1,
           history |-> Kept(Append(f.history, [version |-> f.version + 1, ops |-> done]))]
  BY DEF Patched
<1> HIDE DEF done
<1> QED
  BY <1>3, <1>4, <1>5

LEMMA KeptDrops == ASSUME NEW h \in Seq(Entries) PROVE \E d : Dropped(h, Kept(h), d)
<1>1. PICK d \in Nat : /\ d <= Len(h) /\ Kept(h) = SubSeq(h, d + 1, Len(h))
                       /\ Kept(h) \in Seq(Entries) /\ Len(Kept(h)) = Len(h) - d
                       /\ \A i \in 1..(Len(h) - d) : Kept(h)[i] = h[d + i]
  BY KeptFacts
<1>2. PICK k : k = Kept(h)
  OBVIOUS
<1>3. Dropped(h, k, d)
  BY <1>1, <1>2 DEF Dropped
<1> QED
  BY <1>2, <1>3

\* Who reaches back to a version in what is left needs nothing that was dropped.
LEMMA DroppedFacts ==
    ASSUME NEW v \in Nat, NEW m, Numbered(m, v + 1), NEW k, NEW d, Dropped(m, k, d)
    PROVE  /\ Numbered(k, v + 1)
           /\ \A base \in Nat : base <= v /\ v + 1 - base <= Len(k) =>
                  v + 1 - base <= Len(m) /\ Outdated(m, d, base)
<1>1. PICK n \in Nat : n = Len(m)
  BY DEF Dropped
<1>2. PICK l \in Nat : l = Len(k)
  <2>1. k \in Seq(Entries)
    BY DEF Dropped
  <2> QED
    BY <2>1
<1>3. d \in Nat /\ d <= n /\ l = n - d /\ k \in Seq(Entries) /\ \A i \in 1..(n - d) : k[i] = m[d + i]
  BY <1>1, <1>2 DEF Dropped
<1>4. \A i \in 1..n : m[i].version = v + 1 - n + i
  BY <1>1 DEF Numbered
<1>5. ASSUME NEW i \in 1..l PROVE k[i].version = v + 1 - l + i
  <2>1. PICK x \in 1..n : x = d + i
    BY <1>3
  <2>2. k[i] = m[x] /\ m[x].version = v + 1 - n + x
    BY <1>3, <1>4, <2>1
  <2>3. v + 1 - n + x = v + 1 - l + i
    BY <1>3, <2>1
  <2> QED
    BY <2>2, <2>3
<1>6. ASSUME NEW base \in Nat, base <= v, v + 1 - base <= l
      PROVE  v + 1 - base <= n /\ Outdated(m, d, base)
  <2>1. v + 1 - base <= n
    BY <1>3, <1>6
  <2>2. ASSUME NEW i \in 1..d PROVE ~(m[i].version > base)
    <3>1. i \in 1..n /\ v + 1 - n + i <= base
      BY <1>3, <1>6
    <3>2. PICK y : y = m[i].version
      OBVIOUS
    <3>3. y = v + 1 - n + i
      BY <1>4, <3>1, <3>2
    <3>4. ~(y > base)
      BY <3>1, <3>3
    <3> QED
      BY <3>2, <3>4
  <2> QED
    BY <2>1, <2>2 DEF Outdated
<1> QED
  BY <1>1, <1>2, <1>3, <1>5, <1>6 DEF Numbered

LEMMA SelMore ==
    ASSUME NEW h \in Seq(Entries), NEW p \in Ops, NEW v \in Nat, NEW base \in Nat, base <= v
    PROVE  FlattenSeq(Sel(Append(h, [version |-> v + 1, ops |-> <<p>>]), base))
               = Append(FlattenSeq(Sel(h, base)), p)
<1>1. PICK e : e = [version |-> v + 1, ops |-> <<p>>]
  OBVIOUS
<1>2. e \in Entries /\ e.version > base /\ e.ops = <<p>>
  BY <1>1 DEF Entries
<1>3. Sel(Append(h, e), base) = Append(Sel(h, base), <<p>>)
  BY <1>2, SelAppend
<1>4. FlattenSeq(Append(Sel(h, base), <<p>>)) = FlattenSeq(Sel(h, base)) \o <<p>>
  <2>1. Sel(h, base) \in Seq(Seq(Ops)) /\ <<p>> \in Seq(Ops)
    BY SelFacts
  <2> QED
    BY <2>1, FlatAppend
<1>5. FlattenSeq(Sel(h, base)) \in Seq(Ops)
  BY SelFacts, FlatType
<1>6. FlattenSeq(Sel(h, base)) \o <<p>> = Append(FlattenSeq(Sel(h, base)), p)
  BY <1>5
<1> QED
  BY <1>1, <1>3, <1>4, <1>6

LEMMA OneEntryMore ==
    ASSUME NEW v \in Nat, NEW h, Numbered(h, v), NEW p \in Ops
    PROVE  LET m == Append(h, [version |-> v + 1, ops |-> <<p>>])
           IN  Numbered(m, v + 1) /\ Len(m) = Len(h) + 1 /\ m \in Seq(Entries)
<1>0. h \in Seq(Entries)
  BY DEF Numbered
<1>1. PICK e : e = [version |-> v + 1, ops |-> <<p>>]
  OBVIOUS
<1>2. e \in Entries /\ e.version = v + 1
  BY <1>1 DEF Entries
<1>n. PICK n \in Nat : n = Len(h)
  BY <1>0
<1>3. Append(h, e) \in Seq(Entries) /\ Len(Append(h, e)) = n + 1
  BY <1>0, <1>2, <1>n
<1>4. Append(h, e)[n + 1] = e /\ \A i \in 1..n : Append(h, e)[i] = h[i]
  BY <1>0, <1>2, <1>n
<1>5. PICK m : m = Append(h, e)
  OBVIOUS
<1>6. m[n + 1] = e /\ \A i \in 1..n : m[i] = h[i]
  BY <1>4, <1>5
<1>7. \A i \in 1..(n + 1) : i \in 1..n \/ i = n + 1
  OBVIOUS
<1>8. ASSUME NEW i \in 1..(n + 1) PROVE m[i].version = v + 1 - (n + 1) + i
  <2>1. CASE i \in 1..n
    <3>1. h[i].version = v - n + i /\ v - n + i = v + 1 - (n + 1) + i
      BY <1>n, <2>1 DEF Numbered
    <3> QED
      BY <1>6, <2>1, <3>1
  <2>2. CASE i = n + 1
    <3>1. v + 1 = v + 1 - (n + 1) + (n + 1)
      OBVIOUS
    <3> QED
      BY <1>2, <1>6, <2>2, <3>1
  <2> QED
    BY <1>7, <2>1, <2>2
<1>9. m \in Seq(Entries) /\ Len(m) = n + 1
  BY <1>3, <1>5
<1>10. Numbered(m, v + 1)
  BY <1>8, <1>9 DEF Numbered
<1> QED
  BY <1>1, <1>n, <1>5, <1>9, <1>10

LEMMA SinceMore ==
    ASSUME NEW f, Recorded(f), NEW p \in Ops, NEW g, g.version = f.version + 1,
           g.history = Kept(Append(f.history, [version |-> f.version + 1, ops |-> <<p>>]))
    PROVE  /\ Recorded(g)
           /\ \A base \in Nat : base <= f.version /\ g.version - base <= Len(g.history) =>
                  /\ f.version - base <= Len(f.history)
                  /\ Since(g, base) = Append(Since(f, base), p)
<1> DEFINE m == Append(f.history, [version |-> f.version + 1, ops |-> <<p>>])
<1>1. f.version \in Nat /\ Numbered(f.history, f.version) /\ f.history \in Seq(Entries)
  BY DEF Recorded, Numbered
<1>2. Numbered(m, f.version + 1) /\ Len(m) = Len(f.history) + 1 /\ m \in Seq(Entries)
  BY <1>1, OneEntryMore
<1>3. \A base \in Nat : base <= f.version => FlattenSeq(Sel(m, base)) = Append(FlattenSeq(Sel(f.history, base)), p)
  BY <1>1, SelMore
<1>4. g.history = Kept(m)
  OBVIOUS
<1> HIDE DEF m
<1>5. PICK d : Dropped(m, g.history, d)
  BY <1>2, <1>4, KeptDrops
<1>6. /\ Numbered(g.history, f.version + 1)
      /\ \A base \in Nat : base <= f.version /\ f.version + 1 - base <= Len(g.history) =>
             f.version + 1 - base <= Len(m) /\ Outdated(m, d, base)
  BY <1>1, <1>2, <1>5, DroppedFacts
<1>7. Recorded(g)
  BY <1>1, <1>6 DEF Recorded
<1>8. \A base : FlattenSeq(Sel(f.history, base)) = Since(f, base) /\ FlattenSeq(Sel(g.history, base)) = Since(g, base)
  BY DEF Sel, Since
<1>9. ASSUME NEW base \in Nat, base <= f.version, g.version - base <= Len(g.history)
      PROVE  /\ f.version - base <= Len(f.history)
             /\ Since(g, base) = Append(Since(f, base), p)
  <2>1. f.version + 1 - base <= Len(m) /\ Outdated(m, d, base)
    <3>1. f.version + 1 - base <= Len(g.history)
      <4>1. /\ g.version = f.version + 1 /\ g.version - base <= Len(g.history)
            /\ f.version \in Nat /\ base \in Nat
        BY <1>1, <1>9
      <4> QED
        BY ONLY <4>1
    <3> QED
      BY ONLY <1>6, <1>9, <3>1
  <2>2. FlattenSeq(Sel(m, base)) = FlattenSeq(Sel(g.history, base))
    BY <1>5, <2>1, SinceDropped
  <2>3. f.version - base <= Len(f.history)
    <3>1. PICK x, y : x = Len(f.history) /\ y = f.version
      OBVIOUS
    <3>2. x \in Nat /\ y \in Nat
      BY <1>1, <3>1
    <3>3. y + 1 - base <= x + 1
      BY <1>2, <2>1, <3>1
    <3>4. y - base <= x
      BY <3>2, <3>3
    <3> QED
      BY <3>1, <3>4
  <2> QED
    BY <1>3, <1>8, <1>9, <2>2, <2>3
<1> QED
  BY <1>7, <1>9

-----------------------------------------------------------------------------
\* A text whose lines are of the first n patches, each there once.
Whole(text, n) ==
    /\ text \in Seq(LineIds) /\ IsInjective(text)
    /\ \A i \in DOMAIN text : text[i][1] <= n

\* An operation brings lines of patch n.
Fresher(o, n) ==
    o.op # "delete" => IsInjective(o.text) /\ \A i \in DOMAIN o.text : o.text[i][1] = n

LEMMA WholeApplied ==
    ASSUME NEW n \in Nat, NEW text, Whole(text, n), NEW o \in Ops, Fresher(o, n + 1)
    PROVE  Whole(ApplyOp(text, o), n + 1)
<1> DEFINE new == ApplyOp(text, o)
           at == Clamp(o.line, text)
<1>0. text \in Seq(LineIds) /\ o.line \in Nat \ {0}
  BY DEF Whole, Ops, InsertOps, DeleteOps, ReplaceOps
<1>1. \A i \in DOMAIN text : text[i][1] \in Nat /\ text[i][1] <= n
  BY <1>0 DEF Whole, LineIds
<1>2. CASE o \in InsertOps
  <2>1. o.op = "insert" /\ o.text \in Seq(LineIds) /\ DOMAIN text = 1..Len(text) /\ DOMAIN o.text = 1..Len(o.text)
    BY <1>0, <1>2 DEF InsertOps
  <2>2. at \in Nat
    BY <1>0, Clamped
  <2>3. /\ new \in Seq(LineIds)
        /\ \A i \in 1..Len(text) : new[Moved(i, at, o)] = text[i]
        /\ \A i \in 1..Len(o.text) : new[at + i] = o.text[i]
        /\ \A j \in DOMAIN new :
               \/ \E i \in DOMAIN text : Becomes(i, j, text, o)
               \/ j - at \in 1..Len(o.text)
    BY <1>0, <1>2, InsertedFacts
  <2>4. ASSUME NEW j \in DOMAIN new
        PROVE  \/ \E i \in DOMAIN text : j = Moved(i, at, o) /\ new[j] = text[i]
               \/ \E i \in DOMAIN o.text : j = at + i /\ new[j] = o.text[i]
    <3>1. j \in Nat
      BY <2>3
    <3>2. CASE \E i \in DOMAIN text : Becomes(i, j, text, o)
      <4>1. PICK i \in DOMAIN text : Becomes(i, j, text, o)
        BY <3>2
      <4>2. j = Moved(i, at, o)
        BY <4>1 DEF Becomes
      <4> HIDE DEF new, at
      <4> QED
        BY <2>1, <2>3, <4>2
    <3>3. CASE j - at \in 1..Len(o.text)
      <4>1. PICK i : i = j - at
        OBVIOUS
      <4>2. i \in 1..Len(o.text) /\ j = at + i
        BY <2>2, <3>1, <3>3, <4>1
      <4> HIDE DEF new, at
      <4> QED
        BY <2>1, <2>3, <4>2
    <3> HIDE DEF new, at
    <3> QED
      BY <2>3, <3>2, <3>3
  <2>5. \A i \in DOMAIN o.text : o.text[i][1] = n + 1
    BY <2>1 DEF Fresher
  <2>6. \A j \in DOMAIN new : new[j][1] <= n + 1
    <3> HIDE DEF new, at
    <3> QED
      BY <1>1, <2>4, <2>5
  <2>7. ASSUME NEW j \in DOMAIN new, NEW k \in DOMAIN new, new[j] = new[k] PROVE j = k
    <3> HIDE DEF new, at
    <3>1. CASE \E i \in DOMAIN text : j = Moved(i, at, o) /\ new[j] = text[i]
      <4>1. PICK i \in DOMAIN text : j = Moved(i, at, o) /\ new[j] = text[i]
        BY <3>1
      <4>2. CASE \E h \in DOMAIN text : k = Moved(h, at, o) /\ new[k] = text[h]
        BY <2>7, <4>1, <4>2 DEF Whole, IsInjective
      <4>3. CASE \E h \in DOMAIN o.text : k = at + h /\ new[k] = o.text[h]
        BY <1>1, <2>5, <2>7, <4>1, <4>3
      <4> QED
        BY <2>4, <4>2, <4>3
    <3>2. CASE \E i \in DOMAIN o.text : j = at + i /\ new[j] = o.text[i]
      <4>1. PICK i \in DOMAIN o.text : j = at + i /\ new[j] = o.text[i]
        BY <3>2
      <4>2. CASE \E h \in DOMAIN text : k = Moved(h, at, o) /\ new[k] = text[h]
        BY <1>1, <2>5, <2>7, <4>1, <4>2
      <4>3. CASE \E h \in DOMAIN o.text : k = at + h /\ new[k] = o.text[h]
        BY <2>1, <2>7, <4>1, <4>3 DEF Fresher, IsInjective
      <4> QED
        BY <2>4, <4>2, <4>3
    <3> QED
      BY <2>4, <3>1, <3>2
  <2> QED
    BY <2>3, <2>6, <2>7 DEF Whole, IsInjective
<1>3. CASE o \in DeleteOps
  <2>1. o.op = "delete" /\ DOMAIN text = 1..Len(text)
    BY <1>0, <1>3 DEF DeleteOps
  <2>2. new \in Seq(LineIds)
    BY <1>0, <1>3, DeletedFacts
  <2>3. ASSUME NEW j \in DOMAIN new
        PROVE  \E i \in DOMAIN text : j = Moved(i, at, o) /\ new[j] = text[i]
    <3>1. PICK i \in DOMAIN text : Becomes(i, j, text, o)
      BY <1>0, <1>3, DeletedFacts
    <3>2. j = Moved(i, at, o) /\ (i <= at \/ i > at + o.count)
      BY <2>1, <3>1 DEF Becomes
    <3>3. new[Moved(i, at, o)] = text[i]
      BY <1>0, <1>3, <2>1, <3>2, DeletedFacts
    <3> HIDE DEF new, at
    <3> QED
      BY <3>2, <3>3
  <2> HIDE DEF new, at
  <2>4. \A j \in DOMAIN new : new[j][1] <= n + 1
    BY <1>1, <2>3
  <2>5. \A j, k \in DOMAIN new : new[j] = new[k] => j = k
    BY <2>3 DEF Whole, IsInjective
  <2> QED
    BY <2>2, <2>4, <2>5 DEF Whole, IsInjective, new
<1>4. CASE o \in ReplaceOps
  <2>1. new = o.text /\ o.text \in Seq(LineIds) /\ o.op = "replace"
    BY <1>4, ReplacedFacts DEF ReplaceOps
  <2>2. \A i \in DOMAIN o.text : o.text[i][1] <= n + 1
    BY <2>1 DEF Fresher
  <2> HIDE DEF new
  <2> QED
    BY <2>1, <2>2 DEF Fresher, Whole, new
<1> QED
  BY <1>2, <1>3, <1>4 DEF Ops

-----------------------------------------------------------------------------
(***************************************************************************)
(* Files and what is known of them                                         *)
(***************************************************************************)
Sound(f, n) == Whole(f.text, n) /\ Recorded(f)
SoundFiles(files, n) == DOMAIN files \subseteq Paths /\ \A p \in DOMAIN files : Sound(files[p], n)
SoundTexts(d, n) == DOMAIN d \subseteq Paths /\ \A p \in DOMAIN d : Whole(d[p], n)

\* There is no insertion of nothing among os.
Substantial(os) == ~(\E h \in ToSet(os) : Vacuous(h))

LEMMA SubstantialMore ==
    ASSUME NEW os \in Seq(Ops), NEW o, Substantial(Append(os, o))
    PROVE  Substantial(os) /\ ~Vacuous(o)
<1>1. /\ Len(os) \in Nat /\ DOMAIN os = 1..Len(os) /\ DOMAIN Append(os, o) = 1..(Len(os) + 1)
      /\ Append(os, o)[Len(os) + 1] = o /\ \A i \in 1..Len(os) : Append(os, o)[i] = os[i]
  OBVIOUS
<1>2. \A i \in 1..(Len(os) + 1) : ~Vacuous(Append(os, o)[i])
  BY <1>1 DEF Substantial, ToSet
<1>3. \A i \in 1..Len(os) : i \in 1..(Len(os) + 1)
  BY <1>1
<1>4. Len(os) + 1 \in 1..(Len(os) + 1)
  BY <1>1
<1>5. ~Vacuous(o)
  BY <1>1, <1>2, <1>4
<1>6. \A i \in 1..Len(os) : ~Vacuous(os[i])
  BY <1>1, <1>2, <1>3
<1> QED
  BY <1>1, <1>5, <1>6 DEF Substantial, ToSet

\* The lines of a text that was read can be followed into the file as it is, as
\* far as its history reaches, if nobody inserted nothing since.
Follows(b, f) ==
    /\ b.version <= f.version
    /\ f.version - b.version <= Len(f.history) /\ Substantial(Since(f, b.version)) =>
           Tracks(b.text, f.text, Since(f, b.version))

FileOf(files, p) == IF p \in DOMAIN files THEN files[p] ELSE NoFile

\* Someone has read b of the k-th object, whose files are sound.
WasRead(b, k, n) == b.life = k /\ b.path \in Paths /\ b.version \in Nat /\ Whole(b.text, n)

LEMMA NewFileSound ==
    ASSUME NEW n \in Nat, NEW text, Whole(text, n), NEW v \in Nat
    PROVE  Sound(File(text, v), n)
<1>1. <<>> \in Seq(Entries) /\ Len(<<>>) = 0
  OBVIOUS
<1>2. Numbered(<<>>, v)
  BY <1>1 DEF Numbered
<1> QED
  BY <1>2 DEF Sound, Recorded, File

LEMMA NoFileSound == ASSUME NEW n \in Nat PROVE Sound(NoFile, n)
<1>1. <<>> \in Seq(LineIds) /\ DOMAIN <<>> = {}
  OBVIOUS
<1>2. Whole(<<>>, n)
  BY <1>1 DEF Whole, IsInjective
<1> QED
  BY <1>2, NewFileSound DEF NoFile

LEMMA WholeLater ==
    ASSUME NEW n \in Nat, NEW text, Whole(text, n) PROVE Whole(text, n + 1)
<1>1. text \in Seq(LineIds) /\ \A i \in DOMAIN text : text[i] \in LineIds
  BY DEF Whole
<1>2. \A i \in DOMAIN text : text[i][1] \in Nat /\ text[i][1] <= n
  BY <1>1 DEF Whole, LineIds
<1>3. \A i \in DOMAIN text : text[i][1] <= n + 1
  BY <1>2
<1> QED
  BY <1>3 DEF Whole

LEMMA FreshSound ==
    ASSUME NEW n \in Nat, NEW d, SoundTexts(d, n)
    PROVE  SoundFiles(Fresh(d).files, n)
<1>1. Fresh(d).files = [p \in DOMAIN d |-> File(d[p], 1)]
  BY DEF Fresh
<1> QED
  BY <1>1, NewFileSound DEF SoundFiles, SoundTexts

LEMMA StartsSound == ASSUME NEW n \in Nat, NEW files \in Starts PROVE SoundTexts(files, n)
<1>1. DOMAIN files \subseteq Paths /\ \A p \in DOMAIN files : files[p] \in Seq({0} \X Nat) /\ IsInjective(files[p])
  BY LiveWorkspaceAssumption
<1>2. ASSUME NEW p \in DOMAIN files PROVE Whole(files[p], n)
  <2>1. PICK t : t = files[p]
    OBVIOUS
  <2>2. t \in Seq({0} \X Nat) /\ IsInjective(t)
    BY <1>1, <2>1
  <2>3. \A i \in DOMAIN t : t[i] \in {0} \X Nat
    BY <2>2
  <2>4. \A i \in DOMAIN t : t[i][1] = 0 /\ t[i] \in LineIds
    BY <2>3 DEF LineIds
  <2>5. t \in Seq(LineIds)
    BY <2>2, <2>4
  <2> QED
    BY <2>1, <2>2, <2>4, <2>5 DEF Whole
<1> QED
  BY <1>1, <1>2 DEF SoundTexts

LEMMA OverSound ==
    ASSUME NEW n, NEW a, NEW b, SoundTexts(a, n), SoundTexts(b, n)
    PROVE  SoundTexts(Over(a, b), n) /\ \A P : SoundTexts(Some(a, P), n)
BY DEF SoundTexts, Over, Some

LEMMA TextsSound ==
    ASSUME NEW n, NEW k, SoundFiles(space[k].files, n)
    PROVE  SoundTexts(Texts(k), n)
BY DEF SoundFiles, SoundTexts, Sound, Texts

LEMMA FollowsSelf ==
    ASSUME NEW n, NEW f, Sound(f, n), NEW b, b.version = f.version, b.text = f.text
    PROVE  Follows(b, f)
<1>1. f.version \in Nat /\ Since(f, f.version) = <<>> /\ f.text \in Seq(LineIds) /\ IsInjective(f.text)
  BY NothingSince DEF Sound, Whole, Recorded
<1>2. Tracks(f.text, f.text, <<>>)
  BY <1>1, TracksNone
<1> QED
  BY <1>1, <1>2 DEF Follows

LEMMA ReadableFacts ==
    ASSUME NEW n \in Nat, NEW k, NEW files, SoundFiles(files, n), NEW b \in Readable(k, files)
    PROVE  WasRead(b, k, n) /\ Follows(b, FileOf(files, b.path))
<1>1. CASE \E p \in DOMAIN files : b = [life |-> k, path |-> p, version |-> files[p].version, text |-> files[p].text]
  <2>1. PICK p \in DOMAIN files : b = [life |-> k, path |-> p, version |-> files[p].version, text |-> files[p].text]
    BY <1>1
  <2>2. Sound(files[p], n) /\ p \in Paths /\ FileOf(files, p) = files[p]
    BY DEF SoundFiles, FileOf
  <2>3. b.life = k /\ b.path = p /\ b.version = files[p].version /\ b.text = files[p].text
    BY <2>1
  <2>4. Follows(b, files[p])
    BY <2>2, <2>3, FollowsSelf
  <2> QED
    BY <2>2, <2>3, <2>4 DEF WasRead, Sound, Recorded
<1>2. CASE \E p \in Paths \ DOMAIN files : b = [life |-> k, path |-> p, version |-> 0, text |-> <<>>]
  <2>1. PICK p \in Paths \ DOMAIN files : b = [life |-> k, path |-> p, version |-> 0, text |-> <<>>]
    BY <1>2
  <2>2. Sound(NoFile, n) /\ FileOf(files, p) = NoFile /\ NoFile.version = 0 /\ NoFile.text = <<>>
    BY NoFileSound DEF FileOf, NoFile, File
  <2>3. b.life = k /\ b.path = p /\ b.version = NoFile.version /\ b.text = NoFile.text
    BY <2>1, <2>2
  <2>4. Follows(b, NoFile)
    BY <2>2, <2>3, FollowsSelf
  <2> QED
    BY <2>2, <2>3, <2>4 DEF WasRead, Sound, Recorded
<1> QED
  BY <1>1, <1>2 DEF Readable

\* What an author asks for is an operation, and what it brings is new.
LEMMA EditsFacts ==
    ASSUME patches \in Nat, NEW text, Whole(text, patches), NEW o \in Edits(text)
    PROVE  /\ o \in Ops /\ Fresher(o, patches + 1)
           /\ o.op = "insert" => o.line \in 1..(Len(text) + 1)
           /\ o.op = "delete" => o.line \in DOMAIN text
<1>0. text \in Seq(LineIds) /\ Len(text) \in Nat /\ DOMAIN text = 1..Len(text)
  BY DEF Whole
<1>1. ASSUME NEW n \in Inserts
      PROVE  /\ NewLines(n) \in Seq(LineIds) /\ IsInjective(NewLines(n))
             /\ \A i \in DOMAIN NewLines(n) : NewLines(n)[i][1] = patches + 1
  <2>1. n \in Nat
    BY LiveWorkspaceAssumption
  <2>2. \A i \in 1..n : NewLines(n)[i] = <<patches + 1, i>>
    BY DEF NewLines
  <2>3. \A i \in 1..n : <<patches + 1, i>> \in LineIds
    BY <2>1 DEF LineIds
  <2>4. NewLines(n) \in Seq(LineIds) /\ DOMAIN NewLines(n) = 1..n
    BY <2>1, <2>3 DEF NewLines
  <2> QED
    BY <2>2, <2>4 DEF IsInjective
<1>2. CASE \E l \in 1..(Len(text) + 1), n \in Inserts : o = [op |-> "insert", line |-> l, text |-> NewLines(n)]
  <2>1. PICK l \in 1..(Len(text) + 1), n \in Inserts : o = [op |-> "insert", line |-> l, text |-> NewLines(n)]
    BY <1>2
  <2>2. PICK t : t = NewLines(n)
    OBVIOUS
  <2>3. o = [op |-> "insert", line |-> l, text |-> t] /\ l \in Nat \ {0} /\ t \in Seq(LineIds)
    BY <1>0, <1>1, <2>1, <2>2
  <2>4. o \in InsertOps
    BY <2>3 DEF InsertOps
  <2>5. o.op = "insert" /\ o.line = l /\ o.text = t
    BY <2>3
  <2> QED
    BY <1>1, <2>2, <2>4, <2>5 DEF Ops, Fresher
<1>3. CASE o \in [op : {"delete"}, line : 1..Len(text), count : Deletes]
  <2>1. o \in DeleteOps
    <3>1. PICK L : L = 1..Len(text)
      OBVIOUS
    <3>2. L \subseteq Nat \ {0} /\ Deletes \subseteq Nat
      BY <1>0, <3>1, LiveWorkspaceAssumption
    <3>3. o \in [op : {"delete"}, line : L, count : Deletes]
      BY <1>3, <3>1
    <3> QED
      BY <3>2, <3>3 DEF DeleteOps
  <2>2. o.op = "delete" /\ o.line \in 1..Len(text)
    BY <1>3
  <2> QED
    BY <1>0, <2>1, <2>2 DEF Ops, Fresher
<1>4. CASE \E n \in Inserts : o = [op |-> "replace", line |-> 1, text |-> NewLines(n)]
  <2>1. PICK n \in Inserts : o = [op |-> "replace", line |-> 1, text |-> NewLines(n)]
    BY <1>4
  <2>2. PICK t : t = NewLines(n)
    OBVIOUS
  <2>3. o = [op |-> "replace", line |-> 1, text |-> t] /\ t \in Seq(LineIds)
    BY <1>1, <2>1, <2>2
  <2>4. o \in ReplaceOps
    BY <2>3 DEF ReplaceOps
  <2>5. o.op = "replace" /\ o.text = t
    BY <2>3
  <2> QED
    BY <1>1, <2>2, <2>4, <2>5 DEF Ops, Fresher
<1> QED
  BY <1>2, <1>3, <1>4 DEF Edits

\* A file after a patch is sound, and whoever could follow it still can.
LEMMA PatchedSound ==
    ASSUME NEW n \in Nat, NEW f, Sound(f, n), NEW base, NEW o \in Ops, Fresher(o, n + 1),
           NEW g, g = Patched(f, base, <<o>>)
    PROVE  /\ Sound(g, n + 1)
           /\ \A b : b.version \in Nat /\ Whole(b.text, n) /\ Follows(b, f) => Follows(b, g)
<1>1. Recorded(f) /\ Whole(f.text, n) /\ f.version \in Nat
  BY DEF Sound, Recorded
<1>2. PICK p : p = Moves(f, base, o)
  OBVIOUS
<1>3. /\ p \in Ops /\ p.op = o.op /\ (o.op # "delete" => p.text = o.text)
      /\ g = [text |-> ApplyOp(f.text, p), version |-> f.version + 1,
              history |-> Kept(Append(f.history, [version |-> f.version + 1, ops |-> <<p>>]))]
  BY <1>1, <1>2, MovesFacts, PatchedOne
<1>4. /\ g.text = ApplyOp(f.text, p) /\ g.version = f.version + 1
      /\ g.history = Kept(Append(f.history, [version |-> f.version + 1, ops |-> <<p>>]))
  BY <1>3
<1>5. Fresher(p, n + 1)
  BY <1>3 DEF Fresher
<1>6. Whole(g.text, n + 1)
  BY <1>1, <1>3, <1>4, <1>5, WholeApplied
<1>7. /\ Recorded(g)
      /\ \A v \in Nat : v <= f.version /\ g.version - v <= Len(g.history) =>
             f.version - v <= Len(f.history) /\ Since(g, v) = Append(Since(f, v), p)
  BY <1>1, <1>3, <1>4, SinceMore
<1>8. ASSUME NEW b, b.version \in Nat, Whole(b.text, n), Follows(b, f) PROVE Follows(b, g)
  <2>1. b.version <= f.version /\ b.version <= g.version
    <3>1. b.version <= f.version
      BY <1>8 DEF Follows
    <3>2. g.version = f.version + 1 /\ f.version \in Nat /\ b.version \in Nat
      BY <1>1, <1>4, <1>8
    <3> QED
      BY ONLY <3>1, <3>2
  <2>2. ASSUME g.version - b.version <= Len(g.history), Substantial(Since(g, b.version))
        PROVE  Tracks(b.text, g.text, Since(g, b.version))
    <3>1. f.version - b.version <= Len(f.history) /\ Since(g, b.version) = Append(Since(f, b.version), p)
      BY <1>7, <1>8, <2>1, <2>2
    <3>3. b.text \in Seq(LineIds) /\ f.text \in Seq(LineIds) /\ Since(f, b.version) \in Seq(Ops)
      BY <1>1, <1>8, SinceType DEF Whole, Recorded, Numbered
    <3>8. Substantial(Since(f, b.version)) /\ ~Vacuous(p)
      BY <2>2, <3>1, <3>3, SubstantialMore
    <3>2. Tracks(b.text, f.text, Since(f, b.version))
      BY <1>8, <3>1, <3>8 DEF Follows
    <3>4. \A i \in DOMAIN b.text : b.text[i][1] \in Nat /\ b.text[i][1] <= n
      BY <1>8, <3>3 DEF Whole, LineIds
    <3>5. \A x \in Brings(p) : x[1] = n + 1
      BY <1>5 DEF Brings, Fresher, Lines
    <3>6. \A i \in DOMAIN b.text : b.text[i] \notin Brings(p)
      BY <3>4, <3>5
    <3>7. Tracks(b.text, ApplyOp(f.text, p), Append(Since(f, b.version), p))
      BY <1>3, <3>2, <3>3, <3>6, <3>8, TracksMore
    <3> QED
      BY <1>4, <3>1, <3>7
  <2> QED
    BY <2>1, <2>2 DEF Follows
<1> QED
  BY <1>6, <1>7, <1>8 DEF Sound

-----------------------------------------------------------------------------
(***************************************************************************)
(* The invariant                                                           *)
(***************************************************************************)
RebaseInv ==
    /\ patches \in Nat
    /\ SoundTexts(disk, patches)
    /\ \A k \in 1..Len(space) : SoundFiles(space[k].files, patches)
    /\ \A b \in past :
           /\ b.life \in 1..Len(space) /\ WasRead(b, b.life, patches)
           /\ b.life = current => Follows(b, FileOf(Ws.files, b.path))

LEMMA RebaseInitially == LiveInit => RebaseInv
BY DEF LiveInit, RebaseInv, SoundTexts, NoFiles

\* A step after which nothing new was read of any object, and none is current
\* that was not, its files as they were.
LEMMA StillFollows ==
    ASSUME RebaseInv, LiveTypes, UNCHANGED <<past, patches>>, SoundTexts(disk', patches),
           Len(space') = Len(space), \A k \in 1..Len(space) : SoundFiles(space'[k].files, patches),
           \/ current' = 0
           \/ current' = current /\ \A p \in Paths : FileOf(Ws'.files, p) = FileOf(Ws.files, p)
    PROVE  RebaseInv'
<1>1. \A b \in past : b.life \in 1..Len(space) /\ WasRead(b, b.life, patches)
  BY DEF RebaseInv
<1>2. \A b \in past : b.life = current' => Follows(b, FileOf(Ws'.files, b.path))
  <2>1. CASE current' = 0
    BY <1>1, <2>1
  <2>2. CASE current' = current /\ \A p \in Paths : FileOf(Ws'.files, p) = FileOf(Ws.files, p)
    BY <1>1, <2>2 DEF RebaseInv, WasRead
  <2> QED
    BY <2>1, <2>2
<1> QED
  BY <1>1, <1>2 DEF RebaseInv

LEMMA PatchRebases ==
    ASSUME RebaseInv, LiveTypes, NEW b \in past, NEW o \in Edits(b.text), Patch(b, <<o>>)
    PROVE  RebaseInv'
<1> DEFINE f == FileOf(Ws.files, b.path)
           g == Patched(f, b.version, <<o>>)
           files == [p \in DOMAIN Ws.files \cup {b.path} |-> IF p = b.path THEN g ELSE Ws.files[p]]
           r == [files |-> files, seq |-> space[current].seq + 1, dirty |-> TRUE]
<1>1. /\ Exists /\ space' = [space EXCEPT ![current] = r]
      /\ past' = past \cup Readable(current, files) /\ patches' = patches + 1
      /\ UNCHANGED <<current, disk, stray>>
  BY DEF Patch, FileAt, FileOf, Ws
<1>2. current \in 1..Len(space) /\ Len(space) \in Nat /\ stray' \in BOOLEAN
  BY <1>1 DEF LiveTypes, Exists
<1>3. WasRead(b, b.life, patches) /\ patches \in Nat /\ SoundFiles(Ws.files, patches)
  BY <1>2 DEF RebaseInv, Ws
<1>4. o \in Ops /\ Fresher(o, patches + 1) /\ b.path \in Paths
  BY <1>3, EditsFacts DEF WasRead
<1>5. Sound(f, patches)
  BY <1>3, NoFileSound DEF FileOf, SoundFiles
<1>6. PICK h : h = g
  OBVIOUS
<1>7. /\ Sound(h, patches + 1)
      /\ \A c : c.version \in Nat /\ Whole(c.text, patches) /\ Follows(c, f) => Follows(c, h)
  BY <1>3, <1>4, <1>5, <1>6, PatchedSound
<1>8. DOMAIN files = DOMAIN Ws.files \cup {b.path} /\ \A p \in DOMAIN files : files[p] = IF p = b.path THEN h ELSE Ws.files[p]
  BY <1>6
<1>9. IsObject(r) /\ r.files = files
  BY DEF IsObject
<1> HIDE DEF g, f, files, r
<1>10. /\ space'[current] = r /\ Len(space') = Len(space)
       /\ \A k \in 1..Len(space) : k # current => space'[k] = space[k]
  <2>1. PICK S : space \in Seq(S)
    BY DEF LiveTypes
  <2> QED
    BY <1>1, <1>2, <2>1, RowReplaced
<1>11. \A k \in 1..Len(space) : SoundFiles(space[k].files, patches + 1)
  BY <1>3, WholeLater DEF RebaseInv, SoundFiles, Sound
<1>12. SoundFiles(files, patches + 1)
  BY <1>2, <1>4, <1>7, <1>8, <1>11 DEF SoundFiles, Ws
<1>13. \A k \in 1..Len(space') : SoundFiles(space'[k].files, patches')
  BY <1>1, <1>9, <1>10, <1>11, <1>12
<1>14. SoundTexts(disk', patches')
  BY <1>1, <1>3, WholeLater DEF RebaseInv, SoundTexts
<1>15. Ws'.files = files
  BY <1>1, <1>9, <1>10 DEF Ws
<1>16. ASSUME NEW c \in past
       PROVE  /\ c.life \in 1..Len(space') /\ WasRead(c, c.life, patches')
              /\ c.life = current' => Follows(c, FileOf(files, c.path))
  <2>1. /\ c.life \in 1..Len(space) /\ WasRead(c, c.life, patches)
        /\ c.life = current => Follows(c, FileOf(Ws.files, c.path))
    BY DEF RebaseInv
  <2>2. WasRead(c, c.life, patches')
    BY <1>1, <1>3, <2>1, WholeLater DEF WasRead
  <2>3. ASSUME c.life = current PROVE Follows(c, FileOf(files, c.path))
    <3>1. CASE c.path = b.path
      <4>1. FileOf(files, c.path) = h /\ Follows(c, f)
        BY <1>8, <2>1, <2>3, <3>1 DEF FileOf, f
      <4> QED
        BY <1>7, <2>1, <4>1 DEF WasRead
    <3>2. CASE c.path # b.path
      <4>1. FileOf(files, c.path) = FileOf(Ws.files, c.path)
        BY <1>8, <3>2 DEF FileOf
      <4> QED
        BY <2>1, <2>3, <4>1
    <3> QED
      BY <3>1, <3>2
  <2> QED
    BY <1>1, <1>10, <2>1, <2>2, <2>3
<1>17. ASSUME NEW c \in Readable(current, files)
       PROVE  /\ c.life \in 1..Len(space') /\ WasRead(c, c.life, patches')
              /\ c.life = current' => Follows(c, FileOf(files, c.path))
  <2>1. WasRead(c, current, patches + 1) /\ Follows(c, FileOf(files, c.path))
    BY <1>3, <1>12, ReadableFacts
  <2> QED
    BY <1>1, <1>2, <1>10, <2>1 DEF WasRead
<1>18. patches' \in Nat
  BY <1>1, <1>3
<1> QED
  BY <1>1, <1>13, <1>14, <1>15, <1>16, <1>17, <1>18 DEF RebaseInv

LEMMA RefusePatchRebases ==
    ASSUME RebaseInv, LiveTypes, NEW p \in Paths, RefusePatch(p)
    PROVE  RebaseInv'
<1> DEFINE files == [q \in DOMAIN Ws.files \cup {p} |-> FileAt(current, q)]
           r == [files |-> files, seq |-> Ws.seq, dirty |-> Ws.dirty]
<1>1. /\ Exists /\ p \notin DOMAIN Ws.files
      /\ space' = [space EXCEPT ![current].files = files]
      /\ UNCHANGED <<current, disk, past, patches>>
  BY DEF RefusePatch
<1>2. current \in 1..Len(space) /\ patches \in Nat
  BY <1>1 DEF LiveTypes, RebaseInv, Exists
<1>3. IsObject(Ws) /\ SoundFiles(Ws.files, patches)
  BY <1>2 DEF LiveTypes, RebaseInv, Ws
<1>4. [Ws EXCEPT !.files = files] = r
  BY <1>3 DEF IsObject
<1>5. space' = [space EXCEPT ![current] = r] /\ r.files = files
  BY <1>1, <1>2, <1>4 DEF Ws
<1>6. \A q : FileOf(files, q) = FileOf(Ws.files, q)
  BY DEF FileAt, FileOf, Ws
<1>7. SoundFiles(files, patches)
  BY <1>2, <1>3, NoFileSound DEF SoundFiles, FileAt, Ws
<1> HIDE DEF files, r
<1>8. /\ space'[current] = r /\ Len(space') = Len(space)
      /\ \A k \in 1..Len(space) : k # current => space'[k] = space[k]
  <2>1. PICK S : space \in Seq(S)
    BY DEF LiveTypes
  <2> QED
    BY <1>2, <1>5, <2>1, RowReplaced
<1>9. Ws'.files = files
  BY <1>1, <1>5, <1>8 DEF Ws
<1>10. \A k \in 1..Len(space) : SoundFiles(space'[k].files, patches)
  BY <1>5, <1>7, <1>8 DEF RebaseInv
<1>11. SoundTexts(disk', patches)
  BY <1>1 DEF RebaseInv
<1> QED
  BY <1>1, <1>6, <1>8, <1>9, <1>10, <1>11, StillFollows

LEMMA FlushRebases ==
    ASSUME RebaseInv, LiveTypes, NEW k \in 1..Len(space), Flush(k), UNCHANGED <<current, past, patches>>
    PROVE  RebaseInv'
<1>1. /\ patches \in Nat /\ SoundTexts(disk, patches) /\ SoundTexts(Texts(k), patches)
      /\ \A j \in 1..Len(space) : SoundFiles(space[j].files, patches)
  BY TextsSound DEF RebaseInv
<1>2. SoundTexts(disk', patches)
  <2>1. \/ disk' = disk \/ disk' = Over(Texts(k), disk)
        \/ \E P \in SUBSET DOMAIN space[k].files : disk' = Over(Some(Texts(k), P), disk)
    BY DEF Flush
  <2>2. SoundTexts(Over(Texts(k), disk), patches) /\ \A P : SoundTexts(Some(Texts(k), P), patches)
    BY <1>1, OverSound
  <2>3. \A P : SoundTexts(Over(Some(Texts(k), P), disk), patches)
    BY <1>1, <2>2, OverSound
  <2> QED
    BY <1>1, <2>1, <2>2, <2>3
<1>3. space' = space \/ space' = [space EXCEPT ![k].dirty = FALSE]
  BY DEF Flush
<1>4. Len(space') = Len(space) /\ \A j \in 1..Len(space) : space'[j].files = space[j].files
  <2>1. PICK S : space \in Seq(S)
    BY DEF LiveTypes
  <2>2. CASE space' = [space EXCEPT ![k].dirty = FALSE]
    <3>1. PICK r : r = [space[k] EXCEPT !.dirty = FALSE]
      OBVIOUS
    <3>2. r.files = space[k].files
      BY <3>1, CleanObject DEF LiveTypes
    <3>3. space' = [space EXCEPT ![k] = r]
      BY <2>2, <3>1
    <3>4. Len(space') = Len(space) /\ space'[k] = r /\ \A j \in 1..Len(space) : j # k => space'[j] = space[j]
      BY <2>1, <3>3, RowReplaced
    <3> QED
      BY <3>2, <3>4
  <2> QED
    BY <1>3, <2>2
<1>5. \A j \in 1..Len(space) : SoundFiles(space'[j].files, patches)
  BY <1>1, <1>4
<1>6. current' = 0 \/ (current' = current /\ \A p \in Paths : FileOf(Ws'.files, p) = FileOf(Ws.files, p))
  <2>1. current' = current /\ (current = 0 \/ current \in 1..Len(space))
    BY DEF LiveTypes
  <2> QED
    BY <1>4, <2>1 DEF Ws
<1> QED
  BY <1>2, <1>4, <1>5, <1>6, StillFollows

\* A new object, of sound texts, and the others sound.
LEMMA NewLifeRebases ==
    ASSUME RebaseInv, LiveTypes, NEW d, SoundTexts(d, patches), current' = Len(space) + 1,
           past' = past \cup Readable(Len(space) + 1, Fresh(d).files), UNCHANGED patches,
           SoundTexts(disk', patches), Len(space') = Len(space) + 1, space'[Len(space) + 1] = Fresh(d),
           \A k \in 1..Len(space) : SoundFiles(space'[k].files, patches)
    PROVE  RebaseInv'
<1>1. PICK n \in Nat : n = Len(space)
  <2>1. PICK S : space \in Seq(S)
    BY DEF LiveTypes
  <2> QED
    BY <2>1
<1>2. patches \in Nat /\ SoundFiles(Fresh(d).files, patches)
  BY FreshSound DEF RebaseInv
<1>3. \A k \in 1..(n + 1) : SoundFiles(space'[k].files, patches)
  BY <1>1, <1>2
<1>4. Ws' = Fresh(d)
  BY DEF Ws
<1>5. ASSUME NEW c \in past
      PROVE  c.life \in 1..(n + 1) /\ WasRead(c, c.life, patches) /\ c.life # n + 1
  <2>1. c.life \in 1..n /\ WasRead(c, c.life, patches)
    BY <1>1 DEF RebaseInv
  <2> QED
    BY <2>1
<1>6. ASSUME NEW c \in Readable(n + 1, Fresh(d).files)
      PROVE  c.life = n + 1 /\ WasRead(c, c.life, patches) /\ Follows(c, FileOf(Fresh(d).files, c.path))
  BY <1>2, ReadableFacts DEF WasRead
<1> QED
  BY <1>1, <1>2, <1>3, <1>4, <1>5, <1>6 DEF RebaseInv

LEMMA CreateRebases ==
    ASSUME RebaseInv, LiveTypes, NEW files \in Starts, Create(files) PROVE RebaseInv'
<1>1. /\ current' = Len(space) + 1 /\ space' = Append(space, Fresh(files))
      /\ past' = past \cup Readable(Len(space) + 1, Fresh(files).files)
      /\ disk' = Over(files, disk) /\ patches' = patches
  BY DEF Create, NewLife
<1>2. SoundTexts(files, patches) /\ SoundTexts(disk', patches)
  BY <1>1, StartsSound, OverSound DEF RebaseInv
<1>3. PICK S : space \in Seq(S)
  BY DEF LiveTypes
<1>4. /\ Len(space') = Len(space) + 1 /\ space'[Len(space) + 1] = Fresh(files)
      /\ \A k \in 1..Len(space) : space'[k] = space[k]
  BY <1>1, <1>3, RowAdded
<1>5. \A k \in 1..Len(space) : SoundFiles(space'[k].files, patches)
  BY <1>4 DEF RebaseInv
<1> QED
  BY <1>1, <1>2, <1>4, <1>5, NewLifeRebases

\* What a refused creation leaves on disk is made of sound texts, too.
LEMMA CreateRefusedRebases ==
    ASSUME RebaseInv, LiveTypes, NEW files \in Starts, CreateRefused(files) PROVE RebaseInv'
<1>1. UNCHANGED <<space, current, past, patches>>
  BY DEF CreateRefused
<1>2. PICK P \in SUBSET DOMAIN files : disk' = Over(Some(files, P), disk)
  BY DEF CreateRefused
<1>3. SoundTexts(disk', patches)
  BY <1>2, StartsSound, OverSound DEF RebaseInv
<1>4. \A k \in 1..Len(space) : SoundFiles(space'[k].files, patches)
  BY <1>1 DEF RebaseInv
<1>5. current' = current /\ Ws' = Ws /\ Len(space') = Len(space)
  BY <1>1 DEF Ws
<1> QED
  BY <1>1, <1>3, <1>4, <1>5, StillFollows

LEMMA LiveRestartRebases == ASSUME RebaseInv, LiveTypes, LiveRestart PROVE RebaseInv'
<1> DEFINE gone == [k \in DOMAIN space |-> Fresh(NoFiles)]
<1>1. UNCHANGED <<disk, patches>> /\ SoundTexts(disk, patches) /\ patches \in Nat
  BY DEF LiveRestart, RebaseInv
<1>2. PICK S : space \in Seq(S)
  BY DEF LiveTypes
<1>3. /\ gone \in Seq({Fresh(NoFiles)}) /\ Len(gone) = Len(space) /\ Len(space) \in Nat
      /\ \A k \in 1..Len(space) : gone[k] = Fresh(NoFiles)
  BY <1>2
<1>4. SoundFiles(Fresh(NoFiles).files, patches)
  <2>1. SoundTexts(NoFiles, patches)
    BY DEF SoundTexts, NoFiles
  <2> QED
    BY <1>1, <2>1, FreshSound
<1>5. CASE repo.there
  <2>1. /\ current' = Len(space) + 1 /\ space' = Append(gone, Fresh(disk))
        /\ past' = past \cup Readable(Len(space) + 1, Fresh(disk).files)
    BY <1>5 DEF LiveRestart, NewLife
  <2> HIDE DEF gone
  <2>2. /\ Len(space') = Len(space) + 1 /\ space'[Len(space) + 1] = Fresh(disk)
        /\ \A k \in 1..Len(space) : space'[k] = gone[k]
    BY <1>3, <2>1, RowAdded
  <2>3. \A k \in 1..Len(space) : SoundFiles(space'[k].files, patches)
    BY <1>3, <1>4, <2>2
  <2>4. SoundTexts(disk', patches) /\ patches' = patches
    BY <1>1
  <2> QED
    BY <1>1, <2>1, <2>2, <2>3, <2>4, NewLifeRebases
<1>6. CASE ~repo.there
  <2>1. current' = 0 /\ space' = gone /\ past' = past
    BY <1>6 DEF LiveRestart
  <2> HIDE DEF gone
  <2>2. Len(space') = Len(space) /\ \A k \in 1..Len(space) : SoundFiles(space'[k].files, patches)
    BY <1>3, <1>4, <2>1
  <2>3. SoundTexts(disk', patches) /\ UNCHANGED <<past, patches>>
    BY <1>1, <2>1
  <2> QED
    BY <2>1, <2>2, <2>3, StillFollows
<1> QED
  BY <1>5, <1>6

LEMMA RebaseStep == RebaseInv /\ LiveTypes /\ [LiveNext]_liveVars => RebaseInv'
<1> SUFFICES ASSUME RebaseInv, LiveTypes, [LiveNext]_liveVars PROVE RebaseInv'
  OBVIOUS
<1>1. DOMAIN space = 1..Len(space) /\ Len(space) \in Nat
  BY DEF LiveTypes
<1>2. ASSUME NEW k \in DOMAIN space, DebouncedFlush(k) \/ DueFlush(k) PROVE RebaseInv'
  BY <1>1, <1>2, FlushRebases DEF DebouncedFlush, DueFlush
<1>3. ASSUME NEW k \in DOMAIN space, CancellationHandled(k) PROVE RebaseInv'
  BY <1>3 DEF CancellationHandled, RebaseInv, Ws
<1>4. CASE ForceFlush \/ Tick
  <2>1. current \in 1..Len(space) /\ Flush(current) /\ UNCHANGED <<current, past, patches>>
    BY <1>1, <1>4 DEF Tick, ForceFlush, Exists, LiveTypes
  <2> QED
    BY <2>1, FlushRebases
<1>5. CASE Clear
  <2>1. current' = 0 /\ UNCHANGED <<space, past, patches>> /\ disk' = NoFiles
    BY <1>5 DEF Clear
  <2>2. SoundTexts(disk', patches)
    BY <2>1 DEF SoundTexts, NoFiles
  <2>3. \A k \in 1..Len(space) : SoundFiles(space'[k].files, patches)
    BY <2>1 DEF RebaseInv
  <2> QED
    BY <2>1, <2>2, <2>3, StillFollows
<1>6. CASE UNCHANGED liveVars
  BY <1>6 DEF liveVars, RebaseInv, Ws
<1>7. ASSUME NEW b \in past, NEW o \in Edits(b.text), Patch(b, <<o>>) PROVE RebaseInv'
  BY <1>7, PatchRebases
<1>8. ASSUME NEW p \in Paths, RefusePatch(p) PROVE RebaseInv'
  BY <1>8, RefusePatchRebases
<1>9. ASSUME NEW files \in Starts, Create(files) \/ CreateRefused(files) PROVE RebaseInv'
  BY <1>9, CreateRebases, CreateRefusedRebases
<1>10. CASE LiveRestart
  BY <1>10, LiveRestartRebases
<1> QED
  BY <1>2, <1>3, <1>4, <1>5, <1>6, <1>7, <1>8, <1>9, <1>10 DEF LiveNext

-----------------------------------------------------------------------------
\* Where the patch goes of someone who can follow what they read.
LEMMA InsertedInPlace ==
    ASSUME NEW n \in Nat, NEW f, Sound(f, n), NEW b, b.version \in Nat, Whole(b.text, n),
           Tracks(b.text, f.text, Since(f, b.version)),
           NEW o \in Ops, Fresher(o, n + 1), o.op = "insert"
    PROVE  InsertInPlace(b, o, Patched(f, b.version, <<o>>).text)
<1>1. Recorded(f) /\ f.text \in Seq(LineIds)
  BY DEF Sound, Whole
<1>2. PICK p, text : p = Moves(f, b.version, o) /\ text = ApplyOp(f.text, p)
  OBVIOUS
<1>3. /\ p \in Ops /\ p.op = "insert" /\ p.text = o.text /\ p.line = Through(o.line, Since(f, b.version))
      /\ Patched(f, b.version, <<o>>).text = text
  <2>1. /\ p \in Ops /\ p.op = o.op /\ p.line = Through(o.line, Since(f, b.version))
        /\ p.text = o.text
    BY <1>1, <1>2, MovesFacts
  <2>2. Patched(f, b.version, <<o>>) =
            [text |-> ApplyOp(f.text, p), version |-> f.version + 1,
             history |-> Kept(Append(f.history, [version |-> f.version + 1, ops |-> <<p>>]))]
    BY <1>1, <1>2, PatchedOne
  <2>3. Patched(f, b.version, <<o>>).text = ApplyOp(f.text, p)
    BY <2>2
  <2> QED
    BY <1>2, <2>1, <2>3
<1>4. p \in InsertOps /\ o.line \in Nat \ {0} /\ p.line \in Nat \ {0} /\ o.text \in Seq(LineIds)
  BY <1>3 DEF Ops, InsertOps, DeleteOps, ReplaceOps
<1> DEFINE at == Clamp(p.line, f.text)
           m == Len(o.text)
           l == Len(f.text)
<1>5. /\ text \in Seq(LineIds) /\ Len(text) = l + m
      /\ \A i \in 1..l : text[Moved(i, at, p)] = f.text[i]
      /\ \A i \in 1..m : text[at + i] = o.text[i]
  <2>1. LET new == ApplyOp(f.text, p)
        IN  /\ new \in Seq(LineIds) /\ Len(new) = Len(f.text) + Len(p.text)
            /\ \A i \in 1..Len(f.text) :
                   Moved(i, Clamp(p.line, f.text), p) \in DOMAIN new /\ new[Moved(i, Clamp(p.line, f.text), p)] = f.text[i]
            /\ \A i \in 1..Len(p.text) : new[Clamp(p.line, f.text) + i] = p.text[i]
    BY <1>1, <1>4, InsertedFacts
  <2> QED
    BY <1>2, <1>3, <2>1, Zenon
<1>6. /\ at \in 0..l /\ at < p.line /\ (p.line <= l + 1 => at = p.line - 1) /\ (p.line > l + 1 => at = l)
      /\ m \in Nat /\ l \in Nat
  <2>1. /\ at \in 0..l /\ at < p.line
        /\ (p.line <= l + 1 => at = p.line - 1) /\ (p.line > l + 1 => at = l)
    BY <1>1, <1>4, Clamped
  <2>2. m \in Nat
    BY <1>4
  <2>3. l \in Nat
    BY <1>1
  <2> QED
    BY <2>1, <2>2, <2>3
<1> HIDE DEF at, m, l
<1>7. \A i \in 1..l : Moved(i, at, p) = IF i <= at THEN i ELSE i + m
  BY <1>3 DEF Moved, m
<1>8. ASSUME NEW new \in Lines(o.text), NEW i \in DOMAIN b.text, b.text[i] \in Lines(text)
      PROVE  IF i < o.line THEN Before(b.text[i], new, text) ELSE Before(new, b.text[i], text)
  <2>1. PICK k \in 1..m : o.text[k] = new
    BY <1>4 DEF Lines, m
  <2>2. b.text \in Seq(LineIds) /\ b.text[i][1] \in Nat /\ b.text[i][1] <= n /\ i \in Nat
    BY DEF Whole, LineIds
  <2>3. PICK y \in DOMAIN text : text[y] = b.text[i]
    BY <1>8 DEF Lines
  <2>4. PICK j \in DOMAIN f.text : f.text[j] = b.text[i]
    <3>1. (\E x \in DOMAIN f.text : Becomes(x, y, f.text, p) /\ text[y] = f.text[x]) \/ text[y] \in Brings(p)
      BY <1>1, <1>2, <1>3, LinesComeFrom
    <3>2. \A x \in Brings(p) : x[1] = n + 1
      BY <1>3 DEF Brings, Fresher, Lines
    <3> QED
      BY <2>2, <2>3, <3>1, <3>2
  <2>5. (i < o.line => j < p.line) /\ (i >= o.line => j >= p.line) /\ j \in 1..l
    BY <1>1, <1>3, <1>4, <2>4 DEF Tracks, l
  <2>6. at + k \in 1..(l + m) /\ text[at + k] = new
    BY <1>5, <1>6, <2>1
  <2>7. PICK z : z = IF j <= at THEN j ELSE j + m
    OBVIOUS
  <2>8. z \in 1..(l + m) /\ text[z] = b.text[i]
    BY <1>5, <1>6, <1>7, <2>4, <2>5, <2>7
  <2>9. DOMAIN text = 1..(l + m)
    BY <1>5
  <2>10. CASE i < o.line
    <3>1. z < at + k
      BY <1>4, <1>6, <2>1, <2>5, <2>7, <2>10
    <3> QED
      BY <2>6, <2>8, <2>9, <2>10, <3>1 DEF Before
  <2>11. CASE i >= o.line
    <3>1. at + k < z
      BY <1>4, <1>6, <2>1, <2>5, <2>7, <2>11
    <3>2. ~(i < o.line)
      BY <1>4, <2>2, <2>11
    <3> QED
      BY <2>6, <2>8, <2>9, <3>1, <3>2 DEF Before
  <2> QED
    BY <1>4, <2>2, <2>10, <2>11
<1> QED
  BY <1>3, <1>8 DEF InsertInPlace

LEMMA DeletedInPlace ==
    ASSUME NEW n \in Nat, NEW f, Sound(f, n), NEW b, b.version \in Nat, Whole(b.text, n),
           Tracks(b.text, f.text, Since(f, b.version)),
           NEW o \in Ops, o.op = "delete", o.count = 1, o.line \in DOMAIN b.text
    PROVE  DeleteInPlace(b, o, f.text, Patched(f, b.version, <<o>>).text)
<1>1. Recorded(f) /\ f.text \in Seq(LineIds) /\ b.text \in Seq(LineIds)
  BY DEF Sound, Whole
<1>2. PICK p, text : p = Moves(f, b.version, o) /\ text = ApplyOp(f.text, p)
  OBVIOUS
<1>3. /\ p \in Ops /\ p.op = "delete" /\ p.count = 1 /\ p.line = Through(o.line, Since(f, b.version))
      /\ Patched(f, b.version, <<o>>).text = text
  <2>1. /\ p \in Ops /\ p.op = o.op /\ p.line = Through(o.line, Since(f, b.version))
        /\ p.count = 1
    BY <1>1, <1>2, MovesFacts
  <2>2. Patched(f, b.version, <<o>>) =
            [text |-> ApplyOp(f.text, p), version |-> f.version + 1,
             history |-> Kept(Append(f.history, [version |-> f.version + 1, ops |-> <<p>>]))]
    BY <1>1, <1>2, PatchedOne
  <2>3. Patched(f, b.version, <<o>>).text = ApplyOp(f.text, p)
    BY <2>2
  <2> QED
    BY <1>2, <2>1, <2>3
<1>4. o.line \in Nat \ {0} /\ p.line \in Nat \ {0}
  BY <1>3 DEF Ops, InsertOps, DeleteOps, ReplaceOps
<1>5. ASSUME NEW j \in DOMAIN f.text, f.text[j] = b.text[o.line] PROVE text = RemoveAt(f.text, j)
  <2>1. j = p.line
    BY <1>3, <1>4, <1>5 DEF Tracks
  <2>2. j \in 1..Len(f.text) /\ Len(f.text) \in Nat
    BY <1>1
  <2>3. Clamp(p.line, f.text) = j - 1
    BY <2>1, <2>2 DEF Clamp
  <2>4. text = SubSeq(f.text, 1, j - 1) \o SubSeq(f.text, (j - 1) + 1 + 1, Len(f.text))
    BY <1>2, <1>3, <2>3 DEF ApplyOp
  <2>5. (j - 1) + 1 + 1 = j + 1
    BY <2>2
  <2> QED
    BY <2>4, <2>5 DEF RemoveAt
<1> QED
  BY <1>3, <1>5 DEF DeleteInPlace

LEMMA RebaseInvRebases == RebaseInv /\ LiveTypes => RebasedInPlace
<1> SUFFICES ASSUME RebaseInv, LiveTypes, Exists, NEW b \in past, Reached(b), NEW o \in Edits(b.text),
                    Substantial(Since(FileAt(current, b.path), b.version))
             PROVE  LET f == FileAt(current, b.path)
                        text == Patched(f, b.version, <<o>>).text
                    IN  /\ o.op = "insert" => InsertInPlace(b, o, text)
                        /\ o.op = "delete" /\ o.count = 1 => DeleteInPlace(b, o, f.text, text)
  BY DEF RebasedInPlace, Substantial
<1>1. PICK f : f = FileAt(current, b.path)
  OBVIOUS
<1>2. f = FileOf(Ws.files, b.path)
  BY <1>1 DEF FileAt, FileOf, Ws
<1>3. /\ WasRead(b, b.life, patches) /\ b.life = current /\ Follows(b, f) /\ patches \in Nat
      /\ f.version - b.version <= Len(f.history)
  BY <1>1, <1>2 DEF RebaseInv, Reached
<1>4. Sound(f, patches)
  <2>1. SoundFiles(Ws.files, patches)
    BY DEF RebaseInv, LiveTypes, Exists, Ws
  <2> QED
    BY <1>2, <1>3, <2>1, NoFileSound DEF FileOf, SoundFiles
<1>5. b.version \in Nat /\ Whole(b.text, patches) /\ Tracks(b.text, f.text, Since(f, b.version))
  BY <1>1, <1>3 DEF WasRead, Follows
<1>6. /\ o \in Ops /\ Fresher(o, patches + 1)
      /\ o.op = "delete" => o.line \in DOMAIN b.text
  BY <1>3, <1>5, EditsFacts
<1> QED
  BY <1>1, <1>3, <1>4, <1>5, <1>6, InsertedInPlace, DeletedInPlace

\* _rebase_ops of scheduler/workspace.py: a single insertion or deletion of a
\* line, by someone whose version history still reaches back to, does to the
\* file as it is what its author meant.
THEOREM RebaseHolds == LiveSpec => []RebasedInPlace
<1>1. LiveInv => LiveTypes
  BY DEF LiveInv
<1> QED
  BY <1>1, LiveInitially, LiveStep, RebaseInitially, RebaseStep, RebaseInvRebases, PTL DEF LiveSpec
=============================================================================
