--------------------------- MODULE LiveWorkspace ---------------------------
(***************************************************************************)
(* One live workspace: the files people and agents edit together           *)
(* (scheduler/workspace.py, and the routes and tools that call it).        *)
(*                                                                         *)
(* A file is a sequence of lines.  A line is named for the patch that      *)
(* wrote it, 0 for a file the workspace was created with, and its place in *)
(* that patch, so it keeps its identity through every edit.  Patches are   *)
(* applied in memory; flush tasks write the files to the workspace's       *)
(* directory and commit them.  Nothing inside a patch or a flush suspends, *)
(* so both are atomic.                                                     *)
(***************************************************************************)
EXTENDS Integers, Sequences, FiniteSets, SequencesExt

CONSTANTS
    Paths,
    Under,       \* pairs of paths of which the second lies below the first: "a" and "a/b"
    Starts,      \* the initial files a workspace may be created with
    Inserts,     \* how many lines authors insert
    Deletes,     \* how many lines authors delete
    FlushMaxOps, \* FLUSH_MAX_OPS
    HistoryCap,  \* entries of history kept per file
    MaxPatches,  \* bound: patches, over all lives
    MaxLives     \* bound: Workspace objects made

ASSUME LiveWorkspaceAssumption ==
    /\ \A s \in Starts : DOMAIN s \subseteq Paths /\ \A p \in DOMAIN s : s[p] \in Seq({0} \X Nat) /\ IsInjective(s[p])
    /\ Under \subseteq Paths \X Paths
    /\ Inserts \subseteq Nat /\ Deletes \subseteq Nat
    /\ {FlushMaxOps, HistoryCap, MaxLives} \subseteq Nat \ {0} /\ MaxPatches \in Nat

VARIABLES
    space,   \* space[k]: the k-th Workspace object: files, seq, dirty
    tasks,   \* tasks[k]: its flush tasks: the debounced one, and those due at once
    current, \* the object _workspaces has under the id, 0 if none
    ops,     \* _ops_since_flush, which knows ids and not objects
    disk,    \* the files in the directory
    repo,    \* whether the directory is a repository, and the files of its head
    past,    \* what authors may have read: path, version and text (history)
    patches, \* how many patches there were (history)
    stray    \* somebody else has written to the directory since the current object was
             \* made or saved: an object that is no longer current, or a refused creation
             \* (history)

liveVars == <<space, tasks, current, ops, disk, repo, past, patches, stray>>

File(text, version) == [text |-> text, version |-> version, history |-> <<>>]
NoFile  == File(<<>>, 0)
NoFiles == [p \in {} |-> <<>>]
NoTasks == [debounce |-> "none", due |-> 0]
Fresh(files) == [files |-> [p \in DOMAIN files |-> File(files[p], 1)], seq |-> 1, dirty |-> FALSE]

Ws == space[current]
Exists == current # 0
FileAt(k, p) == IF p \in DOMAIN space[k].files THEN space[k].files[p] ELSE NoFile
Texts(k) == [p \in DOMAIN space[k].files |-> space[k].files[p].text]

\* What there is to read of an object: a missing file reads as empty, version 0.
Readable(k, files) ==
    {[life |-> k, path |-> p, version |-> files[p].version, text |-> files[p].text] : p \in DOMAIN files}
        \cup {[life |-> k, path |-> p, version |-> 0, text |-> <<>>] : p \in Paths \ DOMAIN files}

LiveInit ==
    /\ space = <<>> /\ tasks = <<>> /\ current = 0
    /\ ops = 0
    /\ disk = NoFiles
    /\ repo = [there |-> FALSE, head |-> NoFiles]
    /\ past = {}
    /\ patches = 0
    /\ stray = FALSE

-----------------------------------------------------------------------------
(***************************************************************************)
(* Patches                                                                 *)
(***************************************************************************)
Clamp(line, text) == IF line - 1 > Len(text) THEN Len(text) ELSE IF line < 1 THEN 0 ELSE line - 1

ApplyOp(text, o) ==
    LET at == Clamp(o.line, text)
    IN  CASE o.op = "insert"  -> SubSeq(text, 1, at) \o o.text \o SubSeq(text, at + 1, Len(text))
          [] o.op = "delete"  -> SubSeq(text, 1, at) \o SubSeq(text, at + o.count + 1, Len(text))
          [] o.op = "replace" -> o.text

\* Nothing after a replacement of the file is applied.
Applied(text, os) ==
    LET stop == {i \in DOMAIN os : os[i].op = "replace"}
        last == IF stop = {} THEN Len(os) ELSE CHOOSE i \in stop : \A j \in stop : i <= j
    IN  FoldLeft(ApplyOp, text, SubSeq(os, 1, last))

\* How many lines an insertion counts for: one, if there is no text in it.
Counted(text) == IF text = <<>> THEN 1 ELSE Len(text)

\* Mutant: an insertion in front of the line itself does not move it.
Shifted_Behind(line, h) ==
    CASE h.op = "insert" /\ line > h.line -> line + Counted(h.text)
      [] h.op = "delete" /\ line > h.line -> IF line - h.count > h.line THEN line - h.count ELSE h.line
      [] OTHER -> line

\* Where a line is once the operation h has been applied.
Shifted(line, h) ==
    CASE h.op = "insert" /\ line >= h.line -> line + Counted(h.text)
      [] h.op = "delete" /\ line > h.line -> IF line - h.count > h.line THEN line - h.count ELSE h.line
      [] OTHER -> line

\* The operations applied to f since the version base, as far as they are kept.
Since(f, base) ==
    FlattenSeq([i \in DOMAIN f.history |-> IF f.history[i].version > base THEN f.history[i].ops ELSE <<>>])

Rebased(f, base, os) ==
    [i \in DOMAIN os |->
        IF os[i].op = "replace" THEN os[i]
        ELSE [os[i] EXCEPT !.line = FoldLeft(Shifted, @, Since(f, base))]]

Kept(history) == SubSeq(history, IF Len(history) > HistoryCap THEN Len(history) - HistoryCap + 1 ELSE 1,
                        Len(history))

\* A file after a patch: what was applied is what history records.
Patched(f, base, os) ==
    LET done == IF base = f.version THEN os ELSE Rebased(f, base, os)
    IN  [text |-> Applied(f.text, done), version |-> f.version + 1,
         history |-> Kept(Append(f.history, [version |-> f.version + 1, ops |-> done]))]

\* The flush a patch calls for: at once when there are many, else a debounced one
\* unless that is running, which it is until its cancellation has been handled.
Armed(t) ==
    IF ops + 1 >= FlushMaxOps THEN [t EXCEPT !.due = @ + 1]
    ELSE IF t.debounce = "none" THEN [t EXCEPT !.debounce = "asleep"] ELSE t

\* A patch of an author who has read the version b.version of a file.
Patch(b, os) ==
    LET f == Patched(FileAt(current, b.path), b.version, os)
        files == [p \in DOMAIN Ws.files \cup {b.path} |-> IF p = b.path THEN f ELSE Ws.files[p]]
    IN  /\ Exists /\ patches < MaxPatches
        /\ space' = [space EXCEPT ![current] = [files |-> files, seq |-> @.seq + 1, dirty |-> TRUE]]
        /\ tasks' = [tasks EXCEPT ![current] = Armed(@)]
        /\ ops' = ops + 1
        /\ past' = past \cup Readable(current, files)
        /\ patches' = patches + 1
        /\ UNCHANGED <<current, disk, repo, stray>>

\* An operation of an unknown kind: the patch is refused, but a file that was
\* not there is now, at version 0.
RefusePatch(p) ==
    /\ Exists
    /\ p \notin DOMAIN Ws.files
    /\ space' = [space EXCEPT ![current].files =
                    [q \in DOMAIN Ws.files \cup {p} |-> FileAt(current, q)]]
    /\ UNCHANGED <<tasks, current, ops, disk, repo, past, patches, stray>>

\* What an author can ask for who has read text: the lines are that text's.
NewLines(n) == [i \in 1..n |-> <<patches + 1, i>>]
Edits(text) ==
    {[op |-> "insert", line |-> l, text |-> NewLines(n)] : l \in 1..(Len(text) + 1), n \in Inserts}
    \cup {o \in [op : {"delete"}, line : 1..Len(text), count : Deletes] : o.line + o.count - 1 <= Len(text)}
    \cup {[op |-> "replace", line |-> 1, text |-> NewLines(n)] : n \in Inserts}

-----------------------------------------------------------------------------
(***************************************************************************)
(* Flushes                                                                 *)
(***************************************************************************)
Over(files, below) ==
    [p \in DOMAIN files \cup DOMAIN below |-> IF p \in DOMAIN files THEN files[p] ELSE below[p]]
Some(files, P) == [p \in DOMAIN files \cap P |-> files[p]]

\* Whether all files find room in the directory: none lies below another.
Writable(files, below) ==
    \A u \in Under : ~({u[1], u[2]} \subseteq DOMAIN files \cup DOMAIN below)

\* Mutant: the workspace is clean before its files are written.
Flush_CleanFirst(k) ==
    IF ~space[k].dirty THEN UNCHANGED <<space, ops, disk, repo, stray>>
    ELSE /\ space' = [space EXCEPT ![k].dirty = FALSE]
         /\ \E P \in SUBSET DOMAIN space[k].files : disk' = Over(Some(Texts(k), P), disk)
         /\ ops' = 0
         /\ stray' = (k # current)
         /\ UNCHANGED repo

\* _flush of object k: files are written, and committed if that works; writing
\* stops at the first file that cannot be written, for there is another in its way
\* or the disk refuses it, and then the workspace stays dirty.
Flush(k) ==
    IF ~space[k].dirty THEN UNCHANGED <<space, ops, disk, repo, stray>>
    ELSE \/ /\ Writable(Texts(k), disk)
            /\ disk' = Over(Texts(k), disk)
            /\ space' = [space EXCEPT ![k].dirty = FALSE]
            /\ ops' = 0
            /\ \/ repo' = IF repo.there THEN [repo EXCEPT !.head = Over(Texts(k), @)] ELSE repo
               \/ repo' = repo
            /\ stray' = (k # current)
         \/ /\ \E P \in SUBSET DOMAIN space[k].files :
                  /\ P # DOMAIN space[k].files /\ Writable(Some(Texts(k), P), disk)
                  /\ disk' = Over(Some(Texts(k), P), disk)
            /\ UNCHANGED <<space, ops, repo>>
            /\ stray' = (stray \/ k # current)

DebouncedFlush(k) ==
    /\ tasks[k].debounce = "asleep"
    /\ tasks' = [tasks EXCEPT ![k].debounce = "none"]
    /\ Flush(k)
    /\ UNCHANGED <<current, past, patches>>

DueFlush(k) ==
    /\ tasks[k].due > 0
    /\ tasks' = [tasks EXCEPT ![k].due = @ - 1]
    /\ Flush(k)
    /\ UNCHANGED <<current, past, patches>>

Cancelled(t) == IF t.debounce = "asleep" THEN [t EXCEPT !.debounce = "cancelled"] ELSE t

CancellationHandled(k) ==
    /\ tasks[k].debounce = "cancelled"
    /\ tasks' = [tasks EXCEPT ![k].debounce = "none"]
    /\ UNCHANGED <<space, current, ops, disk, repo, past, patches, stray>>

\* The flush route and tool, the end of a linked task, and shutdown.
ForceFlush ==
    /\ Exists
    /\ UNCHANGED <<current, past, patches>>
    /\ tasks' = [tasks EXCEPT ![current] = Cancelled(@)]
    /\ Flush(current)

\* Mutant: no safety net.
Tick_None == FALSE /\ ForceFlush

\* The safety net of the tick, half a minute or more after the last: a tick whose
\* snapshot or collection of workspaces fails does not get here.
Tick == Exists /\ Ws.dirty /\ ForceFlush

-----------------------------------------------------------------------------
(***************************************************************************)
(* Lives of the workspace                                                  *)
(***************************************************************************)
NewLife(files) ==
    /\ Len(space) < MaxLives
    /\ current' = Len(space) + 1
    /\ past' = past \cup Readable(Len(space) + 1, Fresh(files).files)

\* Creating a workspace whose id is taken replaces it, and leaves its directory
\* and its flush tasks.
Create(files) ==
    /\ Writable(files, disk)
    /\ NewLife(files)
    /\ space' = Append(space, Fresh(files))
    /\ tasks' = Append(tasks, NoTasks)
    /\ disk' = Over(files, disk)
    /\ repo' = [repo EXCEPT !.there = TRUE]
    /\ stray' = FALSE
    /\ UNCHANGED <<ops, patches>>

\* A creation that is refused at one of its files, or cannot write it, has written
\* those before it, into the directory of the workspace that has the id, if there is
\* one.
CreateRefused(files) ==
    /\ \E P \in SUBSET DOMAIN files :
           /\ Writable(Some(files, P), disk)
           /\ disk' = Over(Some(files, P), disk)
           /\ stray' = (stray \/ P # {})
    /\ UNCHANGED <<space, tasks, current, ops, repo, past, patches>>

\* Data cleared: the debounced flush is cancelled, those due at once are not.
Clear ==
    /\ tasks' = [k \in DOMAIN tasks |-> IF k = current THEN Cancelled(tasks[k]) ELSE tasks[k]]
    /\ current' = 0
    /\ ops' = 0
    /\ disk' = NoFiles
    /\ repo' = [there |-> FALSE, head |-> NoFiles]
    /\ stray' = FALSE
    /\ UNCHANGED <<space, past, patches>>

\* The server restarts, in order or not: what is on disk comes back at version 1.
LiveRestart ==
    LET gone == [k \in DOMAIN space |-> Fresh(NoFiles)]
        idle == [k \in DOMAIN space |-> NoTasks]
    IN  /\ IF repo.there
           THEN /\ NewLife(disk)
                /\ space' = Append(gone, Fresh(disk))
                /\ tasks' = Append(idle, NoTasks)
           ELSE /\ current' = 0
                /\ space' = gone
                /\ tasks' = idle
                /\ UNCHANGED past
        /\ ops' = 0
        /\ stray' = FALSE
        /\ UNCHANGED <<disk, repo, patches>>

LiveNext ==
    \/ \E files \in Starts : Create(files) \/ CreateRefused(files)
    \/ \E b \in past : \E o \in Edits(b.text) : Patch(b, <<o>>)
    \/ \E p \in Paths : RefusePatch(p)
    \/ \E k \in DOMAIN space : DebouncedFlush(k) \/ DueFlush(k) \/ CancellationHandled(k)
    \/ ForceFlush \/ Tick \/ Clear \/ LiveRestart

LiveSpec == LiveInit /\ [][LiveNext]_liveVars

\* Ticks go on getting as far as the safety net, and the disk does not refuse for
\* ever what there is room for.
LiveFairSpec == LiveSpec /\ WF_liveVars(Tick /\ ~Ws.dirty')

-----------------------------------------------------------------------------
(***************************************************************************)
(* Safety                                                                  *)
(***************************************************************************)
Lines(text) == {text[i] : i \in DOMAIN text}
Before(x, y, text) == \E i, j \in DOMAIN text : i < j /\ text[i] = x /\ text[j] = y

\* The author read a version of this life that history reaches back to.
Reached(b) ==
    /\ b.life = current
    /\ FileAt(current, b.path).version - b.version <= Len(FileAt(current, b.path).history)

\* An insertion into an outdated text ends up where its author put it: behind
\* every line that was before it and in front of every line that was behind it,
\* of those that are still there.
InsertInPlace(b, o, text) ==
    \A new \in Lines(o.text) : \A i \in DOMAIN b.text :
        b.text[i] \in Lines(text) =>
            IF i < o.line THEN Before(b.text[i], new, text) ELSE Before(new, b.text[i], text)

\* The deletion of a single line removes that line, if it is still there, and
\* no other.
DeleteInPlace(b, o, old, text) ==
    \A i \in DOMAIN old : old[i] = b.text[o.line] => text = RemoveAt(old, i)

\* An insertion of nothing, which counts for a line.
Vacuous(o) == o.op = "insert" /\ o.text = <<>>

\* Rebasing works for single operations, whatever others have done to the file
\* since the author read it, and however their patches were rebased themselves:
\* in any state, any patch that could arrive next.  But what is rebased over an
\* insertion of nothing is applied a line too far.  (_rebase_ops; deletions of
\* several lines are best effort.)
RebasedInPlace ==
    Exists =>
        \A b \in past : Reached(b) /\ ~(\E h \in ToSet(Since(FileAt(current, b.path), b.version)) : Vacuous(h)) =>
            LET f == FileAt(current, b.path)
            IN  \A o \in Edits(b.text) :
                    LET text == Patched(f, b.version, <<o>>).text
                    IN  /\ o.op = "insert" => InsertInPlace(b, o, text)
                        /\ o.op = "delete" /\ o.count = 1 => DeleteInPlace(b, o, f.text, text)

\* A restart brings back what memory shows, unless the workspace is dirty: its
\* files are then on disk, however writes and commits failed before.  Only somebody
\* else's writing can spoil that, until the workspace is saved again: a flush of an
\* object that is no longer current, or a creation that was refused.  (_flush, create.)
Recoverable ==
    Exists /\ ~Ws.dirty /\ ~stray =>
        \A p \in DOMAIN Ws.files :
            Ws.files[p].version > 0 => p \in DOMAIN disk /\ disk[p] = Ws.files[p].text

(***************************************************************************)
(* Liveness                                                                *)
(***************************************************************************)
\* Patches do not stay in memory only, though the debounced flush may have been
\* cancelled just when they arrived: the tick finds them, if it goes on getting that
\* far.  Unless one file lies below another: then no flush ever succeeds.
\* (_tick_loop, apply_patch.)
EventuallySaved ==
    Exists /\ Ws.dirty ~> (Exists /\ Ws.dirty => ~Writable(Texts(current), disk))
=============================================================================
