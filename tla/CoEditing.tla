------------------------------ MODULE CoEditing ------------------------------
(***************************************************************************)
(* How an editor at the other end of /ws/workspace/{id} follows a live     *)
(* workspace (scheduler/api/workspace_routes.py).  Two tasks write to its  *)
(* websocket: the pump, which sends what is in its queue, and the handler, *)
(* which answers its requests with the text as it is then, so that an      *)
(* answer may overtake deltas that are still in the queue.                 *)
(*                                                                         *)
(* What patches do is LiveWorkspace's matter; here a text is known by the  *)
(* number of the last patch in it.  The editor does what the module's      *)
(* comment expects of clients: it applies the next delta, ignores old ones *)
(* and asks for the full text when it has missed one.                      *)
(***************************************************************************)
EXTENDS Naturals, Sequences

CONSTANTS
    Room,        \* QUEUE_CAP
    Buffered,    \* messages the connection holds before a send suspends
    MaxSeq,      \* bound: the highest number of a patch
    MaxReplaced  \* bound: how often the workspace is replaced

ASSUME EditAssumption == Room \in Nat \ {0}

VARIABLES
    head,    \* the seq of the workspace
    life,    \* how often it has been replaced
    pending, \* the queue of the editor's websocket
    wire,    \* messages on their way to the editor
    editor   \* where it is; the seq of its text, if it has one; whether it has asked
             \* for the text, and since when (life) it is connected (history)

editVars == <<head, life, pending, wire, editor>>

NoEditor == [at |-> "away", has |-> FALSE, seq |-> 0, asked |-> FALSE, since |-> 0]

EditInit ==
    /\ head = 1
    /\ life = 0
    /\ pending = <<>>
    /\ wire = <<>>
    /\ editor = NoEditor

DeltaOf(n) == [kind |-> "delta", seq |-> n]
Full(n)  == [kind |-> "full", seq |-> n]
Heads(n) == [kind |-> "heads", seq |-> n]
Presence == [kind |-> "presence", seq |-> 0]

-----------------------------------------------------------------------------
(***************************************************************************)
(* The server                                                              *)
(***************************************************************************)
\* Mutant: presence pushes the oldest event out like any other.
Queued_Pushing(queue, event) ==
    Append(IF Len(queue) < Room THEN queue ELSE Tail(queue), event)

\* publish: presence is left out of a full queue, a delta takes the oldest's place.
Queued(queue, event) ==
    IF Len(queue) < Room THEN Append(queue, event)
    ELSE IF event = Presence THEN queue
    ELSE Append(Tail(queue), event)

Published(event) ==
    pending' = IF editor.at = "open" THEN Queued(pending, event) ELSE pending

\* Somebody's patch, from any websocket, route or tool.
Edit ==
    /\ head < MaxSeq
    /\ head' = head + 1
    /\ Published(DeltaOf(head + 1))
    /\ UNCHANGED <<life, wire, editor>>

ShowPresence ==
    /\ editor.at = "open"
    /\ Published(Presence)
    /\ UNCHANGED <<head, life, wire, editor>>

\* A workspace made under an id that is taken starts again at seq 1, and those
\* connected are not told.
Replace ==
    /\ life < MaxReplaced
    /\ life' = life + 1
    /\ head' = 1
    /\ UNCHANGED <<pending, wire, editor>>

\* Accepted: subscribed, and sent the versions of the files, not their text.
Join ==
    /\ editor.at = "away"
    /\ editor' = [NoEditor EXCEPT !.at = "open", !.since = life]
    /\ pending' = <<>>
    /\ wire' = <<Heads(head)>>
    /\ UNCHANGED <<head, life>>

Pump ==
    /\ editor.at = "open" /\ pending # <<>> /\ Len(wire) < Buffered
    /\ wire' = Append(wire, Head(pending))
    /\ pending' = Tail(pending)
    /\ UNCHANGED <<head, life, editor>>

\* A request is answered with the text as it is, at once.
Answer ==
    /\ editor.at = "open" /\ editor.asked
    /\ ~\E i \in DOMAIN wire : wire[i].kind \in {"heads", "full"}
    /\ Len(wire) < Buffered
    /\ wire' = Append(wire, Full(head))
    /\ UNCHANGED <<head, life, pending, editor>>

\* The connection breaks at either end, or the handler fails.
HangUp ==
    /\ editor.at = "open"
    /\ editor' = NoEditor
    /\ pending' = <<>>
    /\ wire' = <<>>
    /\ UNCHANGED <<head, life>>

-----------------------------------------------------------------------------
(***************************************************************************)
(* The editor                                                              *)
(***************************************************************************)
\* The next message.  Without a text, or with a gap before this delta, it asks.
Take ==
    /\ editor.at = "open" /\ wire # <<>>
    /\ wire' = Tail(wire)
    /\ LET m == Head(wire)
           follows == m.kind = "delta" /\ editor.has /\ ~editor.asked
       IN  editor' =
             IF m.kind = "heads" THEN [editor EXCEPT !.asked = TRUE]
             ELSE IF m.kind = "full" THEN [editor EXCEPT !.has = TRUE, !.seq = m.seq, !.asked = FALSE]
             ELSE IF follows /\ m.seq = editor.seq + 1 THEN [editor EXCEPT !.seq = m.seq]
             ELSE IF follows /\ m.seq > editor.seq + 1 THEN [editor EXCEPT !.asked = TRUE]
             ELSE editor
    /\ UNCHANGED <<head, life, pending>>

EditNext ==
    \/ Edit \/ ShowPresence \/ Replace
    \/ Join \/ Pump \/ Answer \/ HangUp
    \/ Take

EditSpec == EditInit /\ [][EditNext]_editVars
-----------------------------------------------------------------------------
\* An editor that has nothing left to receive has the workspace as it is, however
\* far behind it was and whatever the queue lost of it: the last delta is never
\* lost, neither to presence nor to an answer that overtook it, and shows what is
\* missing.  Only a workspace that replaced its own under the same id may leave it
\* with another text.  (publish, workspace_ws.)
Converged ==
    /\ editor.at = "open" /\ editor.has /\ ~editor.asked
    /\ wire = <<>> /\ ~\E i \in DOMAIN pending : pending[i].kind = "delta"
    /\ editor.since = life
    => editor.seq = head
=============================================================================
