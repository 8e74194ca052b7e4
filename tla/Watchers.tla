------------------------------ MODULE Watchers ------------------------------
(***************************************************************************)
(* Those who watch a task run: the stream of a chat completion, which looks*)
(* at the task and at the text it has so far (scheduler/api/rest.py), and  *)
(* the websockets of /ws/tasks, which are sent the events of the task's    *)
(* topic from a bounded queue (scheduler/api/ws.py).                       *)
(*                                                                         *)
(* One task, submitted by the stream, if there is one.  What matters of    *)
(* its life is that TaskLifecycle allows it; attempts that are no longer   *)
(* current go on sending text.  Events are published without a suspension, *)
(* so a handler is one step; accepting a websocket, sending to it and      *)
(* waiting for an event suspend.                                           *)
(***************************************************************************)
EXTENDS StreamSplitter

CONSTANTS
    Watchers,    \* websockets that watch the task
    MaxAttempts,
    Work,        \* Work[a]: what the a-th attempt may send, with what it may report as
                 \* its output in the end, and the family of its model
    QueueCap     \* QUEUE_CAP

Families == {"reasoning", "other", "unknown"}
Chars == {"<", "/", "t", "x", Newline, " "}

ASSUME WatchersAssumption ==
    /\ MaxAttempts \in Nat \ {0} /\ QueueCap \in Nat \ {0}
    /\ \A a \in 1..MaxAttempts : Work[a] \subseteq [text : Seq(Chars), output : Seq(Chars), family : Families]

VARIABLES
    task,     \* its status, the family of its node, and its result's output
    attempts, \* attempts[a]: the text the a-th attempt sends, how much of it is sent
    progress, \* progress of the task, empty if there is no entry
    stream,   \* the stream: its splitter, and what it has emitted
    socket    \* socket[w]: where the handler of w is, its queue, and how many
              \* events followed the announced end (history)

vars == <<task, attempts, progress, stream, socket>>

Current == Len(attempts)
There == task.status # "gone"
Ended == task.status \in {"succeeded", "failed", "cancelled"}

NewSocket == [phase |-> "new", queue |-> <<>>, late |-> -1]

Init ==
    /\ task = [status |-> "queued", family |-> "unknown", output |-> <<>>]
    /\ attempts = <<>>
    /\ progress = <<>>
    /\ stream \in [phase : {"open", "none"}, splitter : {NewSplitter}, reasoning : {<<>>}, content : {<<>>}]
    /\ socket = [w \in Watchers |-> NewSocket]

-----------------------------------------------------------------------------
(***************************************************************************)
(* Publishing                                                              *)
(***************************************************************************)
\* Mutant: an event that does not fit is dropped.
Put_DropNewest(queue, event) == IF Len(queue) < QueueCap THEN Append(queue, event) ELSE queue

\* A full queue loses its oldest event.
Put(queue, event) == Append(IF Len(queue) < QueueCap THEN queue ELSE Tail(queue), event)

Publish(event) ==
    socket' = [w \in Watchers |->
        IF socket[w].phase # "subscribed" THEN socket[w]
        ELSE [socket[w] EXCEPT !.queue = Put(@, event),
                               !.late = IF event = "finished" THEN 0 ELSE IF @ >= 0 THEN @ + 1 ELSE @]]

-----------------------------------------------------------------------------
(***************************************************************************)
(* The task                                                                *)
(***************************************************************************)
\* The node the task is assigned to has a model of some family, if any.
Assign(work) ==
    /\ task.status = "queued"
    /\ attempts' = Append(attempts, [text |-> work.text, sent |-> 0])
    /\ task' = [task EXCEPT !.status = "running", !.family = work.family]
    /\ UNCHANGED <<progress, stream, socket>>

\* PROGRESS of any attempt, current or not, is text of the task, and an event,
\* whatever has become of the task.
Progress(a, n) ==
    /\ attempts' = [attempts EXCEPT ![a].sent = n]
    /\ progress' = progress \o SubSeq(attempts[a].text, attempts[a].sent + 1, n)
    /\ Publish("progress")
    /\ UNCHANGED <<task, stream>>

\* RESULT of the current attempt, which has sent all its text.  The output is that
\* text when the model was asked once; with tools the text is headings of the rounds,
\* and with both the output ends in words nobody was sent.
Succeed ==
    /\ task.status = "running"
    /\ attempts[Current].sent = Len(attempts[Current].text)
    /\ \E work \in Work[Current] :
           /\ work.text = attempts[Current].text
           /\ task' = [task EXCEPT !.status = "succeeded", !.output = work.output]
    /\ progress' = <<>>
    /\ Publish("finished")
    /\ UNCHANGED <<attempts, stream>>

Requeued == [task EXCEPT !.status = "queued", !.family = "unknown"]

\* A failure is a retry, which nobody is told of, or the end.  The attempt reports
\* it last, and sends no more text.
Fail ==
    /\ task.status = "running"
    /\ attempts' = [attempts EXCEPT ![Current].text = SubSeq(@, 1, attempts[Current].sent)]
    /\ IF Current < MaxAttempts
       THEN task' = Requeued /\ UNCHANGED <<progress, socket>>
       ELSE /\ task' = [task EXCEPT !.status = "failed"]
            /\ progress' = <<>>
            /\ Publish("finished")
    /\ UNCHANGED stream

\* The node is lost or the lease has lapsed: nothing is published, not even when
\* the task fails for it, and the text stays.
Lose ==
    /\ task.status = "running"
    /\ task' = IF Current < MaxAttempts THEN Requeued ELSE [task EXCEPT !.status = "failed"]
    /\ UNCHANGED <<attempts, progress, stream, socket>>

Cancel ==
    /\ task.status \in {"queued", "running"}
    /\ task' = [task EXCEPT !.status = "cancelled"]
    /\ Publish("finished")
    /\ UNCHANGED <<attempts, progress, stream>>

\* Deleted, or cleared with all tasks; nothing on the task's topic.
Delete ==
    /\ There
    /\ task' = [status |-> "gone", family |-> "unknown", output |-> <<>>]
    /\ progress' = <<>>
    /\ UNCHANGED <<attempts, stream, socket>>

-----------------------------------------------------------------------------
(***************************************************************************)
(* The stream of a chat completion                                         *)
(***************************************************************************)
Done == Ended

\* What the stream takes for the text so far.
Partial == IF task.status = "succeeded" /\ task.output # <<>> THEN task.output ELSE progress

\* One round of the loop of sse, run at an event and every half second: the view
\* of the task and the text are read together.
Poll ==
    LET known == IF There THEN WithFamily(stream.splitter, task.family) ELSE stream.splitter
        fed   == Emitted(Decided(known, Partial, Done), Partial, Done)
    IN  /\ stream.phase = "open"
        /\ UNCHANGED <<task, attempts, progress, socket>>
        /\ stream' = [phase |-> IF Done THEN "ended" ELSE "open",
                      splitter |-> fed.splitter,
                      reasoning |-> stream.reasoning \o fed.reasoning,
                      content |-> stream.content \o fed.content]

-----------------------------------------------------------------------------
(***************************************************************************)
(* The websockets of the task                                              *)
(***************************************************************************)
\* The view of the task is read, then the websocket accepted; without a task it
\* is closed.
Connect(w) ==
    /\ socket[w].phase = "new"
    /\ socket' = [socket EXCEPT ![w].phase =
                    IF ~There THEN "left" ELSE IF Ended THEN "replay" ELSE "accepting"]
    /\ UNCHANGED <<task, attempts, progress, stream>>

\* Accepted: subscribed from here on.
Accepted(w) ==
    /\ socket[w].phase = "accepting"
    /\ socket' = [socket EXCEPT ![w].phase = "subscribed"]
    /\ UNCHANGED <<task, attempts, progress, stream>>

\* The next event goes out; the end of the task, queued or in the view, is the
\* last one.
Forward(w) ==
    /\ \/ /\ socket[w].phase = "replay"
          /\ socket' = [socket EXCEPT ![w] = [NewSocket EXCEPT !.phase = "told"]]
       \/ /\ socket[w].phase = "subscribed" /\ socket[w].queue # <<>>
          /\ IF Head(socket[w].queue) = "finished"
               THEN socket' = [socket EXCEPT ![w] = [NewSocket EXCEPT !.phase = "told"]]
               ELSE socket' = [socket EXCEPT ![w].queue = Tail(@)]
    /\ UNCHANGED <<task, attempts, progress, stream>>

Leave(w) ==
    /\ socket[w].phase \in {"accepting", "replay", "subscribed"}
    /\ socket' = [socket EXCEPT ![w] = [NewSocket EXCEPT !.phase = "left"]]
    /\ UNCHANGED <<task, attempts, progress, stream>>

\* The task table survives a restart; texts, the stream and websockets do not.
Restart ==
    /\ progress' = <<>>
    /\ stream' = IF stream.phase = "open" THEN [stream EXCEPT !.phase = "broken"] ELSE stream
    /\ socket' = [w \in Watchers |-> IF socket[w].phase = "new" THEN socket[w]
                                     ELSE [NewSocket EXCEPT !.phase = "left"]]
    /\ UNCHANGED <<task, attempts>>

Next ==
    \/ Current < MaxAttempts /\ \E work \in Work[Current + 1] : Assign(work)
    \/ \E a \in DOMAIN attempts : \E n \in (attempts[a].sent + 1)..Len(attempts[a].text) : Progress(a, n)
    \/ Succeed \/ Fail \/ Lose \/ Cancel \/ Delete
    \/ Poll
    \/ \E w \in Watchers : Connect(w) \/ Accepted(w) \/ Forward(w) \/ Leave(w)
    \/ Restart

Spec == Init /\ [][Next]_vars

-----------------------------------------------------------------------------
(***************************************************************************)
(* Safety                                                                  *)
(***************************************************************************)
\* The family tells what the text is like, and the text has no opening tag where
\* the splitter would meet one.
WellJudged(text) ==
    IF task.family = "reasoning" THEN Closes(text) /\ ~Opens(text)
    ELSE ~Closes(text) /\ At(OpenTag, text) = {}

Solid(s) == FlattenSeq([i \in DOMAIN s |-> IF s[i] \in Blanks THEN <<>> ELSE <<s[i]>>])

\* The output is the text that was sent: the model was asked once.
AsSent == task.status = "succeeded" => task.output = attempts[1].text

\* However the text is cut into messages, and whenever the stream looks, what it
\* has emitted is the beginning of what split_think makes of the whole text, and
\* all of it when it has ended (reasoning: but for blanks).  That is so for a task
\* run by one attempt, without tools; texts of several attempts run into each other,
\* and of an answer found with tools other text was sent.  (StreamSplitter.feed, sse.)
StreamTrue ==
    /\ Current = 1 /\ task.status \in {"running", "succeeded"}
    /\ WellJudged(attempts[1].text) /\ AsSent
    =>  LET whole == Split(attempts[1].text)
        IN  /\ IsPrefix(Solid(stream.reasoning), Solid(whole.reasoning))
            /\ IsPrefix(stream.content, whole.content)
            /\ stream.phase = "ended" =>
                   /\ Solid(stream.reasoning) = Solid(whole.reasoning)
                   /\ stream.content = whole.content

\* A websocket that was subscribed when the end of its task was announced has it
\* in its queue until it has sent it, however far it lagged behind, unless so
\* many late events followed that the end was the oldest one.  (publish.)
EndNotDropped ==
    \A w \in Watchers :
        socket[w].phase = "subscribed" /\ socket[w].late \in 0..(QueueCap - 1) =>
            Contains(socket[w].queue, "finished")
=============================================================================
