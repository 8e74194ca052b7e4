------------------------------- MODULE Reader -------------------------------
(***************************************************************************)
(* A program that reads a task as it is written, stream_ws of the SDK      *)
(* (client/sdk.py), at the other end of a websocket of Watchers.  An event *)
(* only says that there is something: the text and the state are fetched   *)
(* by a GET, later.  When the connection breaks, or the deadline passes    *)
(* (a TimeoutError is an OSError), it goes on by polling (stream).         *)
(***************************************************************************)
EXTENDS Watchers

CONSTANT Socket      \* the websocket it reads
ASSUME ReaderAssumption == Socket \in Watchers

VARIABLE reader      \* where it is, the events it has received, how much of the
                     \* text it has yielded (shown); before and since: what it has
                     \* yielded before and since it polls; blanked: the server lost
                     \* the text on the way (history)

readerVars == <<vars, reader>>

Reading == reader.at \in {"dialing", "listening", "polling"}

NewReader == [at |-> "dialing", inbox |-> <<>>, shown |-> 0,
              before |-> <<>>, since |-> <<>>, blanked |-> FALSE]

\* The program has submitted the task itself.
ReaderInit == Init /\ stream.phase = "none" /\ reader = NewReader

-----------------------------------------------------------------------------
(***************************************************************************)
(* The server's side                                                       *)
(***************************************************************************)
\* What the handler of the websocket sends is received.
Delivered ==
    /\ Forward(Socket)
    /\ reader' = [reader EXCEPT !.inbox =
                     Append(@, IF socket[Socket].phase = "replay" THEN "finished"
                               ELSE Head(socket[Socket].queue))]

\* A restart of the server breaks the connection and forgets the text.
Blanked == Restart /\ reader' = [reader EXCEPT !.blanked = TRUE]

\* Everything else the server does, the task's life and the handler's steps; the
\* reader keeps its own end open until it gives up.
Served ==
    /\ \/ Current < MaxAttempts /\ \E work \in Work[Current + 1] : Assign(work)
       \/ \E a \in DOMAIN attempts : \E n \in (attempts[a].sent + 1)..Len(attempts[a].text) : Progress(a, n)
       \/ Succeed \/ Fail \/ Lose \/ Cancel \/ Delete
       \/ Connect(Socket) \/ Accepted(Socket)
    /\ UNCHANGED reader

-----------------------------------------------------------------------------
(***************************************************************************)
(* The reader                                                              *)
(***************************************************************************)
Beyond(text, shown) == SubSeq(text, shown + 1, Len(text))

\* What a GET of the task lets it yield: the rest of the text so far, and at the
\* end the rest of the output.  There is no text of a task that has been deleted,
\* and the error is the caller's.
Fetch(r, partial, done) ==
    LET more  == r.since \o Beyond(partial, r.shown)
        shown == IF Len(partial) > r.shown THEN Len(partial) ELSE r.shown
    IN  IF ~There THEN [r EXCEPT !.at = "raised"]
        ELSE IF done THEN [r EXCEPT !.at = "done", !.since = more \o Beyond(task.output, shown)]
        ELSE [r EXCEPT !.since = more, !.shown = shown]

Answered ==
    /\ reader.at = "dialing" /\ socket[Socket].phase \in {"replay", "subscribed", "told"}
    /\ reader' = [reader EXCEPT !.at = "listening"]
    /\ UNCHANGED vars

\* The event at hand and the GET it causes; at "finished" the text is not looked
\* at, for the server has none by now.
Receive ==
    /\ reader.at = "listening" /\ reader.inbox # <<>>
    /\ LET r == [reader EXCEPT !.inbox = Tail(@)]
           finished == Head(reader.inbox) = "finished"
       IN  reader' = Fetch(r, IF finished THEN <<>> ELSE progress, finished)
    /\ UNCHANGED vars

\* Mutant: a deadline that passes is the caller's.
GiveUp_Raise ==
    /\ reader.at \in {"dialing", "listening"}
    /\ reader' = [reader EXCEPT !.at = "raised"]
    /\ socket' = [socket EXCEPT ![Socket] = [NewSocket EXCEPT !.phase = "left"]]
    /\ UNCHANGED <<task, attempts, progress, stream>>

\* Refused, broken, closed, or ten minutes old: it polls, from the beginning.
GiveUp ==
    /\ reader.at \in {"dialing", "listening"}
    /\ reader' = [reader EXCEPT !.at = "polling", !.inbox = <<>>, !.shown = 0,
                                !.before = reader.since, !.since = <<>>]
    /\ socket' = [socket EXCEPT ![Socket] = [NewSocket EXCEPT !.phase = "left"]]
    /\ UNCHANGED <<task, attempts, progress, stream>>

\* Mutant: the text is all there is to yield.
Look_TextOnly ==
    /\ reader.at = "polling"
    /\ reader' = IF Ended THEN [Fetch(reader, progress, FALSE) EXCEPT !.at = "done"]
                 ELSE Fetch(reader, progress, FALSE)
    /\ UNCHANGED vars

\* One round of stream.
Look ==
    /\ reader.at = "polling"
    /\ reader' = Fetch(reader, progress, Ended)
    /\ UNCHANGED vars

\* A round that has not seen the end may be the last.
TooLate ==
    /\ reader.at = "polling" /\ ~Ended
    /\ reader' = [Fetch(reader, progress, FALSE) EXCEPT !.at = "raised"]
    /\ UNCHANGED vars

ReaderNext ==
    \/ Delivered \/ Blanked \/ Served
    \/ Answered \/ Receive \/ GiveUp \/ Look \/ TooLate

\* The reader takes what comes, gives up when its time is over, and polls.
ReaderFairness == WF_readerVars(Receive) /\ WF_readerVars(GiveUp) /\ WF_readerVars(Look)

ReaderSpec == ReaderInit /\ [][ReaderNext]_readerVars /\ ReaderFairness
-----------------------------------------------------------------------------
\* Of a task run by one attempt, on a server that does not restart, whose output is
\* the text that was sent (no tools), a reader yields the text and nothing else, however its GETs fall between the events:
\* a beginning of it as long as it reads, all of it when it is told that the task
\* succeeded.  After a break that holds of what it yields from there on.
\* (stream_ws, stream.)
ReaderTrue ==
    Current = 1 /\ ~reader.blanked /\ There /\ AsSent =>
        /\ IsPrefix(reader.since, attempts[1].text)
        /\ IsPrefix(reader.before, attempts[1].text)
        /\ reader.at = "done" /\ task.status = "succeeded" => reader.since = task.output

\* A reader of a task that has ended is told so in the end, though the event may
\* have been published before it subscribed, or never: its own deadline makes it
\* poll, and a poll looks before it gives up.  Only deleting the task ends it
\* with an error.  (task_ws, stream_ws.)
ReaderTold == Ended /\ Reading ~> reader.at = "done" \/ ~There

(***************************************************************************)
(* What the code says of itself and does not keep                          *)
(***************************************************************************)
\* "Falls back to stream() polling when the WS drops.  Same yield contract as
\* stream()" (client/sdk.py, stream_ws): what it has yielded by the end is the
\* output, once.
ReadsOnce ==
    /\ Current = 1 /\ ~reader.blanked /\ AsSent
    /\ reader.at = "done" /\ task.status = "succeeded"
    =>  reader.before \o reader.since = task.output
=============================================================================
