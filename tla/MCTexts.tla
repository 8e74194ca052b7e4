------------------------------ MODULE MCTexts ------------------------------
(***************************************************************************)
(* Texts that people watch and edit, side by side in one run: `part` says  *)
(* whether a behaviour is about the streams and websockets of a task, the  *)
(* reader at the end of one, a live workspace, an editor connected to one, *)
(* or the repository of the state, whose texts the audit reads.            *)
(***************************************************************************)
EXTENDS Reader, LiveWorkspace, CoEditing, StateRepo

CONSTANTS w1, p1, p2

VARIABLE part

textVars == <<part, readerVars, liveVars, editVars, repoVars>>

\* A model that reasons, with what may look like a tag around the one there is; an
\* answer with a piece of one; an opening tag from an unknown family; an answer found
\* with tools, of which only the heading of a round was sent.  A second attempt is short.
AskedOnce(text, family) == [text |-> text, output |-> text, family |-> family]

MCWork ==
    <<{AskedOnce(<<"x", "<", "/", "t", "x", "<", "/">>, "reasoning"),
       AskedOnce(<<"x", "<", "/">>, "other"),
       AskedOnce(<<"<", "t">>, "unknown"),
       [text |-> <<" ", " ", "x">>, output |-> <<"t", "x">>, family |-> "other"]},
      {AskedOnce(<<Newline>>, "unknown")}>>

\* A workspace without files, where the first patch, or a refused one, makes one; and
\* one with a file, below which the other path lies.
MCStarts == {[p \in {} |-> <<>>], [p \in {p1} |-> <<<<0, 1>>>>]}
MCUnder == {<<p1, p2>>}

MCInit ==
    /\ part \in {"watch", "read", "edit", "follow", "record"}
    /\ Init /\ stream.phase = IF part = "read" THEN "none" ELSE "open"
    /\ reader = [NewReader EXCEPT !.at = IF part = "read" THEN @ ELSE "nowhere"]
    /\ LiveInit
    /\ EditInit
    /\ RepoInit /\ \A f \in Files : live[f] = Empty

\* A workspace with two lives sees two patches, the third is for one that goes
\* on; one patch less where there is a second file, or one from the start.  What is read is an answer of three characters; what is recorded may end when
\* there are as many commits as the bound allows.
EditBound ==
    LET many  == \E k \in DOMAIN space : p2 \in DOMAIN space[k].files
        given == \E p \in DOMAIN disk : Len(disk[p]) > 0 /\ disk[p][1] = <<0, 1>>
    IN  Len(space) + patches <= IF many \/ given THEN 3 ELSE 4

MCNext ==
    /\ UNCHANGED part
    /\ \/ part = "watch" /\ Next /\ UNCHANGED <<reader, liveVars, editVars, repoVars>>
       \/ part = "read" /\ ReaderNext /\ task'.family # "reasoning" /\ UNCHANGED <<liveVars, editVars, repoVars>>
       \/ part = "edit" /\ LiveNext /\ EditBound' /\ UNCHANGED <<readerVars, editVars, repoVars>>
       \/ part = "follow" /\ EditNext /\ UNCHANGED <<readerVars, liveVars, repoVars>>
       \/ /\ part = "record" /\ UNCHANGED <<readerVars, liveVars, editVars>>
          /\ \/ RepoNext
             \/ Len(log) = MaxCommits /\ UNCHANGED repoVars

\* The fairness of Reader and LiveWorkspace, each in its own part.
MCFairness ==
    /\ WF_readerVars(part = "read" /\ Receive)
    /\ WF_readerVars(part = "read" /\ GiveUp)
    /\ WF_readerVars(part = "read" /\ Look)
    /\ WF_liveVars(part = "edit" /\ Tick /\ ~Ws.dirty')

MCSpec == MCInit /\ [][MCNext]_textVars /\ MCFairness
=============================================================================
