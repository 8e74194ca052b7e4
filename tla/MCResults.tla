------------------------------ MODULE MCResults ------------------------------
(***************************************************************************)
(* What becomes of good results, side by side in one run: `part` says      *)
(* whether a behaviour is about patches, which are verified, or about      *)
(* answers, which are appended to sessions.                                *)
(***************************************************************************)
EXTENDS MCCodeEdit, Sessions

CONSTANTS s1, j1, j2, j3, j4, h1

VARIABLE part

resultVars == <<part, vars, sessionVars>>

\* Room for three tokens of conversation beside the answer; answers are longer than
\* requests, and a summary takes room from both.
MCWindow == [n \in Hosts |-> 4]
MCSizes == [user |-> {1}, assistant |-> {2}, summary |-> {1}]

\* Task ids are interchangeable: those of sessions are handed out in order.
InOrder == /\ task'[j2].status # "new" => task'[j1].status # "new"
           /\ task'[j3].status # "new" => task'[j2].status # "new"
           /\ task'[j4].status # "new" => task'[j3].status # "new"

ResultsInit == part \in {"patches", "answers"} /\ Init /\ SessionInit

ResultsNext ==
    /\ UNCHANGED part
    /\ \/ part = "patches" /\ MCNext /\ UNCHANGED sessionVars
       \/ part = "answers" /\ SessionNext /\ InOrder /\ UNCHANGED vars

ResultsSpec == ResultsInit /\ [][ResultsNext]_resultVars
=============================================================================
