----------------------------- MODULE MCServices -----------------------------
(***************************************************************************)
(* Four machines that share no state, side by side in one run: `part` says *)
(* which of them a behaviour is about.  The others stay as they began.     *)
(***************************************************************************)
EXTENDS Suggestions, ToolLoop, Login, Daemon, TLC

CONSTANTS c2, j2

VARIABLE part

allVars == <<part, adviceVars, toolVars, loginVars, daemonVars>>

MCMatches == [h \in Hints |-> {c2}]

MCInit ==
    /\ part \in {"advice", "relay", "reconnect", "streams", "login", "daemon"}
    /\ AdviceInit /\ ToolInit /\ LoginInit /\ DaemonInit

\* Three slices of ToolLoop: two agentic jobs on one socket, one call a round;
\* one agentic job on sockets that break; streams that a moving workspace and
\* revocations disturb.
Agentic    == patches' = 0 /\ \A j \in Jobs : job'[j].at \in {"off", "over"} \/ job'[j].kind = "agentic"
Relay      == /\ Agentic /\ alive'
              /\ \A j \in Jobs : Len(job'[j].left) <= 1 /\ ~job'[j].repaired
              /\ j2 \notin revoked'
Reconnects == Agentic /\ job'[j2] = NoJob
Streams    == sock' = 1 /\ \A j \in Jobs : job'[j].kind # "agentic"

MCNext ==
    /\ UNCHANGED part
    /\ \/ part = "advice" /\ AdviceNext /\ UNCHANGED <<toolVars, loginVars, daemonVars>>
       \/ /\ ToolNext
          /\ \/ part = "relay" /\ Relay
             \/ part = "reconnect" /\ Reconnects
             \/ part = "streams" /\ Streams
          /\ UNCHANGED <<adviceVars, loginVars, daemonVars>>
       \/ part = "login" /\ LoginNext /\ UNCHANGED <<adviceVars, toolVars, daemonVars>>
       \/ part = "daemon" /\ DaemonNext /\ UNCHANGED <<adviceVars, toolVars, loginVars>>

\* No action that is assumed to be fair can change an initial state, so the
\* parts that stay as they began meet their fairness.
MCSpec == /\ MCInit /\ [][MCNext]_allVars
          /\ AdviceFairness /\ ToolFairness /\ LoginFairness
=============================================================================
