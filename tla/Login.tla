-------------------------------- MODULE Login --------------------------------
(***************************************************************************)
(* Who holds the token of a node.  The agent and every command of the CLI  *)
(* on one machine share a keypair, hence a node id, and the server keeps   *)
(* one token per node, in memory: registering takes the token of all the   *)
(* others away.  Commands keep theirs in a file, <data_dir>/node.token,    *)
(* and recover from a 401 by themselves (client/sdk.py); the agent         *)
(* registers again after a connection was lost or refused, and gives up    *)
(* when that has gone on for too long (node/agent.py).                     *)
(***************************************************************************)
EXTENDS Naturals, FiniteSets

CONSTANTS
    Commands,      \* invocations of the CLI, each a process of its own
    MaxDropped     \* bound: disconnections, failed attempts to reach the server, its restarts

VARIABLES
    tokens,    \* the server's token map, restricted to this node
    minted2,   \* tokens handed out so far: they are 1..minted2
    cmd,       \* cmd[c]: where command c is and the token it holds
    cache,     \* the token in node.token, or NoToken if there is no file
    agent,     \* the agent: where it is, the token it holds, and for how long its
               \* connections have failed: not at all, or for a "short" or "long" time
    dropped,   \* counter behind MaxDropped
    shaken     \* history: shaken[c]: since c was refused, somebody else
               \* registered, wrote the file, or restarted the server

loginVars == <<tokens, minted2, cmd, cache, agent, dropped, shaken>>

NoToken == 0

LoginInit ==
    /\ tokens = {}
    /\ minted2 = 0
    /\ cmd = [c \in Commands |-> [at |-> "new", token |-> NoToken]]
    /\ cache = NoToken
    /\ agent = [at |-> "off", token |-> NoToken, since |-> "none"]
    /\ dropped = 0
    /\ shaken = [c \in Commands |-> FALSE]

\* Commands that were refused and have not ended yet.
Recovering == {c \in Commands : cmd[c].at \in {"refused", "reauth", "register2", "store2", "retry"}}
Shake(who) == shaken' = [c \in Commands |-> shaken[c] \/ c \in Recovering \ who]

Ended(how) == [at |-> how, token |-> NoToken]

-----------------------------------------------------------------------------
\* /v1/register: one live token per node.
Minted == /\ minted2' = minted2 + 1
          /\ tokens' = {minted2 + 1}

\* authenticate, without a token of its own: the file's token, untested, or a
\* new registration.  It is the first thing a command does, and what it does
\* after a 401.
Authenticate(c) ==
    /\ \/ /\ cmd[c].at = "new"
          /\ cmd' = [cmd EXCEPT ![c] = IF cache # NoToken THEN [at |-> "request", token |-> cache]
                                       ELSE [at |-> "register", token |-> NoToken]]
       \/ /\ cmd[c].at = "reauth"
          /\ cmd' = [cmd EXCEPT ![c] = IF cache # NoToken THEN [at |-> "retry", token |-> cache]
                                       ELSE [at |-> "register2", token |-> NoToken]]
    /\ UNCHANGED <<tokens, minted2, cache, agent, dropped, shaken>>

Register(c) ==
    /\ cmd[c].at \in {"register", "register2"}
    /\ Minted
    /\ cmd' = [cmd EXCEPT ![c] = [at |-> IF @.at = "register" THEN "store" ELSE "store2",
                                  token |-> minted2 + 1]]
    /\ Shake({c})
    /\ UNCHANGED <<cache, agent, dropped>>

\* The token is written to the file, or cannot be, which is ignored.
Store(c) ==
    /\ cmd[c].at \in {"store", "store2"}
    /\ cache' \in {cache, cmd[c].token}
    /\ cmd' = [cmd EXCEPT ![c].at = IF @ = "store" THEN "request" ELSE "retry"]
    /\ Shake({c})
    /\ UNCHANGED <<tokens, minted2, agent, dropped>>

\* The first attempt of a request.
Request(c) ==
    /\ cmd[c].at = "request"
    /\ cmd' = [cmd EXCEPT ![c] = IF @.token \in tokens THEN Ended("done")
                                 ELSE [at |-> "refused", token |-> NoToken]]
    /\ shaken' = [shaken EXCEPT ![c] = FALSE]
    /\ UNCHANGED <<tokens, minted2, cache, agent, dropped>>

\* Mutant: the file stays, and its stale token is read back.
Forget_InMemory(c) ==
    /\ cmd[c].at = "refused"
    /\ cmd' = [cmd EXCEPT ![c] = [at |-> "reauth", token |-> NoToken]]
    /\ UNCHANGED <<tokens, minted2, cache, agent, dropped, shaken>>

\* On 401 the token is dropped in memory and on disk.
Forget(c) ==
    /\ cmd[c].at = "refused"
    /\ cmd' = [cmd EXCEPT ![c] = [at |-> "reauth", token |-> NoToken]]
    /\ cache' = NoToken
    /\ UNCHANGED <<tokens, minted2, agent, dropped, shaken>>

\* The second attempt is the last: another 401 goes to the caller.
Again(c) ==
    /\ cmd[c].at = "retry"
    /\ cmd' = [cmd EXCEPT ![c] = Ended(IF @.token \in tokens THEN "done" ELSE "failed")]
    /\ UNCHANGED <<tokens, minted2, cache, agent, dropped, shaken>>

-----------------------------------------------------------------------------
\* The agent registers before its first connection; its token never goes to the file.
AgentStarts ==
    /\ agent.at = "off"
    /\ Minted
    /\ agent' = [at |-> "trying", token |-> minted2 + 1, since |-> "none"]
    /\ Shake({})
    /\ UNCHANGED <<cmd, cache, dropped>>

\* After a lost or refused connection it registers again, before the next.
AgentRegisters ==
    /\ agent.at = "down"
    /\ Minted
    /\ agent' = [agent EXCEPT !.at = "trying", !.token = minted2 + 1]
    /\ Shake({})
    /\ UNCHANGED <<cmd, cache, dropped>>

\* A connection that fails: the loop ends if connections have failed for longer
\* than reconnect_giveup_s, counted from the first one that did.
Failed == IF agent.since = "long" THEN [agent EXCEPT !.at = "gaveup"]
          ELSE [agent EXCEPT !.at = "down", !.since = "short"]

\* Mutant: a refused connection is tried again with the same token.
AgentConnects_SameToken ==
    /\ agent.at = "trying"
    /\ agent' = IF agent.token \in tokens THEN [agent EXCEPT !.at = "connected", !.since = "none"]
                ELSE [Failed EXCEPT !.at = "trying"]
    /\ UNCHANGED <<tokens, minted2, cmd, cache, dropped, shaken>>

\* /ws/agent accepts the token that is live now and refuses any other.
AgentConnects ==
    /\ agent.at = "trying"
    /\ agent' = IF agent.token \in tokens THEN [agent EXCEPT !.at = "connected", !.since = "none"]
                ELSE Failed
    /\ UNCHANGED <<tokens, minted2, cmd, cache, dropped, shaken>>

\* The server cannot be reached: a registration that fails is ignored, and the
\* connection that follows is tried with the token there is; one that fails counts.
Unreachable ==
    /\ agent.at \in {"down", "trying"} /\ dropped < MaxDropped
    /\ dropped' = dropped + 1
    /\ agent' = IF agent.at = "down" THEN [agent EXCEPT !.at = "trying"] ELSE Failed
    /\ UNCHANGED <<tokens, minted2, cmd, cache, shaken>>

\* The agent has been without a connection for longer than reconnect_giveup_s.
PatienceEnds ==
    /\ agent.at \in {"down", "trying"} /\ agent.since = "short"
    /\ agent' = [agent EXCEPT !.since = "long"]
    /\ UNCHANGED <<tokens, minted2, cmd, cache, dropped, shaken>>

\* An open connection is not affected by what happens to its token.  One that
\* breaks raises; one that is closed properly is opened again at once, with the
\* token there is.
Disconnects ==
    /\ agent.at = "connected" /\ dropped < MaxDropped
    /\ dropped' = dropped + 1
    /\ agent' \in {Failed, [agent EXCEPT !.at = "trying"]}
    /\ UNCHANGED <<tokens, minted2, cmd, cache, shaken>>

\* A server told to shut down tells its agents, which stop; otherwise they notice
\* that the connection is gone.
ServerRestarts ==
    /\ dropped < MaxDropped
    /\ dropped' = dropped + 1
    /\ tokens' = {}
    /\ agent' \in IF agent.at = "connected"
                  THEN {Failed, [agent EXCEPT !.at = "trying"], [agent EXCEPT !.at = "stopped"]}
                  ELSE {agent}
    /\ Shake({})
    /\ UNCHANGED <<minted2, cmd, cache>>

LoginNext ==
    \/ \E c \in Commands : \/ Authenticate(c) \/ Register(c) \/ Store(c)
                           \/ Request(c) \/ Forget(c) \/ Again(c)
    \/ AgentStarts \/ AgentRegisters \/ AgentConnects
    \/ Unreachable \/ PatienceEnds \/ Disconnects \/ ServerRestarts

\* The agent's loop goes on with a backoff of at most 30 seconds.  Commands
\* owe nothing, but each of them registers at most twice.  Nothing is assumed of
\* the agent's patience, which may or may not end.
LoginFairness == WF_loginVars(AgentRegisters \/ AgentConnects)

LoginSpec == LoginInit /\ [][LoginNext]_loginVars /\ LoginFairness

-----------------------------------------------------------------------------
\* A command ends with a 401 only if somebody interfered after its first one:
\* registered, wrote the file, or restarted the server.  Left alone it is never
\* given a stale token back, from wherever it takes it (sdk.py:38-66).
RefusedTwice == \A c \in Commands : cmd[c].at = "failed" => shaken[c]

\* Commands take the agent's token away again and again, and its connections are lost
\* and refused; a started agent gets in all the same, unless that has lasted for
\* reconnect_giveup_s, after which one more failure ends it (agent.py:94-100), or it
\* was told that the server shuts down.
AgentReturns ==
    agent.at \in {"down", "trying"} ~> agent.at \in {"connected", "stopped"} \/ agent.since = "long"
=============================================================================
