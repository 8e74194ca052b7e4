----------------------------- MODULE Suggestions -----------------------------
(***************************************************************************)
(* The suggestion engine of scheduler/suggestions.py: a cluster whose      *)
(* queue has been long for a whole observation window gets the advice to   *)
(* move an idle node over to it; the advice is withdrawn when the queue is *)
(* short again, and an advice that was dismissed is held back for a while. *)
(*                                                                         *)
(* The engine only looks at the router and the registry when it is called, *)
(* by the tick loop and by the tool clique_self_assess.  Queue and roster  *)
(* change freely between two looks.  Times are kept as ages in seconds.    *)
(***************************************************************************)
EXTENDS Integers, FiniteSets, Functions

CONSTANTS
    Machines,     \* nodes that may be in the roster
    Clusters,     \* cluster keys
    NoCluster,    \* a machine that is not in the roster, or has no model
    Hints,        \* values of model_hint among the queued tasks
    Matches,      \* Matches[h]: clusters whose key starts with h
    MaxWaiting,   \* bound: queued tasks per hint, and without a hint
    EnterDepth,   \* ENTER_QUEUE_DEPTH
    Window,       \* OBSERVE_WINDOW
    Cooldown      \* COOLDOWN

VARIABLES
    hosts,     \* hosts[m]: the cluster of machine m's row
    waiting,   \* waiting[h]: queued tasks that name h; NoHint: that name nothing
    since,     \* since[c]: age of the entry of _overloaded_since, or Never
    advice,    \* _active: the signatures <<machine, cluster>> suggested
    hush       \* _cooldowns: seconds for which a signature is still suppressed

adviceVars == <<hosts, waiting, since, advice, hush>>

Never  == -1
NoHint == "none"

Signatures == Machines \X Clusters
Hosted == {hosts[m] : m \in Machines} \ {NoCluster}

AdviceInit ==
    /\ hosts = [m \in Machines |-> NoCluster]
    /\ waiting = [h \in Hints \cup {NoHint} |-> 0]
    /\ since = [c \in Clusters |-> Never]
    /\ advice = {}
    /\ hush = [s \in Signatures |-> 0]

-----------------------------------------------------------------------------
\* Tasks come and go, nodes join, leave and change their model.
QueueMoves ==
    /\ \E h \in Hints \cup {NoHint}, k \in 0..MaxWaiting : waiting' = [waiting EXCEPT ![h] = k]
    /\ UNCHANGED <<hosts, since, advice, hush>>

RosterMoves ==
    /\ \E m \in Machines, c \in Clusters \cup {NoCluster} : hosts' = [hosts EXCEPT ![m] = c]
    /\ UNCHANGED <<waiting, since, advice, hush>>

\* A task that names a cluster counts for every cluster its hint is a prefix
\* of; the others are spread evenly, rounding down.
Depth(c) == SumFunctionOnSet(waiting, {h \in Hints : c \in Matches[h]})
                + waiting[NoHint] \div Cardinality(Hosted)

\* _overloaded_since after the look: only clusters that somebody hosts are
\* looked at, the mark of one that nobody hosts any more stays as it was.
Marked(c) ==
    CASE c \notin Hosted -> since[c]
      [] c \in Hosted /\ Depth(c) >= EnterDepth -> IF since[c] = Never THEN 0 ELSE since[c]
      [] c \in Hosted /\ Depth(c) < EnterDepth -> Never

\* Nodes that may be moved to c: ready, idle and with enough memory (fit),
\* hosting another model, and not suggested for it already or lately.
Candidates(c, fit) ==
    {m \in fit : /\ hosts[m] \notin {NoCluster, c}
                 /\ hush[<<m, c>>] = 0
                 /\ <<m, c>> \notin advice}

\* Mutant: nothing is withdrawn.
Analyze_NoRetreat(fit) ==
    LET mark == [c \in Clusters |-> Marked(c)]
        ripe == {c \in Hosted : mark[c] >= Window /\ Candidates(c, fit) # {}}
    IN  \E target \in [ripe -> fit] :
            /\ \A c \in ripe : target[c] \in Candidates(c, fit)
            /\ since' = mark
            /\ advice' = advice \cup {<<target[c], c>> : c \in ripe}
            /\ UNCHANGED <<hosts, waiting, hush>>

\* analyze: mark the clusters, suggest one node for each that has been
\* overloaded long enough, withdraw what is no longer marked.
Analyze(fit) ==
    LET mark == [c \in Clusters |-> Marked(c)]
        ripe == {c \in Hosted : mark[c] >= Window /\ Candidates(c, fit) # {}}
    IN  \E target \in [ripe -> fit] :
            /\ \A c \in ripe : target[c] \in Candidates(c, fit)
            /\ since' = mark
            /\ advice' = {s \in advice \cup {<<target[c], c>> : c \in ripe} : mark[s[2]] # Never}
            /\ UNCHANGED <<hosts, waiting, hush>>

\* Dismissing an advice that was withdrawn meanwhile is answered with 404.
Dismiss(s) ==
    /\ s \in advice
    /\ advice' = advice \ {s}
    /\ hush' = [hush EXCEPT ![s] = Cooldown]
    /\ UNCHANGED <<hosts, waiting, since>>

\* clear drops everything, the suppressions too; a restart of the server has
\* the same effect.
ClearAdvice ==
    /\ advice' = {}
    /\ hush' = [s \in Signatures |-> 0]
    /\ since' = [c \in Clusters |-> Never]
    /\ UNCHANGED <<hosts, waiting>>

Least(a, b) == IF a < b THEN a ELSE b

Second ==
    /\ since' = [c \in Clusters |-> IF since[c] = Never THEN Never ELSE Least(since[c] + 1, Window)]
    /\ hush' = [s \in Signatures |-> IF hush[s] = 0 THEN 0 ELSE hush[s] - 1]
    /\ UNCHANGED <<hosts, waiting, advice>>

AdviceNext ==
    \/ QueueMoves
    \/ RosterMoves
    \/ \E fit \in SUBSET Machines : Analyze(fit)
    \/ \E s \in Signatures : Dismiss(s)
    \/ ClearAdvice
    \/ Second

\* The tick loop looks every heartbeat interval and catches every exception;
\* which nodes are fit then is not its doing.
AdviceFairness == WF_adviceVars(\E fit \in SUBSET Machines : Analyze(fit))

AdviceSpec == AdviceInit /\ [][AdviceNext]_adviceVars /\ AdviceFairness

-----------------------------------------------------------------------------
\* An advice does not outlive its cause: once the queue of a cluster that is
\* hosted stays short, no advice to move a node there remains.
AdviceEnds ==
    \A c \in Clusters :
        <>[](c \in Hosted /\ Depth(c) < EnterDepth) => <>[](\A s \in advice : s[2] # c)
=============================================================================
