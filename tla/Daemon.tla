-------------------------------- MODULE Daemon --------------------------------
(***************************************************************************)
(* client/daemon.py: background processes found again through a pid file.  *)
(* Commands of the CLI run status, spawn and stop for one role as separate *)
(* operating system processes; between any two of their file and process   *)
(* operations other commands run, and daemons die by themselves.           *)
(***************************************************************************)
EXTENDS Naturals, FiniteSets

CONSTANTS
    Callers,   \* CLI processes
    Pids,      \* process ids, not reused
    NoPid      \* no process, no file

ASSUME DaemonAssumption == NoPid \notin Pids

VARIABLES
    caller,    \* caller[c]: where c is, and the process it deals with
    procs,     \* running daemons
    used,      \* pids given out so far
    pidfile,   \* the pid in <data_dir>/run/<name>.json, or NoPid
    entangled  \* history: two callers were at it at once, or one was interrupted
               \* while it waited for its process to settle

daemonVars == <<caller, procs, used, pidfile, entangled>>

Idle == [at |-> "idle", op |-> "none", pid |-> NoPid]
Busy == {c \in Callers : caller[c].at # "idle"}

DaemonInit ==
    /\ caller = [c \in Callers |-> Idle]
    /\ procs = {} /\ used = {}
    /\ pidfile = NoPid
    /\ entangled = FALSE

Goes(c, at, pid) == caller' = [caller EXCEPT ![c].at = at, ![c].pid = pid]

\* A command for the role: spawn or stop, both of which begin with status.
Invoke(c, op) ==
    /\ caller[c].at = "idle"
    /\ caller' = [caller EXCEPT ![c] = [at |-> "status", op |-> op, pid |-> NoPid]]
    /\ entangled' = (entangled \/ Busy # {})
    /\ UNCHANGED <<procs, used, pidfile>>

\* status reads the file and then probes the pid it found.
ReadFile(c) ==
    /\ caller[c].at = "status"
    /\ \/ pidfile # NoPid /\ Goes(c, "probe", pidfile)
       \/ pidfile = NoPid /\ caller[c].op = "spawn" /\ Goes(c, "launch", NoPid)
       \/ pidfile = NoPid /\ caller[c].op = "stop" /\ caller' = [caller EXCEPT ![c] = Idle]
    /\ UNCHANGED <<procs, used, pidfile, entangled>>

\* It runs: a spawn raises, a stop goes on.  It does not: the file is removed,
\* whatever it holds by now.
Probe(c) ==
    /\ caller[c].at = "probe"
    /\ \/ /\ caller[c].pid \in procs /\ caller[c].op = "spawn"
          /\ caller' = [caller EXCEPT ![c] = Idle]
          /\ UNCHANGED pidfile
       \/ /\ caller[c].pid \in procs /\ caller[c].op = "stop"
          /\ Goes(c, "signal", caller[c].pid)
          /\ UNCHANGED pidfile
       \/ /\ caller[c].pid \notin procs
          /\ pidfile' = NoPid
          /\ IF caller[c].op = "spawn" THEN Goes(c, "launch", NoPid)
             ELSE caller' = [caller EXCEPT ![c] = Idle]
    /\ UNCHANGED <<procs, used, entangled>>

Launch(c) ==
    /\ caller[c].at = "launch"
    /\ \E p \in Pids \ used :
          /\ procs' = procs \cup {p}
          /\ used' = used \cup {p}
          /\ Goes(c, "grace", p)
    /\ UNCHANGED <<pidfile, entangled>>

\* The end of the grace period: the pid is written down, or the process has
\* exited already and SpawnError says so.  A process that exits between the
\* last poll and the write is written down dead.
Settle(c) ==
    /\ caller[c].at = "grace"
    /\ \/ pidfile' = caller[c].pid
       \/ caller[c].pid \notin procs /\ UNCHANGED pidfile
    /\ caller' = [caller EXCEPT ![c] = Idle]
    /\ UNCHANGED <<procs, used, entangled>>

\* Ctrl+C during the grace period: the process is detached and stays.
Interrupt(c) ==
    /\ caller[c].at = "grace"
    /\ caller' = [caller EXCEPT ![c] = Idle]
    /\ entangled' = TRUE
    /\ UNCHANGED <<procs, used, pidfile>>

\* SIGTERM, which the process may take its time over; with force, SIGKILL.
Signal(c) ==
    /\ caller[c].at = "signal"
    /\ Goes(c, "await", caller[c].pid)
    /\ procs' \in {procs, procs \ {caller[c].pid}}
    /\ UNCHANGED <<used, pidfile, entangled>>

\* Mutant: what outlives the ten seconds is left alone.
Escalate_Patient(c) ==
    /\ caller[c].at = "await"
    /\ Goes(c, "unlink", caller[c].pid)
    /\ UNCHANGED <<procs, used, pidfile, entangled>>

\* After ten seconds what is still there is killed.
Escalate(c) ==
    /\ caller[c].at = "await"
    /\ procs' = procs \ {caller[c].pid}
    /\ Goes(c, "unlink", caller[c].pid)
    /\ UNCHANGED <<used, pidfile, entangled>>

\* The file goes, whatever it holds by now.
Unlink(c) ==
    /\ caller[c].at = "unlink"
    /\ pidfile' = NoPid
    /\ caller' = [caller EXCEPT ![c] = Idle]
    /\ UNCHANGED <<procs, used, entangled>>

Dies(p) ==
    /\ p \in procs
    /\ procs' = procs \ {p}
    /\ UNCHANGED <<caller, used, pidfile, entangled>>

DaemonNext ==
    \/ \E c \in Callers :
          \/ \E op \in {"spawn", "stop"} : Invoke(c, op)
          \/ ReadFile(c) \/ Probe(c) \/ Launch(c) \/ Settle(c) \/ Interrupt(c)
          \/ Signal(c) \/ Escalate(c) \/ Unlink(c)
    \/ \E p \in Pids : Dies(p)

DaemonSpec == DaemonInit /\ [][DaemonNext]_daemonVars

-----------------------------------------------------------------------------
\* Commands that do not overlap and are not interrupted never lose a daemon:
\* at most one runs, and while nobody is at work the file names it.  (Two
\* starts at once, or a start during a stop, do lose one.)
NoOrphan ==
    ~entangled => /\ Cardinality(procs) <= 1
                  /\ Busy = {} /\ procs # {} => procs = {pidfile}
=============================================================================
