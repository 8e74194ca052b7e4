---------------------------- MODULE TaskLifecycle ----------------------------
(***************************************************************************)
(* What the task table promises a client, one task at a time, without      *)
(* nodes, leases, queues or keys: a task is tried by one attempt after     *)
(* another, never by two at once and never more than MaxAttempts times,    *)
(* and is settled at most once.  It succeeds only through the attempt that *)
(* is current at that moment, and fails only when its budget is spent.     *)
(*                                                                         *)
(* A step moves any set of tasks, each by a legal move: one scheduling     *)
(* pass, one lost node or one "clear" concerns many tasks at once.         *)
(***************************************************************************)
EXTENDS Naturals

CONSTANTS Tasks, MaxAttempts

VARIABLES
    status,   \* where each task is in its life
    tries,    \* attempts started for each task
    live      \* the attempt that may settle the task, 0 when there is none

vars == <<status, tries, live>>

Init ==
    /\ status = [t \in Tasks |-> "new"]
    /\ tries = [t \in Tasks |-> 0]
    /\ live = [t \in Tasks |-> 0]

Stay(t) == status'[t] = status[t] /\ tries'[t] = tries[t] /\ live'[t] = live[t]

Accept(t) ==
    /\ status[t] = "new" /\ status'[t] = "open"
    /\ tries'[t] = tries[t] /\ live'[t] = live[t]

Try(t) ==
    /\ status[t] = "open" /\ status'[t] = "open"
    /\ live[t] = 0 /\ tries[t] < MaxAttempts
    /\ tries'[t] = tries[t] + 1 /\ live'[t] = tries'[t]

GiveUp(t) ==
    /\ status[t] = "open" /\ status'[t] = "open"
    /\ live[t] # 0 /\ tries[t] < MaxAttempts
    /\ tries'[t] = tries[t] /\ live'[t] = 0

Settle(t) ==
    /\ status[t] = "open"
    /\ \/ status'[t] = "succeeded" /\ live[t] # 0
       \/ status'[t] = "failed" /\ live[t] # 0 /\ tries[t] = MaxAttempts
       \/ status'[t] = "cancelled"
    /\ tries'[t] = tries[t] /\ live'[t] = 0

Forget(t) ==
    /\ status[t] \notin {"new", "gone"} /\ status'[t] = "gone"
    /\ tries'[t] = tries[t] /\ live'[t] = 0

Move(t) == Stay(t) \/ Accept(t) \/ Try(t) \/ GiveUp(t) \/ Settle(t) \/ Forget(t)

Next ==
    /\ status' = [t \in Tasks |-> status'[t]]
    /\ tries' = [t \in Tasks |-> tries'[t]]
    /\ live' = [t \in Tasks |-> live'[t]]
    /\ \A t \in Tasks : Move(t)

Spec == Init /\ [][Next]_vars
=============================================================================
