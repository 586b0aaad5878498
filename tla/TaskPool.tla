------------------------------- MODULE TaskPool -------------------------------
(***************************************************************************)
(* What the rest of Warpinator relies on when it hands a call to the RPC   *)
(* thread pool: a task that was accepted is run, at most once, unless the  *)
(* pool closes first; a pool that has closed runs nothing any more.        *)
(***************************************************************************)
CONSTANTS
    Task,       \* what is handed to the pool
    MayHang     \* tasks that, once begun, need not come to an end

VARIABLES
    phase,  \* of the pool
    task    \* task[t]: what became of t

vars == <<phase, task>>

TypeOK ==
    /\ phase \in {"open", "closing", "closed"}
    /\ task \in [Task -> {"new", "refused", "accepted", "running", "ended"}]

Init ==
    /\ phase = "open"
    /\ task = [t \in Task |-> "new"]

Move(t, s) == task' = [task EXCEPT ![t] = s]

Accept(t) ==
    /\ phase = "open"
    /\ task[t] = "new"
    /\ Move(t, "accepted")
    /\ UNCHANGED phase

Refuse(t) ==
    /\ phase # "open"
    /\ task[t] = "new"
    /\ Move(t, "refused")
    /\ UNCHANGED phase

\* A pool that is closing may leave accepted tasks where they are.
Begin(t) ==
    /\ phase # "closed"
    /\ task[t] = "accepted"
    /\ Move(t, "running")
    /\ UNCHANGED phase

End(t) ==
    /\ task[t] = "running"
    /\ Move(t, "ended")
    /\ UNCHANGED phase

StartClosing ==
    /\ phase = "open"
    /\ phase' = "closing"
    /\ UNCHANGED task

Close ==
    /\ phase = "closing"
    /\ \A t \in Task : task[t] # "running"
    /\ phase' = "closed"
    /\ UNCHANGED task

Next ==
    \/ \E t \in Task : Accept(t) \/ Refuse(t) \/ Begin(t) \/ End(t)
    \/ StartClosing
    \/ Close

Spec == Init /\ [][Next]_vars

FairSpec ==
    /\ Spec
    /\ \A t \in Task : WF_vars(phase = "open" /\ Begin(t))
    /\ \A t \in Task \ MayHang : WF_vars(End(t))
    /\ WF_vars(Close)
=============================================================================
