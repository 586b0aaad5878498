---------------------------- MODULE ThreadExecutor ----------------------------
(***************************************************************************)
(* util.NewThreadExecutor, the RPC thread pool of the Landlock sandbox.    *)
(* Any thread submits a task: it looks at _shutdown, puts the task on the  *)
(* queue and pokes the factory thread, each without holding what the       *)
(* others hold.  The factory starts a thread per task; shutdown sets       *)
(* _shutdown, pokes the factory and joins it, and the factory ends only    *)
(* when the count of the running threads is back at 0.                     *)
(*                                                                         *)
(* What is done while the lock of _wait_condition or of _thread_store_lock *)
(* is held is one step, and so is getting a task and starting its thread,  *)
(* which only the factory does.  self.max_workers is left out: nothing     *)
(* reads it.                                                               *)
(*                                                                         *)
(* A definition whose comment begins with (slip) is a plausible mistake in *)
(* the definition that follows it; no action uses it.                      *)
(***************************************************************************)
EXTENDS Integers, Sequences

CONSTANTS
    Task,       \* calls handed to the pool
    MayRaise    \* tasks whose function may end with an exception

ASSUME MayRaiseAssumption == MayRaise \subseteq Task

VARIABLES
    submitter,  \* submitter[t]: the thread that submits t
    queue,      \* transfer_queue
    shutdown,   \* _shutdown
    factory,    \* the factory thread
    worker,     \* worker[t]: the thread that runs t
    count,      \* self.count
    stopper     \* the thread that calls shutdown()

vars == <<submitter, queue, shutdown, factory, worker, count, stopper>>

TypeOK ==
    /\ submitter \in [Task -> {"new", "refused", "tested", "put", "done"}]
    /\ queue \in Seq(Task)
    /\ shutdown \in BOOLEAN
    /\ factory \in {"top", "waiting", "check", "get", "drain", "done"}
    /\ worker \in [Task -> {"none", "running", "raised", "returned",
                            "counted", "done"}]
    /\ count \in Nat
    /\ stopper \in {"new", "flagged", "joining", "joined"}

Init ==
    /\ submitter = [t \in Task |-> "new"]
    /\ queue = <<>>
    /\ shutdown = FALSE
    /\ factory = "top"
    /\ worker = [t \in Task |-> "none"]
    /\ count = 0
    /\ stopper = "new"

\* _wait_condition.notify(): nobody but the factory waits.
Notify == factory' = IF factory = "waiting" THEN "check" ELSE factory

-----------------------------------------------------------------------------
(***************************************************************************)
(* submit                                                                  *)
(***************************************************************************)
SubmitTest(t) ==
    /\ submitter[t] = "new"
    /\ submitter' = [submitter EXCEPT ![t] = IF shutdown THEN "refused" ELSE "tested"]
    /\ UNCHANGED <<queue, shutdown, factory, worker, count, stopper>>

SubmitPut(t) ==
    /\ submitter[t] = "tested"
    /\ submitter' = [submitter EXCEPT ![t] = "put"]
    /\ queue' = Append(queue, t)
    /\ UNCHANGED <<shutdown, factory, worker, count, stopper>>

\* (slip) the factory is not poked
SubmitQuietly(t) ==
    /\ submitter[t] = "put"
    /\ submitter' = [submitter EXCEPT ![t] = "done"]
    /\ UNCHANGED <<queue, shutdown, factory, worker, count, stopper>>

SubmitNotify(t) ==
    /\ submitter[t] = "put"
    /\ submitter' = [submitter EXCEPT ![t] = "done"]
    /\ Notify
    /\ UNCHANGED <<queue, shutdown, worker, count, stopper>>

-----------------------------------------------------------------------------
(***************************************************************************)
(* factory_thread_func and spawn_thread                                    *)
(***************************************************************************)
FactoryWait ==
    /\ factory = "top"
    /\ factory' = IF queue = <<>> /\ ~shutdown THEN "waiting" ELSE "check"
    /\ UNCHANGED <<submitter, queue, shutdown, worker, count, stopper>>

FactoryCheck ==
    /\ factory = "check"
    /\ factory' = IF shutdown THEN "drain" ELSE "get"
    /\ UNCHANGED <<submitter, queue, shutdown, worker, count, stopper>>

\* (slip) the new thread is counted once it runs
SpawnUncounted ==
    /\ factory = "get"
    /\ factory' = "top"
    /\ IF queue = <<>>
         THEN UNCHANGED <<queue, worker>>
         ELSE /\ queue' = Tail(queue)
              /\ worker' = [worker EXCEPT ![Head(queue)] = "running"]
    /\ UNCHANGED <<submitter, shutdown, count, stopper>>

SpawnThread ==
    /\ factory = "get"
    /\ factory' = "top"
    /\ IF queue = <<>>
         THEN UNCHANGED <<queue, worker, count>>
         ELSE /\ queue' = Tail(queue)
              /\ worker' = [worker EXCEPT ![Head(queue)] = "running"]
              /\ count' = count + 1
    /\ UNCHANGED <<submitter, shutdown, stopper>>

FactoryDone ==
    /\ factory = "drain"
    /\ count = 0
    /\ factory' = "done"
    /\ UNCHANGED <<submitter, queue, shutdown, worker, count, stopper>>

Factory == FactoryWait \/ FactoryCheck \/ SpawnThread \/ FactoryDone

-----------------------------------------------------------------------------
(***************************************************************************)
(* _transfer_thread_func                                                   *)
(***************************************************************************)
Run(t, from, to) ==
    /\ worker[t] = from
    /\ worker' = [worker EXCEPT ![t] = to]

FunctionReturns(t) ==
    /\ Run(t, "running", "returned")
    /\ UNCHANGED <<submitter, queue, shutdown, factory, count, stopper>>

\* The exception ends the thread: nothing below the call is run.
FunctionRaises(t) ==
    /\ t \in MayRaise
    /\ Run(t, "running", "raised")
    /\ UNCHANGED <<submitter, queue, shutdown, factory, count, stopper>>

CountDown(t) ==
    /\ Run(t, "returned", "counted")
    /\ count' = count - 1
    /\ UNCHANGED <<submitter, queue, shutdown, factory, stopper>>

PokeFactory(t) ==
    /\ Run(t, "counted", "done")
    /\ Notify
    /\ UNCHANGED <<submitter, queue, shutdown, count, stopper>>

Worker(t) ==
    \/ FunctionReturns(t) \/ FunctionRaises(t)
    \/ CountDown(t) \/ PokeFactory(t)

-----------------------------------------------------------------------------
(***************************************************************************)
(* shutdown                                                                *)
(***************************************************************************)
ShutdownFlag ==
    /\ stopper = "new"
    /\ stopper' = "flagged"
    /\ shutdown' = TRUE
    /\ UNCHANGED <<submitter, queue, factory, worker, count>>

ShutdownNotify ==
    /\ stopper = "flagged"
    /\ stopper' = "joining"
    /\ Notify
    /\ UNCHANGED <<submitter, queue, shutdown, worker, count>>

ShutdownJoin ==
    /\ stopper = "joining"
    /\ factory = "done"
    /\ stopper' = "joined"
    /\ UNCHANGED <<submitter, queue, shutdown, factory, worker, count>>

-----------------------------------------------------------------------------
Next ==
    \/ \E t \in Task : SubmitTest(t) \/ SubmitPut(t) \/ SubmitNotify(t) \/ Worker(t)
    \/ Factory
    \/ ShutdownFlag \/ ShutdownNotify \/ ShutdownJoin

Spec == Init /\ [][Next]_vars

(***************************************************************************)
(* Every thread that can go on does.  A task's function comes to an end.   *)
(* Nobody has to submit a task or to shut the pool down.                   *)
(***************************************************************************)
Fairness ==
    /\ \A t \in Task : /\ WF_vars(SubmitPut(t) \/ SubmitNotify(t))
                       /\ WF_vars(Worker(t))
    /\ WF_vars(Factory)
    /\ WF_vars(ShutdownNotify \/ ShutdownJoin)

FairSpec == Spec /\ Fairness

-----------------------------------------------------------------------------
(***************************************************************************)
(* Properties.                                                             *)
(***************************************************************************)

\* The pool as its users see it.  A task is accepted when submit has found the
\* pool open, it runs as long as its thread is counted, and the pool is closed
\* when the factory thread has ended.
Phase == CASE factory = "done" -> "closed"
           [] factory # "done" /\ shutdown -> "closing"
           [] OTHER -> "open"

TaskState(t) ==
    CASE worker[t] \in {"running", "raised", "returned"} -> "running"
      [] worker[t] \in {"counted", "done"} -> "ended"
      [] worker[t] = "none" /\ submitter[t] \in {"tested", "put", "done"} -> "accepted"
      [] OTHER -> submitter[t]

Pool == INSTANCE TaskPool
          WITH MayHang <- MayRaise,
               phase <- Phase, task <- [t \in Task |-> TaskState(t)]

\* The executor is a task pool: no task is run twice or without having been
\* submitted, none is begun once shutdown has returned, and shutdown returns
\* only when no task is running.  (submit, factory_thread_func, spawn_thread,
\* _transfer_thread_func, shutdown)
IsTaskPool == Pool!Spec

\* Every task whose submit saw the pool open is run unless the pool is shut down,
\* and shutdown comes to an end unless a function has raised: no poke of the
\* condition is lost between the factory's look at the queue and its wait.
IsFairTaskPool == Pool!FairSpec
=============================================================================
