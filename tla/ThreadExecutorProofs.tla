------------------------ MODULE ThreadExecutorProofs ------------------------
(***************************************************************************)
(* The executor keeps the promise of a TaskPool, for any set of tasks and  *)
(* whichever of them raise.                                                *)
(***************************************************************************)
EXTENDS ThreadExecutor, FiniteSetTheorems, SequenceTheorems, TLAPS

\* The tasks whose thread is counted: it runs the function, has come back from
\* it, or was ended by an exception.
Counted == {t \in Task : worker[t] \in {"running", "raised", "returned"}}

CountIsCounted == IsFiniteSet(Counted) /\ count = Cardinality(Counted)

\* What is queued was submitted, once, and has no thread yet.
Fresh(t) == worker[t] = "none" /\ submitter[t] \in {"put", "done"}

QueueIsFresh ==
    /\ \A i \in 1 .. Len(queue) : Fresh(queue[i])
    /\ \A i, j \in 1 .. Len(queue) : queue[i] = queue[j] => i = j

NotYetPut ==
    \A t \in Task : submitter[t] \in {"new", "refused", "tested"} => worker[t] = "none"

DownInOrder ==
    /\ stopper = "new" <=> ~shutdown
    /\ factory \in {"drain", "done"} => shutdown
    /\ factory = "done" => Counted = {}

Inv == TypeOK /\ CountIsCounted /\ QueueIsFresh /\ NotYetPut /\ DownInOrder

-----------------------------------------------------------------------------
LEMMA InitInv == Init => Inv
<1> SUFFICES ASSUME Init PROVE Inv
    OBVIOUS
<1>1. Counted = {}
    BY DEF Init, Counted
<1>2. TypeOK
    BY EmptySeq DEF Init, TypeOK
<1>3. CountIsCounted
    BY <1>1, FS_EmptySet DEF Init, CountIsCounted
<1>4. QueueIsFresh /\ NotYetPut
    BY DEF Init, QueueIsFresh, NotYetPut
<1>5. DownInOrder
    BY <1>1 DEF Init, DownInOrder
<1> QED
    BY <1>2, <1>3, <1>4, <1>5 DEF Inv

\* Steps that leave workers and the count alone.
LEMMA CountKept ==
    ASSUME Inv, UNCHANGED <<worker, count>>
    PROVE  CountIsCounted' /\ Counted' = Counted
BY DEF Inv, CountIsCounted, Counted

LEMMA SubmitInv ==
    ASSUME Inv, NEW t \in Task, SubmitTest(t) \/ SubmitPut(t) \/ SubmitNotify(t)
    PROVE  Inv'
<1> USE DEF Inv
<1>0. UNCHANGED <<worker, count, shutdown, stopper>>
    BY DEF SubmitTest, SubmitPut, SubmitNotify
<1>1. CountIsCounted' /\ Counted' = Counted
    BY <1>0, CountKept
<1>2. TypeOK'
    <2>1. CASE SubmitTest(t)
        BY <2>1 DEF SubmitTest, TypeOK
    <2>2. CASE SubmitPut(t)
        <3>1. queue' \in Seq(Task)
            BY <2>2, AppendProperties DEF SubmitPut, TypeOK
        <3> QED
            BY <2>2, <3>1 DEF SubmitPut, TypeOK
    <2>3. CASE SubmitNotify(t)
        BY <2>3 DEF SubmitNotify, TypeOK, Notify
    <2> QED
        BY <2>1, <2>2, <2>3
<1>3. NotYetPut'
    BY DEF SubmitTest, SubmitPut, SubmitNotify, TypeOK, NotYetPut
<1>4. DownInOrder'
    BY <1>0, <1>1 DEF SubmitTest, SubmitPut, SubmitNotify, Notify, DownInOrder
<1>5. QueueIsFresh'
    <2>1. CASE SubmitTest(t)
        BY <2>1 DEF SubmitTest, QueueIsFresh, Fresh, TypeOK
    <2>2. CASE SubmitNotify(t)
        BY <2>2 DEF SubmitNotify, QueueIsFresh, Fresh, TypeOK
    <2>3. CASE SubmitPut(t)
        <3>1. \A i \in 1 .. Len(queue) : queue[i] # t
            BY <2>3 DEF SubmitPut, QueueIsFresh, Fresh, TypeOK
        <3>2. worker[t] = "none"
            BY <2>3 DEF SubmitPut, NotYetPut
        <3>3. /\ Len(queue') = Len(queue) + 1
              /\ \A i \in 1 .. Len(queue) : queue'[i] = queue[i]
              /\ queue'[Len(queue) + 1] = t
            BY <2>3 DEF SubmitPut, TypeOK
        <3>4. \A i \in 1 .. Len(queue) : queue[i] \in Task
            BY DEF TypeOK
        <3>5. \A i \in 1 .. Len(queue') : Fresh(queue[i])' \/ i = Len(queue) + 1
            BY <2>3, <3>3, <3>4, <1>0 DEF SubmitPut, QueueIsFresh, Fresh, TypeOK
        <3>6. Fresh(t)'
            BY <2>3, <3>2, <1>0 DEF SubmitPut, Fresh, TypeOK
        <3>7. \A i \in 1 .. Len(queue') : Fresh(queue[i])'
            BY <3>3, <3>5, <3>6
        <3>8. \A i, j \in 1 .. Len(queue') : queue'[i] = queue'[j] => i = j
            BY <3>1, <3>3 DEF QueueIsFresh, TypeOK
        <3> QED
            BY <3>7, <3>8 DEF QueueIsFresh
    <2> QED
        BY <2>1, <2>2, <2>3
<1> QED
    BY <1>1, <1>2, <1>3, <1>4, <1>5

\* The factory takes the head of the queue and counts its thread.
LEMMA SpawnInv ==
    ASSUME Inv, SpawnThread
    PROVE  Inv'
<1> USE DEF Inv
<1>1. CASE queue = <<>>
    <2>1. UNCHANGED <<worker, count, queue, submitter, shutdown, stopper>>
        BY <1>1 DEF SpawnThread
    <2>2. CountIsCounted' /\ Counted' = Counted
        BY <2>1, CountKept
    <2>3. TypeOK'
        BY <2>1 DEF SpawnThread, TypeOK
    <2>4. QueueIsFresh'
        BY <2>1 DEF QueueIsFresh, Fresh
    <2>5. NotYetPut'
        BY <2>1 DEF NotYetPut
    <2>6. DownInOrder'
        BY <2>1, <2>2 DEF SpawnThread, DownInOrder
    <2> QED
        BY <2>2, <2>3, <2>4, <2>5, <2>6
<1>2. CASE queue # <<>>
    <2> DEFINE h == Head(queue)
    <2>1. /\ h \in Task
          /\ queue' \in Seq(Task)
          /\ Len(queue') = Len(queue) - 1
          /\ \A i \in 1 .. Len(queue') : queue'[i] = queue[i + 1]
        <3>1. queue' = Tail(queue)
            BY <1>2 DEF SpawnThread
        <3>2. queue \in Seq(Task)
            BY DEF TypeOK
        <3> QED
            BY <1>2, <3>1, <3>2, HeadTailProperties
    <2>2. h = queue[1] /\ Len(queue) \in Nat \ {0}
        BY <1>2, EmptySeq DEF TypeOK
    <2>3. /\ worker' = [worker EXCEPT ![h] = "running"]
          /\ count' = count + 1
          /\ UNCHANGED <<submitter, shutdown, stopper>>
        BY <1>2 DEF SpawnThread
    <2>4. Fresh(h)
        BY <2>2 DEF QueueIsFresh
    <2> HIDE DEF h
    <2>5. TypeOK'
        BY <2>1, <2>3 DEF SpawnThread, TypeOK
    <2>6. Counted' = Counted \cup {h} /\ h \notin Counted
        BY <2>1, <2>3, <2>4 DEF Counted, Fresh, TypeOK
    <2>7. CountIsCounted'
        BY <2>3, <2>6, FS_AddElement DEF CountIsCounted
    <2>8. QueueIsFresh'
        <3>1. \A i \in 1 .. Len(queue') : Fresh(queue[i + 1]) /\ queue[i + 1] # h
            BY <2>1, <2>2 DEF QueueIsFresh
        <3>2. \A i \in 1 .. Len(queue') : queue'[i] \in Task
            BY <2>1
        <3>3. \A i \in 1 .. Len(queue') : Fresh(queue[i])'
            BY <2>1, <2>3, <3>1, <3>2 DEF Fresh, TypeOK
        <3>4. ASSUME NEW i \in 1 .. Len(queue'), NEW j \in 1 .. Len(queue'),
                     queue'[i] = queue'[j]
              PROVE  i = j
            <4>1. /\ i + 1 \in 1 .. Len(queue)
                  /\ j + 1 \in 1 .. Len(queue)
                BY <2>1, <2>2
            <4>2. queue[i + 1] = queue[j + 1]
                BY <2>1, <3>4
            <4>3. i + 1 = j + 1
                BY <4>1, <4>2 DEF QueueIsFresh
            <4> QED
                BY <4>3
        <3> QED
            BY <3>3, <3>4 DEF QueueIsFresh
    <2>9. NotYetPut'
        BY <2>1, <2>3, <2>4 DEF NotYetPut, Fresh, TypeOK
    <2>10. DownInOrder'
        BY <2>3 DEF SpawnThread, DownInOrder
    <2> QED
        BY <2>5, <2>7, <2>8, <2>9, <2>10
<1> QED
    BY <1>1, <1>2

\* The other steps of the factory and of shutdown touch no task.
LEMMA FactoryInv ==
    ASSUME Inv,
           \/ FactoryWait \/ FactoryCheck \/ FactoryDone
           \/ ShutdownFlag \/ ShutdownNotify \/ ShutdownJoin
    PROVE  Inv'
<1> USE DEF Inv
<1>1. UNCHANGED <<submitter, queue, worker, count>>
    BY DEF FactoryWait, FactoryCheck, FactoryDone, ShutdownFlag, ShutdownNotify,
           ShutdownJoin
<1>2. CountIsCounted' /\ Counted' = Counted
    BY <1>1, CountKept
<1>3. QueueIsFresh' /\ NotYetPut'
    BY <1>1 DEF QueueIsFresh, NotYetPut, Fresh
<1>4. TypeOK'
    BY <1>1 DEF FactoryWait, FactoryCheck, FactoryDone, ShutdownFlag,
                ShutdownNotify, ShutdownJoin, Notify, TypeOK
<1>5. DownInOrder'
    <2>1. CASE FactoryWait
        BY <2>1, <1>2 DEF FactoryWait, DownInOrder
    <2>2. CASE FactoryCheck
        BY <2>2, <1>2 DEF FactoryCheck, DownInOrder
    <2>3. CASE FactoryDone
        <3>1. Counted = {}
            BY <2>3, FS_EmptySet DEF FactoryDone, CountIsCounted
        <3> QED
            BY <2>3, <1>2, <3>1 DEF FactoryDone, DownInOrder
    <2>4. CASE ShutdownFlag
        BY <2>4, <1>2 DEF ShutdownFlag, DownInOrder
    <2>5. CASE ShutdownNotify
        BY <2>5, <1>2 DEF ShutdownNotify, Notify, DownInOrder
    <2>6. CASE ShutdownJoin
        BY <2>6, <1>2 DEF ShutdownJoin, DownInOrder
    <2> QED
        BY <2>1, <2>2, <2>3, <2>4, <2>5, <2>6
<1> QED
    BY <1>2, <1>3, <1>4, <1>5

\* A worker keeps count of itself.
LEMMA WorkerInv ==
    ASSUME Inv, NEW t \in Task, Worker(t)
    PROVE  Inv'
<1> USE DEF Inv
<1>1. /\ UNCHANGED <<submitter, queue, shutdown, stopper>>
      /\ worker[t] # "none" /\ worker'[t] # "none"
      /\ \A u \in Task : u # t => worker'[u] = worker[u]
    BY DEF Worker, FunctionReturns, FunctionRaises, CountDown, PokeFactory, Run, TypeOK
<1>2. CASE FunctionReturns(t) \/ FunctionRaises(t)
    <2>1. Counted' = Counted /\ count' = count /\ factory' = factory
        BY <1>2 DEF FunctionReturns, FunctionRaises, Run, Counted, TypeOK
    <2>2. TypeOK'
        BY <1>2 DEF FunctionReturns, FunctionRaises, Run, TypeOK
    <2> QED
        BY <1>1, <2>1, <2>2
        DEF CountIsCounted, QueueIsFresh, Fresh, NotYetPut, DownInOrder, TypeOK
<1>3. CASE CountDown(t)
    <2>1. Counted' = Counted \ {t} /\ t \in Counted /\ factory' = factory
        BY <1>3 DEF CountDown, Run, Counted, TypeOK
    <2>2. CountIsCounted'
        BY <1>3, <2>1, FS_RemoveElement DEF CountDown, CountIsCounted
    <2>3. count' \in Nat
        BY <2>2, FS_CardinalityType DEF CountIsCounted
    <2>4. TypeOK'
        BY <1>3, <2>3 DEF CountDown, Run, TypeOK
    <2>5. QueueIsFresh' /\ NotYetPut'
        BY <1>1 DEF QueueIsFresh, Fresh, NotYetPut, TypeOK
    <2>6. DownInOrder'
        BY <1>1, <2>1 DEF DownInOrder
    <2> QED
        BY <2>2, <2>4, <2>5, <2>6
<1>4. CASE PokeFactory(t)
    <2>1. Counted' = Counted /\ count' = count
        BY <1>4 DEF PokeFactory, Run, Counted, TypeOK
    <2>2. TypeOK'
        BY <1>4 DEF PokeFactory, Run, Notify, TypeOK
    <2>3. QueueIsFresh' /\ NotYetPut'
        BY <1>1 DEF QueueIsFresh, Fresh, NotYetPut, TypeOK
    <2>4. DownInOrder'
        BY <1>1, <1>4, <2>1 DEF PokeFactory, Notify, DownInOrder
    <2> QED
        BY <2>1, <2>2, <2>3, <2>4 DEF CountIsCounted
<1> QED
    BY <1>2, <1>3, <1>4 DEF Worker

LEMMA StepInv == Inv /\ [Next]_vars => Inv'
<1> SUFFICES ASSUME Inv, [Next]_vars PROVE Inv'
    OBVIOUS
<1>1. CASE UNCHANGED vars
    BY <1>1 DEF vars, Inv, TypeOK, CountIsCounted, Counted, QueueIsFresh, Fresh,
                NotYetPut, DownInOrder
<1>2. CASE Next
    BY <1>2, SubmitInv, SpawnInv, FactoryInv, WorkerInv DEF Next, Factory
<1> QED
    BY <1>1, <1>2

LEMMA SpecInv == Spec => []Inv
BY InitInv, StepInv, PTL DEF Spec

\* The state of the executor stays in its types: the count of the workers never
\* falls below 0.  (util.NewThreadExecutor)
THEOREM TypeCorrect == Spec => []TypeOK
BY SpecInv, PTL DEF Inv

-----------------------------------------------------------------------------
(***************************************************************************)
(* Every step is one of a TaskPool, or none.                               *)
(***************************************************************************)

\* The abstract variable task, and its change when one task moves.
Tasks == [t \in Task |-> TaskState(t)]

LEMMA TasksMove ==
    ASSUME NEW t \in Task, \A u \in Task : u # t => TaskState(u)' = TaskState(u)
    PROVE  Tasks' = [Tasks EXCEPT ![t] = TaskState(t)']
BY DEF Tasks

LEMMA TasksStay ==
    ASSUME \A u \in Task : TaskState(u)' = TaskState(u)
    PROVE  Tasks' = Tasks
BY DEF Tasks

\* A worker's and a submitter's steps move one task at most.
LEMMA OthersStay ==
    ASSUME Inv, NEW t \in Task,
           SubmitTest(t) \/ SubmitPut(t) \/ SubmitNotify(t) \/ Worker(t)
    PROVE  \A u \in Task : u # t => TaskState(u)' = TaskState(u)
BY DEF Inv, TypeOK, TaskState, SubmitTest, SubmitPut, SubmitNotify, Worker,
       FunctionReturns, FunctionRaises, CountDown, PokeFactory, Run

LEMMA InitPool == Init => Pool!Init
BY DEF Init, Pool!Init, Phase, TaskState

LEMMA SubmitTestPool ==
    ASSUME Inv, NEW t \in Task, SubmitTest(t)
    PROVE  Pool!Accept(t) \/ Pool!Refuse(t)
<1>1. Tasks' = [Tasks EXCEPT ![t] = TaskState(t)']
    BY TasksMove, OthersStay
<1>2. Phase' = Phase
    BY DEF SubmitTest, Phase
<1>3. worker[t] = "none" /\ worker' = worker
    BY DEF SubmitTest, Inv, NotYetPut
<1>4. TaskState(t) = "new"
    BY <1>3 DEF SubmitTest, TaskState
<1>5. Tasks[t] = "new"
    BY <1>4 DEF Tasks
<1>6. CASE shutdown
    <2>1. TaskState(t)' = "refused"
        BY <1>3, <1>6 DEF SubmitTest, TaskState, Inv, TypeOK
    <2>2. Phase # "open"
        BY <1>6 DEF Phase
    <2> QED
        BY <1>1, <1>2, <1>5, <2>1, <2>2 DEF Pool!Refuse, Pool!Move, Tasks
<1>7. CASE ~shutdown
    <2>1. TaskState(t)' = "accepted"
        BY <1>3, <1>7 DEF SubmitTest, TaskState, Inv, TypeOK
    <2>2. Phase = "open"
        BY <1>7 DEF Phase, Inv, DownInOrder
    <2> QED
        BY <1>1, <1>2, <1>5, <2>1, <2>2 DEF Pool!Accept, Pool!Move, Tasks
<1> QED
    BY <1>6, <1>7

LEMMA WorkerPool ==
    ASSUME Inv, NEW t \in Task, Worker(t)
    PROVE  Pool!End(t) \/ UNCHANGED <<Phase, Tasks>>
<1>1. Phase' = Phase
    BY DEF Worker, FunctionReturns, FunctionRaises, CountDown, PokeFactory, Notify, Phase
<1>2. CASE CountDown(t)
    <2>1. Tasks' = [Tasks EXCEPT ![t] = TaskState(t)']
        BY TasksMove, OthersStay
    <2>2. TaskState(t) = "running" /\ TaskState(t)' = "ended"
        BY <1>2 DEF CountDown, Run, TaskState, Inv, TypeOK
    <2> QED
        BY <1>1, <2>1, <2>2 DEF Pool!End, Pool!Move, Tasks
<1>3. CASE FunctionReturns(t) \/ FunctionRaises(t) \/ PokeFactory(t)
    <2>1. TaskState(t)' = TaskState(t)
        BY <1>3 DEF FunctionReturns, FunctionRaises, PokeFactory, Run, TaskState,
                    Inv, TypeOK
    <2> QED
        BY <1>1, <2>1, OthersStay, TasksStay
<1> QED
    BY <1>2, <1>3 DEF Worker

LEMMA SpawnPool ==
    ASSUME Inv, SpawnThread
    PROVE  (\E t \in Task : Pool!Begin(t)) \/ UNCHANGED <<Phase, Tasks>>
<1>1. Phase' = Phase /\ Phase # "closed"
    BY DEF SpawnThread, Phase
<1>2. CASE queue = <<>>
    <2>1. \A u \in Task : TaskState(u)' = TaskState(u)
        BY <1>2 DEF SpawnThread, TaskState
    <2> QED
        BY <1>1, <2>1, TasksStay
<1>3. CASE queue # <<>>
    <2>1. queue \in Seq(Task)
        BY DEF Inv, TypeOK
    <2>2. PICK h \in Task : h = Head(queue)
        BY <1>3, <2>1, HeadTailProperties
    <2>3. Fresh(h)
        <3>1. h = queue[1] /\ 1 \in 1 .. Len(queue)
            BY <1>3, <2>1, <2>2, EmptySeq
        <3> QED
            BY <3>1 DEF Inv, QueueIsFresh
    <2>4. worker' = [worker EXCEPT ![h] = "running"] /\ submitter' = submitter
        BY <1>3, <2>2 DEF SpawnThread
    <2>5. TaskState(h) = "accepted" /\ TaskState(h)' = "running"
        BY <2>2, <2>3, <2>4 DEF TaskState, Fresh, Inv, TypeOK
    <2>6. \A u \in Task : u # h => TaskState(u)' = TaskState(u)
        BY <2>2, <2>4 DEF TaskState, Inv, TypeOK
    <2>7. Tasks' = [Tasks EXCEPT ![h] = "running"]
        BY <2>2, <2>5, <2>6, TasksMove
    <2>8. Pool!Begin(h)
        BY <1>1, <2>2, <2>5, <2>7 DEF Pool!Begin, Pool!Move, Tasks
    <2> QED
        BY <2>2, <2>8
<1> QED
    BY <1>2, <1>3

LEMMA FactoryPool ==
    ASSUME Inv,
           \/ FactoryWait \/ FactoryCheck \/ FactoryDone
           \/ ShutdownFlag \/ ShutdownNotify \/ ShutdownJoin
    PROVE  Pool!Close \/ Pool!StartClosing \/ UNCHANGED <<Phase, Tasks>>
<1>1. Tasks' = Tasks
    <2>1. \A u \in Task : TaskState(u)' = TaskState(u)
        BY DEF FactoryWait, FactoryCheck, FactoryDone, ShutdownFlag,
               ShutdownNotify, ShutdownJoin, TaskState
    <2> QED
        BY <2>1, TasksStay
<1>2. CASE FactoryDone
    <2>1. Counted = {}
        BY <1>2, FS_EmptySet DEF FactoryDone, Inv, CountIsCounted
    <2>2. \A t \in Task : TaskState(t) # "running"
        BY <2>1 DEF Counted, TaskState, Inv, TypeOK
    <2>3. Phase = "closing" /\ Phase' = "closed"
        BY <1>2 DEF FactoryDone, Phase, Inv, DownInOrder
    <2> QED
        BY <1>1, <2>2, <2>3 DEF Pool!Close, Tasks
<1>3. CASE ShutdownFlag
    <2>1. Phase = "open" /\ Phase' = "closing"
        BY <1>3 DEF ShutdownFlag, Phase, Inv, DownInOrder
    <2> QED
        BY <1>1, <2>1 DEF Pool!StartClosing, Tasks
<1>4. CASE FactoryWait \/ FactoryCheck \/ ShutdownNotify \/ ShutdownJoin
    <2>1. Phase' = Phase
        BY <1>4 DEF FactoryWait, FactoryCheck, ShutdownNotify, ShutdownJoin,
                    Notify, Phase
    <2> QED
        BY <1>1, <2>1
<1> QED
    BY <1>2, <1>3, <1>4

\* The rest of submit moves no task.
LEMMA SubmitPool ==
    ASSUME Inv, NEW t \in Task, SubmitPut(t) \/ SubmitNotify(t)
    PROVE  UNCHANGED <<Phase, Tasks>>
<1>1. TaskState(t)' = TaskState(t)
    BY DEF SubmitPut, SubmitNotify, TaskState, Inv, TypeOK
<1>2. Tasks' = Tasks
    BY <1>1, OthersStay, TasksStay
<1>3. Phase' = Phase
    BY DEF SubmitPut, SubmitNotify, Notify, Phase
<1> QED
    BY <1>2, <1>3

LEMMA StepPool == Inv /\ [Next]_vars => [Pool!Next]_(Pool!vars)
<1> SUFFICES ASSUME Inv, [Next]_vars
             PROVE  Pool!Next \/ UNCHANGED <<Phase, Tasks>>
    BY DEF Pool!vars, Tasks
<1>1. CASE UNCHANGED vars
    BY <1>1 DEF vars, Phase, Tasks, TaskState
<1>2. CASE Next
    BY <1>2, SubmitTestPool, SubmitPool, WorkerPool, SpawnPool, FactoryPool
    DEF Next, Factory, Pool!Next
<1> QED
    BY <1>1, <1>2

\* The executor implements the task pool: a task is run at most once and only if
\* submit found the pool open, nothing is begun once shutdown is over, and
\* shutdown is over only when nothing runs.  (util.NewThreadExecutor)
THEOREM ImplementsTaskPool == Spec => IsTaskPool
BY InitPool, SpecInv, StepPool, PTL DEF Spec, IsTaskPool, Pool!Spec
=============================================================================
