------------------------ MODULE FreeSpaceMonitorProofs ------------------------
(***************************************************************************)
(* Proofs about FreeSpaceMonitor: its type invariant, and that the monitor *)
(* is paused while nothing is received.  The second is inductive by itself:*)
(* every step that ends the receiving queues a callback, and only the      *)
(* callback, shutdown and a transfer's start enable the monitor.           *)
(***************************************************************************)
EXTENDS FreeSpaceMonitor, TLAPS

Process == {"monitor", "asker"}

\* A query gives one of the values the type allows.  (_refresh_available)
LEMMA QueryType ==
    ASSUME TypeOK, NEW p \in Process, Query(p)
    PROVE  found' \in [Process -> Free \cup {Nothing}]
  BY DEF TypeOK, Query, Process

\* What is stored is never below the reserve.  (_refresh_available)
LEMMA StoreType ==
    ASSUME TypeOK, NEW p \in Process, Store(p)
    PROVE  available' \in Free /\ enable' \in BOOLEAN /\ low' \in BOOLEAN
  <1>1. 0 \in Free
    BY MaxFreeAssumption DEF Free
  <1>2. found[p] \in Free \cup {Nothing}
    BY DEF TypeOK, Process
  <1>3. available' \in Free
    BY <1>1, <1>2 DEF Store
  <1>4. enable' \in BOOLEAN /\ low' \in BOOLEAN
    BY DEF Store, Pause, TypeOK
  <1> QED
    BY <1>3, <1>4

LEMMA TypeInit == Init => TypeOK
  <1>1. 0 \in Free
    BY MaxFreeAssumption DEF Free
  <1> QED
    BY <1>1 DEF Init, TypeOK

LEMMA TypeNext == TypeOK /\ [Next]_vars => TypeOK'
  <1> SUFFICES ASSUME TypeOK, [Next]_vars
               PROVE  TypeOK'
    OBVIOUS
  <1>q. ASSUME NEW p \in {"monitor", "asker"}, Query(p)
        PROVE  found' \in [{"monitor", "asker"} -> Free \cup {Nothing}]
    BY <1>q, QueryType DEF Process
  <1>s. ASSUME NEW p \in {"monitor", "asker"}, Store(p)
        PROVE  available' \in Free /\ enable' \in BOOLEAN /\ low' \in BOOLEAN
    BY <1>s, StoreType DEF Process
  <1> USE DEF TypeOK, machine, transfers, level
  <1>1. CASE DiskChanges \/ MachineChanges
    <2>1. CASE DiskChanges
      BY <2>1 DEF DiskChanges
    <2>2. CASE MachineChanges
      BY <2>2 DEF MachineChanges
    <2> QED
      BY <1>1, <2>1, <2>2
  <1>2. CASE TransferBegins \/ OpsChange
    <2>1. CASE TransferBegins
      BY <2>1 DEF TransferBegins
    <2>2. CASE OpsChange
      BY <2>2 DEF OpsChange
    <2> QED
      BY <1>2, <2>1, <2>2
  <1>3. CASE TransferEnds \/ StopTransfer
    <2>1. Over
      BY <1>3 DEF TransferEnds, StopTransfer
    <2>2. /\ receiving' \in BOOLEAN /\ stopping' \in BOOLEAN
          /\ unheard' \in BOOLEAN /\ changed' \in BOOLEAN
      BY <2>1, Zenon DEF Over
    <2>3. UNCHANGED <<disk, online, starting, low, available, enable, cancelled,
                      thread, asker, found, answer, stop>>
      BY <2>1 DEF Over
    <2> QED
      BY <2>2, <2>3
  <1>4. CASE RemoteOpsChanged
    <2>1. /\ changed' = FALSE
          /\ UNCHANGED <<disk, online, starting, receiving, stopping, low, available,
                        cancelled, asker, found, answer, stop>>
      BY <1>4 DEF RemoteOpsChanged
    <2>2. enable' \in BOOLEAN
      BY <1>4 DEF RemoteOpsChanged, Start, Pause
    <2>3. thread' \in {"none", "top", "store", "sleep", "wait", "done"}
      BY <1>4 DEF RemoteOpsChanged, Start
    <2>4. unheard' \in BOOLEAN
      BY <1>4, Zenon DEF RemoteOpsChanged
    <2> QED
      BY <2>1, <2>2, <2>3, <2>4
  <1>5. CASE HandleLowDiskSpace
    <2>1. stopping' \in BOOLEAN /\ starting' \in BOOLEAN
      <3>1. CASE starting
        BY <1>5, <3>1, Zenon DEF HandleLowDiskSpace
      <3>2. CASE ~starting
        BY <1>5, <3>2, Zenon DEF HandleLowDiskSpace, CancelAllOps
      <3> QED
        BY <3>1, <3>2
    <2>2. unheard' \in BOOLEAN /\ low' \in BOOLEAN
      BY <1>5, Zenon DEF HandleLowDiskSpace
    <2>3. UNCHANGED <<disk, online, receiving, changed, available, enable, cancelled,
                      thread, asker, found, answer, stop>>
      BY <1>5 DEF HandleLowDiskSpace
    <2> QED
      BY <2>1, <2>2, <2>3
  <1>17. CASE NewServer \/ ServerStarted
    <2>1. starting' \in BOOLEAN
      BY <1>17, Zenon DEF NewServer, ServerStarted
    <2>2. UNCHANGED <<disk, online, transfers, level, enable, cancelled, thread, asker,
                      found, answer, stop>>
      BY <1>17, Zenon DEF NewServer, ServerStarted
    <2> QED
      BY <2>1, <2>2
  <1>6. CASE MonitorQuery
    <2>1. found' \in [{"monitor", "asker"} -> Free \cup {Nothing}]
      <3>1. UNCHANGED found \/ Query("monitor")
        BY <1>6 DEF MonitorQuery
      <3>2. CASE UNCHANGED found
        BY <3>2
      <3>3. CASE Query("monitor")
        BY <3>3, <1>q
      <3> QED
        BY <3>1, <3>2, <3>3
    <2>2. thread' \in {"none", "top", "store", "sleep", "wait", "done"}
      BY <1>6 DEF MonitorQuery
    <2>3. UNCHANGED <<disk, machine, transfers, low, available, enable, cancelled,
                      asker, answer, stop>>
      BY <1>6 DEF MonitorQuery
    <2> QED
      BY <2>1, <2>2, <2>3
  <1>7. CASE MonitorStore
    <2>1. available' \in Free /\ enable' \in BOOLEAN /\ low' \in BOOLEAN
      BY <1>7, <1>s DEF MonitorStore
    <2> QED
      BY <1>7, <2>1 DEF MonitorStore
  <1>8. CASE MonitorSleep
    BY <1>8 DEF MonitorSleep
  <1>9. CASE MonitorWait
    BY <1>9 DEF MonitorWait
  <1>10. CASE MonitorQueryCancelled
    BY <1>10 DEF MonitorQueryCancelled
  <1>11. CASE Ask
    BY <1>11 DEF Ask
  <1>12. CASE AskerQuery
    <2>1. found' \in [{"monitor", "asker"} -> Free \cup {Nothing}]
      BY <1>12, <1>q DEF AskerQuery
    <2>2. asker' \in {"idle", "query", "store", "read"}
      BY <1>12 DEF AskerQuery
    <2>3. UNCHANGED <<disk, machine, transfers, low, available, enable, cancelled,
                      thread, answer, stop>>
      BY <1>12 DEF AskerQuery
    <2> QED
      BY <2>1, <2>2, <2>3
  <1>13. CASE AskerStore
    <2>1. available' \in Free /\ enable' \in BOOLEAN /\ low' \in BOOLEAN
      BY <1>13, <1>s DEF AskerStore
    <2> QED
      BY <1>13, <2>1 DEF AskerStore
  <1>14. CASE Answer
    BY <1>14 DEF Answer
  <1>15. CASE Cancel \/ Enable \/ Joined
    <2>1. CASE Cancel
      BY <2>1 DEF Cancel
    <2>2. CASE Enable
      BY <2>2 DEF Enable
    <2>3. CASE Joined
      BY <2>3 DEF Joined
    <2> QED
      BY <1>15, <2>1, <2>2, <2>3
  <1>16. CASE UNCHANGED vars
    BY <1>16 DEF vars
  <1> QED
    BY <1>1, <1>2, <1>3, <1>4, <1>5, <1>6, <1>7, <1>8, <1>9, <1>10, <1>11, <1>12,
       <1>13, <1>14, <1>15, <1>16, <1>17
    DEF Next, Monitor, Asking

\* Every variable keeps its type: what is available is never below zero, whatever
\* the queries return.  (util.FreeSpaceMonitor)
THEOREM TypeCorrect == Spec => []TypeOK
  BY TypeInit, TypeNext, PTL DEF Spec

LEMMA PausedNext == PausedWhenIdle /\ TypeOK /\ [Next]_vars => PausedWhenIdle'
  <1> SUFFICES ASSUME PausedWhenIdle, TypeOK, [Next]_vars
               PROVE  PausedWhenIdle'
    OBVIOUS
  <1> USE DEF PausedWhenIdle, machine, transfers, level
  <1>1. CASE DiskChanges \/ MachineChanges
    <2>1. CASE DiskChanges
      BY <2>1 DEF DiskChanges
    <2>2. CASE MachineChanges
      BY <2>2 DEF MachineChanges
    <2> QED
      BY <1>1, <2>1, <2>2
  <1>2. CASE TransferBegins \/ OpsChange
    <2>1. CASE TransferBegins
      BY <2>1 DEF TransferBegins
    <2>2. CASE OpsChange
      BY <2>2 DEF OpsChange
    <2> QED
      BY <1>2, <2>1, <2>2
  <1>3. CASE TransferEnds \/ StopTransfer
    <2>1. CASE TransferEnds
      BY <2>1 DEF TransferEnds, Over
    <2>2. CASE StopTransfer
      BY <2>2 DEF StopTransfer, Over
    <2> QED
      BY <1>3, <2>1, <2>2
  <1>4. CASE RemoteOpsChanged
    BY <1>4 DEF RemoteOpsChanged, ActiveOp, Start, Pause
  <1>5. CASE HandleLowDiskSpace \/ NewServer \/ ServerStarted
    <2>1. CASE HandleLowDiskSpace
      BY <2>1 DEF HandleLowDiskSpace
    <2>2. CASE NewServer
      BY <2>2 DEF NewServer
    <2>3. CASE ServerStarted
      BY <2>3 DEF ServerStarted
    <2> QED
      BY <1>5, <2>1, <2>2, <2>3
  <1>6. CASE MonitorQuery \/ MonitorSleep \/ MonitorWait \/ MonitorQueryCancelled
    BY <1>6 DEF MonitorQuery, MonitorSleep, MonitorWait, MonitorQueryCancelled
  <1>7. CASE MonitorStore
    BY <1>7 DEF MonitorStore, Store, Pause
  <1>8. CASE Ask \/ AskerQuery \/ Answer
    BY <1>8 DEF Ask, AskerQuery, Answer
  <1>9. CASE AskerStore
    BY <1>9 DEF AskerStore, Store, Pause
  <1>10. CASE Cancel \/ Enable \/ Joined
    BY <1>10 DEF Cancel, Enable, Joined
  <1>11. CASE UNCHANGED vars
    BY <1>11 DEF vars
  <1> QED
    BY <1>1, <1>2, <1>3, <1>4, <1>5, <1>6, <1>7, <1>8, <1>9, <1>10, <1>11
    DEF Next, Monitor, Asking

\* While nothing is received, and no callback is queued that would say so, the
\* monitor is paused, however the pauses and starts of three threads interleave.
\* (util.FreeSpaceMonitor, WarpApplication._remote_ops_changed)
THEOREM PausedWhileIdle == Spec => []PausedWhenIdle
  <1>1. Init => PausedWhenIdle
    BY DEF Init, PausedWhenIdle
  <1> QED
    BY <1>1, PausedNext, TypeCorrect, PTL DEF Spec
=============================================================================
