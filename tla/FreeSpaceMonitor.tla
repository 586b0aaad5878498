--------------------------- MODULE FreeSpaceMonitor ---------------------------
(***************************************************************************)
(* util.FreeSpaceMonitor and what WarpApplication does with it.  While     *)
(* files are received a thread polls the free space of the save folder's   *)
(* disk; when none is left above the reserve it pauses itself and has the  *)
(* main loop emit "low-space", upon which the program has the transfers    *)
(* stopped and restarts its server, unless a server is starting.  A thread *)
(* that asks have_enough_free while the monitor is paused refreshes the    *)
(* value itself.                                                           *)
(*                                                                         *)
(* The space above the reserve is a number of units.  A query of the disk  *)
(* and the use of its result are two steps; a callback of the main loop is *)
(* one.  There is one incoming transfer at a time.  The steps of a start   *)
(* of the server are in module ServerLifecycle.                            *)
(*                                                                         *)
(* A definition whose comment begins with (slip) is a plausible mistake in *)
(* the definition that follows it; no action uses it.                      *)
(***************************************************************************)
EXTENDS Integers

CONSTANTS
    MaxFree,    \* the largest free space considered
    QueryFails  \* query_filesystem_info may fail, or report nothing

ASSUME MaxFreeAssumption == MaxFree \in Nat \ {0}
ASSUME QueryFailsAssumption == QueryFails \in BOOLEAN

VARIABLES
    disk,       \* free space above the reserve
    receiving,  \* an incoming transfer is TRANSFERRING
    online,     \* its machine is one of the server's, and ONLINE
    stopping,   \* it has been told to stop: the command or the job is queued
    starting,   \* server_starting
    changed,    \* _remote_ops_changed is queued
    low,        \* the emission of low-space is queued
    available,  \* available_bytes
    enable,     \* _monitor_enable
    cancelled,  \* _cancellable
    thread,     \* _monitor_thread
    asker,      \* a thread that calls have_enough_free
    found,      \* found[p]: what p's query returned
    answer,     \* what have_enough_free returned last
    stop,       \* shutdown(), called by do_shutdown
    unheard     \* history: low-space was emitted, or the monitor was paused by
                \* _remote_ops_changed, and the transfer not stopped

machine == <<online, starting>>
transfers == <<receiving, stopping, changed, unheard>>
level == <<available, low>>
vars == <<disk, machine, transfers, level, enable, cancelled, thread, asker,
          found, answer, stop>>

Free == 0 .. MaxFree

\* The result of a query that raised.
Nothing == -1

TypeOK ==
    /\ disk \in Free
    /\ receiving \in BOOLEAN
    /\ online \in BOOLEAN
    /\ stopping \in BOOLEAN
    /\ starting \in BOOLEAN
    /\ unheard \in BOOLEAN
    /\ changed \in BOOLEAN
    /\ low \in BOOLEAN
    /\ available \in Free
    /\ enable \in BOOLEAN
    /\ cancelled \in BOOLEAN
    /\ thread \in {"none", "top", "store", "sleep", "wait", "done"}
    /\ asker \in {"idle", "query", "store", "read"}
    /\ found \in [{"monitor", "asker"} -> Free \cup {Nothing}]
    /\ answer \in {"none", "yes", "no"}
    /\ stop \in {"no", "cancelled", "joining", "over"}

Init ==
    /\ disk \in Free
    /\ receiving = FALSE
    /\ online = FALSE
    /\ stopping = FALSE
    /\ starting = FALSE
    /\ unheard = FALSE
    /\ changed = FALSE
    /\ low = FALSE
    /\ available = 0
    /\ enable = FALSE
    /\ cancelled = FALSE
    /\ thread = "none"
    /\ asker = "idle"
    /\ found = [p \in {"monitor", "asker"} |-> 0]
    /\ answer = "none"
    /\ stop = "no"

-----------------------------------------------------------------------------
(***************************************************************************)
(* The disk, the machine of the transfer and the transfer.                 *)
(***************************************************************************)
DiskChanges ==
    /\ disk' \in Free
    /\ UNCHANGED <<machine, transfers, level, enable, cancelled, thread, asker,
                   found, answer, stop>>

\* The machine connects, or its connection is made anew; a new server has none.
\* No callback about the ops comes with it.
MachineChanges ==
    /\ online' = ~online
    /\ UNCHANGED <<disk, starting, transfers, level, enable, cancelled, thread,
                   asker, found, answer, stop>>

\* An op's status changes; set_busy and emit_ops_changed queue the callback.
TransferBegins ==
    /\ ~receiving
    /\ stop = "no"
    /\ receiving' = TRUE
    /\ changed' = TRUE
    /\ UNCHANGED <<disk, machine, stopping, unheard, level, enable, cancelled,
                   thread, asker, found, answer, stop>>

\* What is queued for the transfer finds it over.
Over ==
    /\ receiving
    /\ receiving' = FALSE
    /\ stopping' = FALSE
    /\ unheard' = FALSE
    /\ changed' = TRUE
    /\ UNCHANGED <<disk, machine, level, enable, cancelled, thread, asker,
                   found, answer, stop>>

\* It ends by itself, with its connection, or because the server is stopped.
TransferEnds == Over

\* stop_transfer_op, for the command of cancel_all_ops
StopTransfer == stopping /\ Over

\* Another op is added, removed or changes its status.
OpsChange ==
    /\ changed' = TRUE
    /\ UNCHANGED <<disk, machine, receiving, stopping, unheard, level, enable,
                   cancelled, thread, asker, found, answer, stop>>

-----------------------------------------------------------------------------
(***************************************************************************)
(* The main loop.                                                          *)
(***************************************************************************)

\* (slip) a thread that exists is taken to be running
StartOnce ==
    /\ thread' = IF thread = "none" THEN "top" ELSE thread
    /\ enable' = (enable \/ thread = "none")

\* start()
Start ==
    /\ thread' = IF thread = "none" THEN "top" ELSE thread
    /\ enable' = TRUE

\* pause()
Pause == enable' = FALSE

\* get_active_op_count, which passes over a machine that is not ONLINE
ActiveOp == receiving /\ online

\* (slip) every change of the ops starts the monitor
RemoteOpsStart ==
    /\ changed
    /\ changed' = FALSE
    /\ Start
    /\ unheard' = FALSE
    /\ UNCHANGED <<disk, machine, receiving, stopping, level, cancelled, asker,
                   found, answer, stop>>

\* _remote_ops_changed
RemoteOpsChanged ==
    /\ changed
    /\ changed' = FALSE
    /\ IF ActiveOp THEN Start ELSE Pause /\ UNCHANGED thread
    /\ unheard' = (receiving /\ ~online /\ ~stopping)
    /\ UNCHANGED <<disk, machine, receiving, stopping, level, cancelled, asker,
                   found, answer, stop>>

\* cancel_all_ops passes over the same machines; stop_transfer emits a command.
CancelAllOps == stopping' = (stopping \/ ActiveOp)

\* _notify_idle_cb and handle_low_disk_space, which does nothing while a server
\* starts.  new_server returns at once when the program is to be restarted.
HandleLowDiskSpace ==
    /\ low
    /\ low' = FALSE
    /\ IF starting
         THEN UNCHANGED <<stopping, starting>>
         ELSE CancelAllOps /\ starting' \in BOOLEAN
    /\ unheard' = (unheard \/ (receiving /\ ~stopping'))
    /\ UNCHANGED <<disk, online, receiving, changed, available, enable,
                   cancelled, thread, asker, found, answer, stop>>

\* new_server, for a change of the network, the settings or the folder
NewServer ==
    /\ ~starting
    /\ starting' = TRUE
    /\ UNCHANGED <<disk, online, transfers, level, enable, cancelled, thread,
                   asker, found, answer, stop>>

\* _server_started, or new_server_continue without a network
ServerStarted ==
    /\ starting
    /\ starting' = FALSE
    /\ UNCHANGED <<disk, online, transfers, level, enable, cancelled, thread,
                   asker, found, answer, stop>>

-----------------------------------------------------------------------------
(***************************************************************************)
(* _refresh_available                                                      *)
(***************************************************************************)

\* query_filesystem_info; a cancelled query raises.
Query(p) ==
    found' \in {[found EXCEPT ![p] = r] :
                   r \in (IF cancelled THEN {} ELSE {disk})
                         \cup (IF cancelled \/ QueryFails THEN {Nothing} ELSE {})}

\* (slip) what falls below the reserve is kept as it is
StoreUnclamped(p) ==
    /\ available' = found[p]
    /\ IF available' = 0 THEN Pause /\ low' = TRUE
                         ELSE UNCHANGED <<enable, low>>

\* With the lock held; _notify_low_space pauses the monitor.
Store(p) ==
    /\ available' = IF found[p] = Nothing THEN 0 ELSE found[p]
    /\ IF available' = 0 THEN Pause /\ low' = TRUE
                         ELSE UNCHANGED <<enable, low>>

-----------------------------------------------------------------------------
(***************************************************************************)
(* _monitor_thread_func                                                    *)
(***************************************************************************)
MonitorQuery ==
    /\ thread = "top"
    /\ IF cancelled
         THEN thread' = "done" /\ UNCHANGED found
         ELSE thread' = "store" /\ Query("monitor")
    /\ UNCHANGED <<disk, machine, transfers, level, enable, cancelled, asker,
                   answer, stop>>

\* The query is cancelled while it runs.
MonitorQueryCancelled ==
    /\ thread = "store"
    /\ cancelled
    /\ found["monitor"] # Nothing
    /\ found' = [found EXCEPT !["monitor"] = Nothing]
    /\ UNCHANGED <<disk, machine, transfers, level, enable, cancelled, thread,
                   asker, answer, stop>>

MonitorStore ==
    /\ thread = "store"
    /\ thread' = "sleep"
    /\ Store("monitor")
    /\ UNCHANGED <<disk, machine, transfers, cancelled, asker, found, answer,
                   stop>>

MonitorSleep ==
    /\ thread = "sleep"
    /\ thread' = "wait"
    /\ UNCHANGED <<disk, machine, transfers, level, enable, cancelled, asker,
                   found, answer, stop>>

MonitorWait ==
    /\ thread = "wait"
    /\ enable
    /\ thread' = "top"
    /\ UNCHANGED <<disk, machine, transfers, level, enable, cancelled, asker,
                   found, answer, stop>>

Monitor == \/ MonitorQuery \/ MonitorStore \/ MonitorSleep \/ MonitorWait

-----------------------------------------------------------------------------
(***************************************************************************)
(* have_enough_free                                                        *)
(***************************************************************************)
Ask ==
    /\ asker = "idle"
    /\ stop # "over"
    /\ asker' = IF enable THEN "read" ELSE "query"
    /\ UNCHANGED <<disk, machine, transfers, level, enable, cancelled, thread,
                   found, answer, stop>>

AskerQuery ==
    /\ asker = "query"
    /\ asker' = "store"
    /\ Query("asker")
    /\ UNCHANGED <<disk, machine, transfers, level, enable, cancelled, thread,
                   answer, stop>>

AskerStore ==
    /\ asker = "store"
    /\ asker' = "read"
    /\ Store("asker")
    /\ UNCHANGED <<disk, machine, transfers, cancelled, thread, found, answer,
                   stop>>

\* Files that will be overwritten count as free space.
Answer ==
    /\ asker = "read"
    /\ asker' = "idle"
    /\ \E size, existing \in Free :
          answer' = IF size < available + existing THEN "yes" ELSE "no"
    /\ UNCHANGED <<disk, machine, transfers, level, enable, cancelled, thread,
                   found, stop>>

Asking == AskerQuery \/ AskerStore \/ Answer

-----------------------------------------------------------------------------
(***************************************************************************)
(* shutdown                                                                *)
(***************************************************************************)
Cancel ==
    /\ stop = "no"
    /\ stop' = "cancelled"
    /\ cancelled' = TRUE
    /\ UNCHANGED <<disk, machine, transfers, level, enable, thread, asker,
                   found, answer>>

Enable ==
    /\ stop = "cancelled"
    /\ stop' = "joining"
    /\ enable' = TRUE
    /\ UNCHANGED <<disk, machine, transfers, level, cancelled, thread, asker,
                   found, answer>>

\* join(5) comes back when the thread has ended or the time is over.
Joined ==
    /\ stop = "joining"
    /\ stop' = "over"
    /\ UNCHANGED <<disk, machine, transfers, level, enable, cancelled, thread,
                   asker, found, answer>>

-----------------------------------------------------------------------------
\* shutdown() runs in the main loop: no callback is dispatched until it is over.
Next ==
    \/ DiskChanges \/ MachineChanges
    \/ TransferBegins \/ TransferEnds \/ StopTransfer \/ OpsChange
    \/ /\ stop \in {"no", "over"}
       /\ RemoteOpsChanged \/ HandleLowDiskSpace \/ NewServer \/ ServerStarted
    \/ Monitor \/ MonitorQueryCancelled
    \/ Ask \/ Asking
    \/ Cancel \/ Enable \/ Joined

Spec == Init /\ [][Next]_vars

(***************************************************************************)
(* Threads and the main loop go on; the stop job finds a worker.           *)
(***************************************************************************)
Fairness ==
    /\ WF_vars(stop \in {"no", "over"} /\ RemoteOpsChanged)
    /\ WF_vars(stop \in {"no", "over"} /\ HandleLowDiskSpace)
    /\ WF_vars(StopTransfer)
    /\ WF_vars(Monitor)
    /\ WF_vars(Asking)
    /\ WF_vars(Enable \/ Joined)

FairSpec == Spec /\ Fairness

-----------------------------------------------------------------------------
(***************************************************************************)
(* Properties.                                                             *)
(***************************************************************************)

\* A transfer does not go on over a disk that stays full: however start, pause,
\* the thread's own pause and the refreshes of have_enough_free interleave, the
\* monitor runs again, its signal comes and the transfer is stopped.  The code
\* keeps this only if the callbacks can do something for the transfer: a signal
\* that comes while a server starts is dropped, although the monitor has paused
\* itself, and the handlers of the signal and of a change of the ops pass over a
\* machine that is not ONLINE.  Such a transfer (unheard) is watched again only
\* when a change of an op starts the monitor.
\* (_remote_ops_changed, start, _notify_low_space, handle_low_disk_space)
FullDiskStopsTransfers ==
    (receiving /\ disk = 0 /\ stop = "no")
        ~> (~receiving \/ disk # 0 \/ stop # "no" \/ unheard)

\* Nothing is received, and nothing is queued that would tell the monitor so:
\* then it is paused, and have_enough_free looks at the disk itself.
PausedWhenIdle == (enable /\ stop = "no") => (receiving \/ changed)
=============================================================================
