---------------------------- MODULE ServerLifecycle ----------------------------
(***************************************************************************)
(* Starting, restarting and stopping the server.  WarpApplication runs in  *)
(* the GLib main loop: it asks the server that runs to stop, waits for its *)
(* "shutdown-complete", polls the save folder, and then makes the next     *)
(* Server, whose thread (Server.run) binds the port, announces itself with *)
(* zeroconf and says "server-started".  A request that comes in between is *)
(* remembered in server_state_dirty.  On quitting, do_shutdown goes on     *)
(* dispatching the main loop until the server's thread has ended.          *)
(*                                                                         *)
(* A callback of the main loop is one step.  The i-th Server the program   *)
(* makes is the number i, and so is the RPC pool its thread puts into      *)
(* util.global_rpc_threadpool.  The settings a server is made with         *)
(* (addresses, ports, group code) are numbered in the order they came.     *)
(*                                                                         *)
(* A definition whose comment begins with (slip) is a plausible mistake in *)
(* the definition that follows it; no action uses it.                      *)
(***************************************************************************)
EXTENDS Integers

CONSTANTS
    MaxChanges,     \* bound: how often network or settings change
    MaxLow,         \* bound: how often the disk runs low
    Faults,         \* what may fail in a server's thread
    Bubblewrap      \* config.sandbox_mode == "bubblewrap"

ASSUME ChangesAssumption == MaxChanges \in Nat
ASSUME LowAssumption == MaxLow \in Nat
ASSUME FaultsAssumption == Faults \subseteq {"bind", "zeroconf"}
ASSUME BubblewrapAssumption == Bubblewrap \in BOOLEAN

\* One server for do_activate, and at most one more for each later request.
Server == 1 .. 1 + MaxChanges + MaxLow

NoServer == 0

VARIABLES
    online,     \* netmon.online
    want,       \* the latest settings
    lows,       \* how often the disk ran low
    starting,   \* server_starting
    dirty,      \* server_state_dirty
    restarting, \* app_restarting
    current,    \* self.server, or NoServer
    timer,      \* the timeout of check_save_folder is armed
    cont,       \* idle calls of new_server_continue
    hooked,     \* servers with shutdown-complete connected
    quit,       \* do_shutdown
    settled,    \* history: when it began no server was being started, and none since
    phase,      \* phase[i]: where the thread of server i is
    made,       \* made[i]: the settings server i was made with
    keepalive,  \* servers whose server_thread_keepalive is set
    started,    \* started[i]: the idle call that emits server-started
    complete,   \* complete[i]: the idle call that emits shutdown-complete
    failed,     \* history: the start of a server has failed
    pool,       \* util.global_rpc_threadpool
    shut        \* pools that were shut down

wishes == <<online, want, lows>>
app == <<starting, dirty, restarting, current, timer, cont, hooked, quit, settled>>
signals == <<started, complete, failed>>
pools == <<pool, shut>>
vars == <<wishes, app, phase, made, keepalive, signals, pools>>

Phase == {"none", "starting", "advertising", "running", "stopping", "closed",
          "joining", "ended", "dead"}

\* At most one new_server_continue is queued.
TypeOK ==
    /\ online \in BOOLEAN
    /\ want \in 1 .. 1 + MaxChanges
    /\ lows \in 0 .. MaxLow
    /\ starting \in BOOLEAN
    /\ dirty \in BOOLEAN
    /\ restarting \in BOOLEAN
    /\ current \in Server \cup {NoServer}
    /\ timer \in BOOLEAN
    /\ cont \in {0, 1}
    /\ hooked \subseteq Server
    /\ quit \in {"no", "waiting", "gone", "failed"}
    /\ settled \in BOOLEAN
    /\ phase \in [Server -> Phase]
    /\ made \in [Server -> 0 .. 1 + MaxChanges]
    /\ keepalive \subseteq Server
    /\ started \in [Server -> {"none", "queued", "handled"}]
    /\ complete \in [Server -> {"none", "queued", "handled"}]
    /\ failed \in BOOLEAN
    /\ pool \in Server \cup {NoServer}
    /\ shut \subseteq Server

\* do_activate has called new_server.
Init ==
    /\ online \in BOOLEAN
    /\ want = 1
    /\ lows = 0
    /\ starting = TRUE
    /\ dirty = FALSE
    /\ restarting = FALSE
    /\ current = NoServer
    /\ timer = TRUE
    /\ cont = 0
    /\ hooked = {}
    /\ quit = "no"
    /\ settled = FALSE
    /\ phase = [i \in Server |-> "none"]
    /\ made = [i \in Server |-> 0]
    /\ keepalive = {}
    /\ started = [i \in Server |-> "none"]
    /\ complete = [i \in Server |-> "none"]
    /\ failed = FALSE
    /\ pool = NoServer
    /\ shut = {}

-----------------------------------------------------------------------------
(***************************************************************************)
(* WarpApplication, in the main loop.                                      *)
(***************************************************************************)

\* The main loop, or the loop of do_shutdown, dispatches callbacks.
Dispatching == quit \in {"no", "waiting"}

\* new_server, once it has found nothing that makes it wait
StopAndStart ==
    /\ starting' = TRUE
    /\ IF current # NoServer
         THEN /\ hooked' = hooked \cup {current}
              /\ keepalive' = keepalive \cup {current}
              /\ UNCHANGED timer
         ELSE /\ timer' = TRUE
              /\ UNCHANGED <<hooked, keepalive>>

NewServer ==
    \/ /\ restarting
       /\ UNCHANGED <<starting, dirty, timer, hooked, keepalive>>
    \/ /\ ~restarting /\ starting
       /\ dirty' = TRUE
       /\ UNCHANGED <<starting, timer, hooked, keepalive>>
    \/ /\ ~restarting /\ ~starting
       /\ StopAndStart
       /\ UNCHANGED dirty

\* network_state_changed, on_group_code_changed and the other callers
SettingsChanged ==
    /\ quit = "no"
    /\ want < 1 + MaxChanges
    /\ want' = want + 1
    /\ online' \in BOOLEAN
    /\ NewServer
    /\ UNCHANGED <<lows, restarting, current, cont, quit, settled, phase, made, signals, pools>>

\* on_receiving_folder_changed in the bubblewrap sandbox; outside of it the
\* change is one of the settings.
ReceivingFolderChanged ==
    /\ quit = "no"
    /\ Bubblewrap
    /\ restarting' = TRUE
    /\ UNCHANGED <<wishes, starting, dirty, current, timer, cont, hooked, quit, settled,
                   phase, made, keepalive, signals, pools>>

\* handle_low_disk_space; it runs in the loop of do_shutdown, too.
LowDiskSpace ==
    /\ Dispatching
    /\ lows < MaxLow
    /\ current # NoServer
    /\ ~starting
    /\ lows' = lows + 1
    /\ settled' = FALSE
    /\ NewServer
    /\ UNCHANGED <<online, want, restarting, current, cont, quit, phase, made,
                   signals, pools>>

\* The timer comes a second after it was armed: a thread that has emitted
\* shutdown-complete has taken its next step, the shutdown of the pool, by then.
Prompt == \A i \in Server : phase[i] # "closed"

\* check_save_folder, when folder and space are good; until then it is repeated.
CheckSaveFolder ==
    /\ Dispatching
    /\ timer
    /\ Prompt
    /\ timer' = FALSE
    /\ cont' = cont + 1
    /\ UNCHANGED <<wishes, starting, dirty, restarting, current, hooked, quit, settled,
                   phase, made, keepalive, signals, pools>>

\* The thread of server i starts in its constructor.
MakeServer(i) ==
    /\ phase[i] = "none"
    /\ \A j \in Server : j < i => phase[j] # "none"
    /\ current' = i
    /\ phase' = [phase EXCEPT ![i] = "starting"]
    /\ made' = [made EXCEPT ![i] = want]

NewServerContinue ==
    /\ Dispatching
    /\ cont > 0
    /\ cont' = cont - 1
    /\ dirty' = FALSE
    /\ \/ /\ ~online
          /\ current' = NoServer
          /\ starting' = FALSE
          /\ UNCHANGED <<phase, made>>
       \/ /\ online
          /\ \E i \in Server : MakeServer(i)
          /\ UNCHANGED starting
    /\ UNCHANGED <<wishes, restarting, timer, hooked, quit, settled, keepalive,
                   signals, pools>>

\* (slip) what was asked meanwhile is forgotten
ServerStartedClean(i) ==
    /\ Dispatching
    /\ started[i] = "queued"
    /\ started' = [started EXCEPT ![i] = "handled"]
    /\ starting' = FALSE
    /\ UNCHANGED <<wishes, dirty, restarting, current, timer, cont, hooked, quit, settled,
                   phase, made, keepalive, complete, failed, pools>>

\* _server_started
ServerStarted(i) ==
    /\ Dispatching
    /\ started[i] = "queued"
    /\ started' = [started EXCEPT ![i] = "handled"]
    /\ IF dirty /\ ~restarting
         THEN StopAndStart
         ELSE starting' = FALSE /\ UNCHANGED <<timer, hooked, keepalive>>
    /\ UNCHANGED <<wishes, dirty, restarting, current, cont, quit, settled, phase, made,
                   complete, failed, pools>>

\* start_save_folder_check, if it is connected.  Idle calls keep their order.
ShutdownComplete(i) ==
    /\ Dispatching
    /\ complete[i] = "queued"
    /\ started[i] # "queued"
    /\ complete' = [complete EXCEPT ![i] = "handled"]
    /\ timer' = (timer \/ i \in hooked)
    /\ UNCHANGED <<wishes, starting, dirty, restarting, current, cont, hooked,
                   quit, settled, phase, made, keepalive, started, failed, pools>>

\* (slip) the server is not told
QuitSilently ==
    /\ quit = "no"
    /\ timer' = FALSE
    /\ quit' = IF current = NoServer THEN "gone" ELSE "waiting"
    /\ settled' = ~starting
    /\ UNCHANGED <<wishes, starting, dirty, restarting, current, cont, hooked,
                   phase, made, keepalive, signals, pools>>

\* exit_warp and do_shutdown, as far as its loop; netmon is stopped.
Quit ==
    /\ quit = "no"
    /\ timer' = FALSE
    /\ IF current = NoServer
         THEN quit' = "gone" /\ UNCHANGED keepalive
         ELSE quit' = "waiting" /\ keepalive' = keepalive \cup {current}
    /\ settled' = ~starting
    /\ UNCHANGED <<wishes, starting, dirty, restarting, current, cont, hooked,
                   phase, made, signals, pools>>

\* while self.server.is_alive(): the loop looks at the server of the moment.
QuitLoopEnds ==
    /\ quit = "waiting"
    /\ \/ /\ current = NoServer
          /\ quit' = "failed"
       \/ /\ current # NoServer
          /\ phase[current] \in {"ended", "dead"}
          /\ quit' = "gone"
    /\ UNCHANGED <<wishes, starting, dirty, restarting, current, timer, cont,
                   hooked, settled, phase, made, keepalive, signals, pools>>

-----------------------------------------------------------------------------
(***************************************************************************)
(* Server.run, in a thread of its own.                                     *)
(***************************************************************************)
Thread(i, from, to) ==
    /\ phase[i] = from
    /\ phase' = [phase EXCEPT ![i] = to]
    /\ UNCHANGED <<wishes, app, made>>

\* (slip) a pool is made only for the first server
BindOldPool(i) ==
    /\ Thread(i, "starting", "advertising")
    /\ pool' = IF pool = NoServer THEN i ELSE pool
    /\ keepalive' = keepalive \ {i}
    /\ UNCHANGED <<signals, shut>>

\* The pool is made, the port bound, and the keepalive event cleared.
Bind(i) ==
    /\ Thread(i, "starting", "advertising")
    /\ pool' = i
    /\ keepalive' = keepalive \ {i}
    /\ UNCHANGED <<signals, shut>>

\* An exception before server-started ends the thread: the port is in use.
BindFails(i) ==
    /\ "bind" \in Faults
    /\ Thread(i, "starting", "dead")
    /\ pool' = i
    /\ failed' = TRUE
    /\ UNCHANGED <<keepalive, started, complete, shut>>

\* start_zeroconf; if it fails the server says that it has started and stops.
Advertise(i) ==
    /\ Thread(i, "advertising", "running")
    /\ started' = [started EXCEPT ![i] = "queued"]
    /\ \/ UNCHANGED <<keepalive, failed>>
       \/ /\ "zeroconf" \in Faults
          /\ keepalive' = keepalive \cup {i}
          /\ failed' = TRUE
    /\ UNCHANGED <<complete, pools>>

\* (slip) shutdown-complete is emitted before the server is stopped
LeaveLoopEarly(i) ==
    /\ i \in keepalive
    /\ Thread(i, "running", "stopping")
    /\ complete' = [complete EXCEPT ![i] = "queued"]
    /\ UNCHANGED <<keepalive, started, failed, pools>>

LeaveLoop(i) ==
    /\ i \in keepalive
    /\ Thread(i, "running", "stopping")
    /\ UNCHANGED <<keepalive, signals, pools>>

\* Registration, zeroconf, the remotes and the gRPC server are stopped.
ServerStopped(i) ==
    /\ Thread(i, "stopping", "closed")
    /\ complete' = [complete EXCEPT ![i] = "queued"]
    /\ UNCHANGED <<keepalive, started, failed, pools>>

\* util.global_rpc_threadpool.shutdown(wait=True), of the pool of the moment
ShutDownPool(i) ==
    /\ Thread(i, "closed", "joining")
    /\ shut' = shut \cup {pool}
    /\ UNCHANGED <<keepalive, signals, pool>>

PoolJoined(i) ==
    /\ Thread(i, "joining", "ended")
    /\ UNCHANGED <<keepalive, signals, pools>>

Run(i) == \/ Bind(i) \/ BindFails(i) \/ Advertise(i) \/ LeaveLoop(i)
          \/ ServerStopped(i) \/ ShutDownPool(i) \/ PoolJoined(i)

-----------------------------------------------------------------------------
Next ==
    \/ SettingsChanged \/ ReceivingFolderChanged \/ LowDiskSpace
    \/ CheckSaveFolder \/ NewServerContinue
    \/ Quit \/ QuitLoopEnds
    \/ \E i \in Server : ServerStarted(i) \/ ShutdownComplete(i) \/ Run(i)

Spec == Init /\ [][Next]_vars

(***************************************************************************)
(* The main loop dispatches what is ready, the folder becomes good, and    *)
(* threads go on: start_zeroconf, the stop of the gRPC server (with its    *)
(* grace of 2 s) and the workers of the pool come to an end.               *)
(***************************************************************************)
Fairness ==
    /\ WF_vars(CheckSaveFolder)
    /\ WF_vars(NewServerContinue)
    /\ WF_vars(QuitLoopEnds)
    /\ \A i \in Server : /\ WF_vars(ServerStarted(i))
                         /\ WF_vars(ShutdownComplete(i))
                         /\ WF_vars(Run(i))

FairSpec == Spec /\ Fairness

-----------------------------------------------------------------------------
(***************************************************************************)
(* Properties.                                                             *)
(***************************************************************************)

\* The thread is before the end of run: it has the port or will bind it.
Up(i) == phase[i] \in {"starting", "advertising", "running", "stopping"}

\* Whatever requests, failures and quitting come together, two servers never
\* hold the port at once, nor is one made while another is up.
\* (WarpApplication.new_server, start_save_folder_check, new_server_continue;
\* Server.run emits shutdown-complete after server.stop)
OneServer == \A i, j \in Server : Up(i) /\ Up(j) => i = j

\* While a server answers, the global pool is open: the shutdown of the server
\* before it closes its own pool only.  (Server.run, util.initialize_rpc_threadpool)
ServerHasPool ==
    \A i \in Server : phase[i] \in {"advertising", "running"}
                        => pool = i /\ pool \notin shut

Settled ==
    IF online THEN /\ current # NoServer
                   /\ made[current] = want
                   /\ phase[current] = "running"
              ELSE current = NoServer

\* As long as no server fails to start, the program comes to run one with the
\* latest settings, or none without a network, unless it quits or is to restart:
\* no request is lost while a server starts or stops.  (server_starting and
\* server_state_dirty in new_server, new_server_continue and _server_started)
SettlesOnLatest == []<>(Settled \/ failed \/ quit # "no" \/ restarting)

\* do_shutdown, begun while no server is being started or replaced, comes to its
\* end unless the disk runs low meanwhile: Server.run sees the stop, whatever
\* failed before and whatever signals are still queued, and nothing else makes
\* another server.
QuitEndsIfSettled ==
    (quit = "waiting" /\ settled) ~> (quit = "gone" \/ ~settled)
=============================================================================
