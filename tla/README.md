# Warpinator in TLA+

Warpinator (linuxmint/warpinator) sends files between machines of one local
network. It is a GTK program in Python; every machine runs a gRPC server, and
finds the others with zeroconf. The modules here follow its own code, the files
`src/src/*.py`. What makes that code hard is not the files but the threads: a
handler of the gRPC server, a job of the RPC thread pool, a generator that feeds
a stream and an idle callback of the GLib main loop may all assign the same
fields of one operation, with nothing that orders them.

## The system

| part | state | operations | hard because |
|---|---|---|---|
| Transfer operation (`ops.py`, `remote.py` 377-707, `server.py` 580-736) | `SendOp` on one machine and `ReceiveOp` on the other: `status`, `error_msg`, `remaining_count`, `file_iterator`, `file_send_cancellable`, and whether the op is listed in `transfer_ops` | offer, accept, decline, cancel, stream, stop, fail, restart, remove | statuses are set from four kinds of threads on each machine, calls overtake each other, the network may go |
| File stream (`transfers.py`) | position of the generator, open file of the receiver, progress | chunks out, chunks in, clean-up, progress | both ends end the stream on their own; progress comes as idle callbacks |
| Connection (`remote.py` 75-376) | `RemoteMachine.status`, ping thread, channel | connect, duplex handshake, ping, shut down | a status waiting in the idle queue is replaced by the next |
| Discovery (`server.py` 100-381) | `remote_machines` and the display names in it | service found, lost, manual registration | two browser threads, registration threads and the server's end meet in one dictionary that no lock covers |
| Registration and certificates (`remote_registration.py`, `auth.py`) | certificates, the two registration servers | register v1 and v2 | timeouts, retries |
| Server life cycle (`warpinator.py` 1480-1630, `server.py` 383-510) | `server`, `server_starting`, `server_state_dirty`, `Server`'s thread, the port, the global pool | start, restart, stop, quit | requests while a server starts or stops, failing starts, one global pool for many servers |
| RPC thread pool (`util.py` 40-140) | queue, count, factory thread | submit, run, shut down | three locks, none of which covers a whole operation |
| Free space monitor (`util.py` 575-700) | `available_bytes`, `_monitor_enable`, thread | start, pause, shut down, `have_enough_free` | two threads and the main loop start and pause it |
| Notifications (`notifications.py`) | one shared `GApplication` action | show, press a button | an old notification acts upon a newer op |
| Preferences, network monitor, user interface, D-Bus, launcher | GSettings, widgets | | run in the main loop, or keep no state |

The main loop calls into `RemoteMachine` and ops directly; `RemoteMachine` and
`Server` call back with `GLib.idle_add`. Calls to other machines are jobs of the
pool. `WarpApplication` knows the server by its signals only (`server-started`,
`shutdown-complete`). The monitor says `low-space`, and `WarpApplication` then
stops every incoming op and makes a new server.

What should hold of the parts, and what can go wrong at which line, is in
`PROJECT.json` (`components`, `hazards`).

## The modules

| module | models | lines of code |
|---|---|---|
| `TransferOp` | both ends of one transfer | `ops.py`, `remote.py`, `server.py`, `transfers.py` |
| `MCTransferOp` | the button bounds of its runs | |
| `TransferOpProofs` | its theorems | |
| `TaskPool` | what users of the thread pool rely on | abstract specification |
| `ThreadExecutor` | `NewThreadExecutor`, refines `TaskPool` | `util.py` 40-140 |
| `ThreadExecutorProofs` | its theorems | |
| `ServerLifecycle` | starting, restarting, stopping the server, quitting | `warpinator.py`, `server.py` |
| `ServerLifecycleProofs` | its theorems | |
| `RemoteConnection` | one `RemoteMachine`: its thread (of either api version), its status, and who starts and stops it | `remote.py` 75-376, `server.py` 140-361, `remote_registration.py` |
| `RemoteConnectionProofs` | its theorems | |
| `FileStream` | the chunks of one stream, the disk they are written to, its progress callbacks | `transfers.py`, `remote.py` 460-540 |
| `MCFileStream` | the trees its runs send | |
| `FileStreamProofs` | its theorems | |
| `FreeSpaceMonitor` | the monitor, its asker and its effect on transfers | `util.py`, `warpinator.py` |
| `FreeSpaceMonitorProofs` | its theorems | |
| `Discovery` | how services become machines: browsers, manual registrations, names, requests, the server's end | `server.py` 140-505, `remote_registration.py`, `remote.py` |
| `MCDiscovery` | the host names of its run | |
| `DiscoveryProofs` | its theorems | |
| `Notifications` | offers answered through notifications with one shared action, and in the window | `notifications.py`, `ops.py`, `remote.py` |
| `MCNotifications` | the transfers of its runs | |
| `NotificationsProofs` | its theorems | |

Every module keeps the names of the code where it can. Definitions whose comment
begins with `(slip)` are plausible mistakes in the definition that follows them.
No action uses them; `PROJECT.json` (`mutants`) names for every property the slip
that breaks it.

### TransferOp

The two ends are `"S"` (it has the `SendOp`) and `"R"` (it has the `ReceiveOp`).
Jobs and idle callbacks that wait at an end are a bag `cmd[e]`, calls under way to
it a bag `net[e]`: nothing in the code orders two jobs of the pool
(`ThreadExecutor` gives each its own thread), two calls, or a job and a callback,
and the few orders that do exist are guards (`NotifyRemoteMachine` follows
`add_op`). A handler is one step, except where it blocks:
`cancel_transfer_op_request` sets its status only after the call has returned, so
that is two steps with the reply as a message; `start_transfer_op` sets
TRANSFERRING before it calls, and reads one chunk at a time; when the stream has ended,
`receive_finished` reports the progress as finished, which sets FINISHED
(`ReceiveFinished`), and only then are the files counted (`CountFiles`), which may make it
FINISHED_WARNING; the sender's generator runs from yield to yield. `accept_transfer`,
pressed or by itself (`CheckForAutostart`), is heard by every connection of the op
(`handlers`).

Each accepted transfer has a `Stream`: the receiver's thread `thr`, the call
`call`, the sender's generator `gen` with its cancellable `evt`. Which stream the
op's `file_iterator` and `file_send_cancellable` refer to is state of its own,
because stops act on the stream these fields hold by then. `remaining` is
`op.remaining_count`, counted down by `close_current_file` as in the code: also
for a stream that ended early, never reset by a restart.

`ConnectionLost` breaks streams and loses calls; each end notices by itself
(`CancelOpsIfOffline`). `Click` enables exactly the buttons that
`refresh_buttons_and_icons` shows for a status, with a bound per button.

Simplifications:
- A file is its first chunk and its end; folders and links count as files. What
  the chunks hold, the disk, and the progress they report are in `FileStream`, with
  the idle callback of a chunk that sets FINISHED by itself (`ops.py` 59).
- A button acts on the current status; the code's buttons follow it by an idle
  callback. `op-command` goes straight to the job it leads to, except for
  restart and remove.
- Cancelling a stream and setting the status of a stop are one step.
- A removed op is offered anew (`ProcessNewOp`) only when no thread or job
  refers to the old one: two objects with one `start_time` are not modelled.
- Every loss of the network is noticed by both ends before they are online
  again (see the hazard at `remote.py` 304: the code can miss one).
- The call ends when the thread that iterates it drops the iterator: so gRPC
  does (`external` in the map).
- PAUSED is assigned nowhere. Text messages, `cancel_all_ops` and the actions
  of a notification are left out.

### FileStream

One stream from `StartTransfer` to its end, seen from inside. What is sent is a
sequence of entries (folders before what is in them, as `gather_file_info` lists
them), one of `Trees`. `SendChunk` is one turn of `read_chunks`: a folder or a link
is one chunk, a file is read in blocks until one is short, so a size that is a
multiple of the block ends with an empty chunk. `pipe` holds the chunks under way,
`Window` at most. `ReceiveData` is `receive_data` with `close_current_file`: an entry
is recognized by its path, `remaining` counted down, the mode of a file set when the
next entry begins, and the modes of folders kept in `perms`. `ReceiveFinished` leaves
them to `ApplyFolderPermissions`, one turn of its loop each, the last folder first, and
`PermissionsApplied` reports the progress as finished, which sets FINISHED, before
`TransferFinished` says what comes of the count. A stop that comes in between finds
`file_iterator` None: it sets a status and stops nothing. `disk` maps every path to what is there:
its kind, its data as a sequence of (entry, chunk) pairs, so that two files cannot be
taken for one another, and whether its mode locks it; nothing can be created below a
locked folder (`above` are all the folders that a path leads through), nor a chmod pass
through it, and a mode that cannot be set is passed over. An error of the receiver, of the sender, of
the network, or a stop may come at any point, and `Cleaned` removes the toplevel of
the last entry, as in the code.

At the beginning the disk holds any part of what an earlier transfer of the same
selection can have left (`Earlier`, `Before`), with its modes or without. `rm_any` passes
over every error: `os.remove` and `rmtree` cannot take anything out of a folder that is
locked, and `rmtree`, which goes through a folder in no particular order, gives up at the
first one it meets, so some of what is beside it may be gone and some not (`StopsAt`,
`Stays`). `CleanExistingFiles` and `Cleaned` remove toplevels so; `left` records that
something was there when the stream began.

`UpdateProgress` is the idle callback of a chunk; the one that reaches the total
may set FINISHED (if two seconds have passed since the last report), also after the
receiving thread has said something else: `early` records it.

Simplifications:
- Where `TransferOp` has statuses of two ends, this has one: that of the
  `ReceiveOp`. A stop of either end arrives as `CancelCall`.
- Size is what will be read: a file that changes while it is sent, time stamps and
  the sender's progress are left out. Compression is its failures (`CompressionFails`
  aborts the call, `DecompressionFails` raises before the chunk is received); chunks
  without bytes pass both as they are. So are paths that no sender of
  this program sends (they are refused, which is `WriteError` here).
- A locked folder with nothing in it can be removed: its mode lets nobody write to it or
  search it, and whoever sent it could list it.

### ThreadExecutor and TaskPool

`submit` is three steps (test, put, notify), the factory waits, checks, gets and
spawns, a worker runs, counts down and pokes. What a lock covers is one step.
`TaskPool` says what its users rely on: a task is refused or accepted, runs at most
once, not after the pool has closed; if the pool stays open it does run.
`ThreadExecutor` maps its state onto that (`Phase`, `TaskState`), with safety and
with fairness (`Pool!FairSpec`), where `MayHang` are the tasks that may raise: they
are never counted down, and so hang as far as the pool can see.

### ServerLifecycle

A callback of the main loop is one step, the thread of a server a chain of
phases: starting, advertising, running, stopping, closed, joining, ended.
`Server.run`'s signals are queued idle calls. `new_server`, which half the program
calls, is an operator: it does nothing while the program restarts, marks
`server_state_dirty` while a server is starting, and otherwise stops the running
server or arms the timer of `check_save_folder`. Settings are numbers in the order
in which they came; a server has those of its making.

Simplifications: making the pool, binding the port and clearing the keepalive
event are one step; so are the parts of `start_zeroconf` and of stopping. A
failing check of the save folder repeats and is left out. The one-second timer
fires after the thread that said `shutdown-complete` has taken its next step
(`Prompt`): the thread needs microseconds, the timer a second; without that
assumption an old thread could close the pool of the next server, and the hazard at
`server.py` 466 says so. The kill of the process ten seconds after quitting is
left out.

### RemoteConnection

One `RemoteMachine`, of a peer whose api `version` is 1 or 2. `RemoteThread(i)` is
its `i`-th thread, in steps from one blocking call to the next. Of version 2, it
clears the event, waits for the channel, for the peer's answer to
`WaitingForDuplex`, then for the event; `Retry` and `EndThread` are the test of the
loop. Of version 1, it pings (`Ping`), asks whether the peer has connected back
(`DuplexAnswered`, `NoDuplex`), and pings on; when a ping fails it ends (`Leave`) or
starts over with the latest certificate (`PingFailed`), which no status tells of: what
was being sent is `Stranded`. `Restart(c)` is `shutdown` and,
for those who restart, `start_remote_thread`, in the thread of the caller `c`: set
the event, join, forget the thread, start another. Callers are `add_service`
(zeroconf's thread), a manual registration, `Server.run` when it stops, and the
callback of a channel that is not READY any more. Nothing keeps them apart, so
`mishaps` records what can go wrong between them: a join that times out
(`overrun`), an event that a thread which had just begun cleared again (`undone`),
a thread that is forgotten while it lives (`forgotten`), two callers at once
(`crossed`). An answer to `GetRemoteMachineInfo` sets ONLINE whenever it is dealt
with, also after the connection (`late`). The properties say what holds as long as
these do not happen, and the hazards name the lines where they do.

`set_remote_status` replaces the status that waits for the main loop:
`pending` holds one at most, `SetStatusCb` takes it and cancels what is being sent
over a lost connection (`op`). This is what `CancelOpsIfOffline` of `TransferOp`
does to one transfer.

Simplifications:
- The peer is reachable or not, its machine for us is ready or not, and it has a
  certificate with a number; all change at will. A peer that is reachable and
  ready answers within the timeouts; the retries of two machines against each
  other are not modelled, nor is the half second in which a thread in its online
  loop notices the event.
- A registration is its result: `RegisterV1` and `RegisterV2` return what the callers
  of `register` compare with `CertProcessingResult`, where True equals `CERT_INSERTED`
  and neither False nor None equals `FAILURE`.
- A new machine is made by zeroconf's thread or by a manual registration, not by both
  at once: `Discovery` has that.
- Address, port and version of the peer do not change. Of `has_zc_presence`, only
  version 1 takes notice.

### FreeSpaceMonitor

Free space is a number of units above the reserve. A query of the disk and the
use of its result are two steps, for the thread and for the one who asks
`have_enough_free`, and the disk changes at will. Several queued emissions of
`low-space` count as one. `join(5)` may come back at any time.

`HandleLowDiskSpace` does nothing while a server is `starting`; otherwise `CancelAllOps`
emits a command to the transfer (`stopping`), which a job of the pool carries out
(`StopTransfer`), and a new server is begun, unless the program is to be restarted. It
passes over a machine that is not `online`, and so does the count of `RemoteOpsChanged`
that starts or pauses the monitor. `online` and `starting` change at will
(`MachineChanges`, `NewServer`, `ServerStarted`): what is between is in `RemoteConnection`
and `ServerLifecycle`. `unheard` records that a transfer was passed over, until a change of
an op starts the monitor again.

### Discovery

Two `Browser` threads and the threads in `Manual` make and renew machines of several
services. A call of `c` goes from one wait to the next: `Begin` looks the ident up in
`machines` (`BeginNew`, or `BeginKnown` for one that is there), `EnsureUniqueHostname`
searches a display name, `Register` enters the request in `active`, `Answered` is the
end of the waiting thread, `ProcessRemoteCert` stores or refuses the certificate,
`Check` tests whether the server is shutting down, `List` enters the machine and starts
its thread. Only browsers exclude each other (`AddService`); nothing excludes the others.

`EnsureUniqueHostname` is one pass over the dictionary or its end: `seen` holds the
keys as they were when the pass began, so a machine that is listed meanwhile makes the
iteration raise (`ListChanged`), which ends a browser's thread for good.
`active_registrations` has one entry for an ident: `Requested` takes the place of
another request, and `EndRequest` deletes whatever is there. The end of `Server.run` is
four steps (`Shutdown`, `ShutdownRegistrations`, `DropRegistrar`, `CloseMachines`)
between which callers go on.

History variables keep apart what the code orders and what it does not: `beside` holds
the pairs of objects that were made at the same time, `doubled` the requests that met
another for the same ident, `doomed` those that were waiting when all were cancelled,
`overtaken` the machines whose caller had passed `Check` when the server closed. The
properties make exceptions of these and of nothing else, and each exception is a
hazard with its line.

Simplifications:
- A host name is a sequence of numbers, and `"%s[%d]"` appends one (`Candidate`): two
  names are equal exactly if the strings are, for host names without other brackets.
- A connection thread is only seen to be started, and all machines are of version 2;
  `RemoteConnection` has the thread, version 1 and the results of `register`.
- `remove_service` is left out: for version 2 it only takes the presence away.

### Notifications

Offers (`Offer`, `OfferAgain`), ends (`EndsTold`, `EndsQuietly`), jobs of the pool
(`StartTransferOp`, `CancelTransferOpRequest`) and the user (`Press`,
`AnswerInWindow`) put callbacks in `idle`, the queue of the main loop, which is first
in first out; `RunIdle` runs the one at its head. `shown[r]` is what the desktop shows
under the ident of remote `r`; `handlers` are the connections to the action
`notification-response`, each with the op of its notification. `Respond` runs them
all: every button of every notification activates the same action, and each handler
acts upon its own op, then disconnects itself. It acts by the op's signal `op-command`,
which `add_op` connects, two callbacks after the notification was shown: that of
`emit_initial_setup_complete` (`InitialSetupComplete`) queues that of `add_op` (`AddOp`).
What is emitted before is heard by nobody (`Emitted`), and the handler is gone.

`consents` and `starts` count acceptances and streams; `lost` are the ops whose
notification was pressed before they were listed, until they are accepted in the window. `beside` says that a
notification was shown before the one of another op had been pressed, and `deaf` are
the ops whose notification was on the screen while another was pressed. Until then the
properties hold; after it a transfer starts that nobody accepted, which is the finding
of `notifications_mixed`, and the buttons of the other notification do nothing.

Simplifications: a transfer that was stopped and offered again shows no notification,
as in the code; several kinds of notifications that only raise the window are one
(`tell`), and their handlers change nothing; showing notifications can be turned off at
any time.

## The runs

| run | question | bounds |
|---|---|---|
| `transfer_crossing` | do the ends agree, and name no one who did nothing, when answers, stops and failures cross? | 2 files, 1 stream, each button but restart and the sender's remove once, all failures, no loss |
| `transfer_loss` | is the receiver ever left transferring; does its thread end; does FINISHED mean all files? | 2 files, 1 stream, accept and both stops, all failures, one loss |
| `transfer_restart` | does every stream have its accept, and does the receiver come to rest, after stop, restart, remove, accept again? | 2 files, 2 streams, accept twice, stop, restart and remove at either end once |
| `stream_copies` | is what FINISHED says a copy; does a failure leave no parts; is an undisturbed stream finished; do both ends end? | 8 trees of 2 to 5 entries, over any part of an earlier transfer of the same, with its modes or without: nested read-only folders, sizes below, at and above the block, links, files of one name, folders of one name that become one, of which the later is read-only or not; 2 bytes a block, 3 chunks under way; all faults |
| `executor_tasks` | is the executor a task pool, also a fair one? | 3 tasks, two may raise, a shutdown at any time |
| `server_restarts` | one server, an open pool, no forgotten change, a quit that ends? | 3 changes, 1 low disk, both failures, a receiving folder that changes |
| `remote_restarts` | is there one thread at a time, and is its status the one that is shown? | both versions, 2 threads, one announcement, one manual registration, one change of the peer |
| `remote_connects` | does a lost connection end its transfers, a thread connect, the end of the server end the threads? | both versions, 2 threads, 2 announcements, one change of the peer |
| `free_space_watched` | does a disk that stays full stop the transfer, unless it is passed over; is the monitor paused when nothing is received? | 0 or 1 unit, failing queries, one transfer, machines and servers that change at will |
| `discovery` | does a service get one machine, a name one machine; do the browsers go on, does a search end; does the server's end stop and cancel everything? | 2 browsers, 1 manual registration, 3 services of which two announce one host name and the third what the second will be called, 3 calls |
| `notifications` | does what is accepted start, once for each acceptance; do buttons work; is an answered offer withdrawn? | 2 transfers of one remote or two, 2 offers, 2 answers |

Two files are enough to have a first, a middle (closed by the next one's first
chunk) and a last file; one button press each is enough for every pair of crossing
calls; two streams for a stale `file_iterator`, cancellable, count or job of the
first to meet the second; three changes for one that comes while a server starts,
one while it stops and one after. Three tasks give a queue with two elements and
a running worker. Two threads of a machine are the least that can exist side by
side; the second is started by another caller or by a later announcement, after the
one change of the peer broke the first connection. Three calls of `discovery` are two that make one service or two
services of one name at once, and a third that renews, or that meets what they left;
names and browsers that are alike may change places (`SYMMETRY Alike`; the run checks
invariants only). Two offers are two transfers at once, or one that is offered again;
two answers, one to each or two to one. Whether nothing is free or something is all that
the monitor tells apart, so one unit is enough. A block of two bytes
is the smallest with a short, a full and an empty last chunk, three chunks under way
hold the end of one entry, a whole one and the beginning of a third. Deadlock is not
checked: a transfer that is over, a pool that is
shut down and a program that has quit do stop.

One run must find a violation: the code does not do what it says. It is the finding
of `PROJECT.json`:

| run | the code says | what happens |
|---|---|---|
| `notifications_mixed` | "every transfer initiated must first be approved by the receiving user" (`org.x.Warpinator.gschema.xml` 32) | two offers on the screen: Accept on one starts both |

Met while modelling, and visible in the models, but without a run of their own:
`remaining_count` is not reset by a restart, so that a restarted transfer of the right
size fails with "File count exceeds original request size" (`Closed` in
`TransferOp`; the properties about counts speak of an op that was started once); a sender that gives up may
end its stream in the normal way, and the partial file stays, though the code removes
what "the transfer" left if it "stops prematurely" (`FileStream`); a link whose path
is that of an earlier file of the transfer, as in two selected folders of one name,
takes the place of the file, and the transfer says FINISHED (`Replaced`); where two
selected folders of one name become one, the mode of the later is set first, and if it
locks the folder, what the earlier has in it cannot get its mode, which is only warned
about (`transfers.py` 297: `FinishedIsCopy` speaks of modes where the folders above are
the only ones of their name, `AllAlone`); an accept that is pressed twice before its
thread starts makes two streams, and if the first cannot write, the stop it sends
cuts the second short, which the receiver takes for a complete one with too few files:
the sender says FAILED, the receiver FINISHED_WARNING (so `AgreedOutcome` speaks of an
op with one stream); `register_v2`
returns None for a machine that does not answer, which is not the FAILURE its caller
tests for: the machine is listed without a thread, and shown connecting for ever
(`RegisterV2`, `List`); the notification of a transfer's end is withdrawn by the status callback
queued right behind it, if the op's offer was ever shown (`EndsTold`,
`StatusChanged`); a task that raises is never counted down, so that the pool's factory waits for it
for ever ("Shutting down - waiting on workers", `util.py` 84) and `shutdown` does not
return (`MayHang` in `TaskPool`); `low-space` is dropped while a server is starting, though
the monitor has paused itself, and a machine that is not ONLINE at that moment is passed
over: its transfer goes on unwatched until a change of an op starts the monitor again
(`unheard` in `FreeSpaceMonitor`); an answer that is given on a notification before `add_op`
has run is lost, and the buttons are dead (`lost` in `Notifications`); a read-only folder
with something in it can be received once, when permissions are kept: the second time
`rm_any` cannot remove it, which is only logged, and the stream fails without any fault
(`left` in `FileStream`); a stream that came short is shown FINISHED until its files are
counted (`CountFiles` in `TransferOp`); an op that is removed while it is being offered again is connected twice, and one
accept starts two streams (`rewired` in `TransferOp`); a machine of version 1 that starts its loop over is shown
ONLINE all the time, and what it was sending stays TRANSFERRING (`Stranded` in
`RemoteConnection`); after a start of the server
that failed, changes marked to be checked later never are (`failed` in
`SettlesOnLatest`); a query of the disk that fails counts as a full disk, though
the log says "allowing all transfers" (`Store` in `FreeSpaceMonitor`).

### Fairness

Weak fairness everywhere, for: jobs and idle callbacks that are queued, calls that
were delivered, and threads that can go on. The main loop dispatches what is
ready, the pool gives every job a thread (that is `executor_tasks`), gRPC delivers
calls while the network is up. Nothing is assumed of the user, of the disk, of
when the network goes and whether it comes back, of a write that fails, or of a
task that may raise: no thread is saved by an error. In `RemoteConnection`
registrations end (the call has a timeout), and gRPC reports a broken channel (its
keepalive pings). For
`free_space_watched` the job that stops a transfer finds a worker. For
`server_restarts` the save folder is assumed to become good, and the stop of the
gRPC server and zeroconf to come to an end. `Notifications` assumes only that the main
loop runs its callbacks (`RunIdle`, `InitialSetupComplete`) and the pool the job of each accepted op
(`StartTransferOp`); nothing of the user or the remote. `Discovery` states no
fairness and has no liveness property: that a search for a name ends is an invariant
that bounds its passes.

The type invariants of `ThreadExecutor`, `ServerLifecycle` and `RemoteConnection` are proved
and not among the properties of a run.

## The proofs

The theorems hold for every value of the constants: any number of files, streams,
clicks, losses, tasks, changes. Their assumptions are the named `ASSUME`s of the
modules (a positive number of files, sets that are subsets of the known failures).

- `TransferOpProofs`
  - `TypeCorrect`: `TypeOK` is inductive; it is proved by the parts of the state.
  - `StreamsAccepted`: `EveryStreamAccepted`. The invariant `AcceptInv` counts: with
    permission required and an op connected once, started streams plus waiting
    `start` jobs are at most the accepts, streams start in order, and `handlers`
    is at most one. Two places add a start job: the click, counted, and
    autostart, which the preference forbids.
  - `StatusAuthored`: `StatusHasAuthor`. `PressCarried` follows the press from the
    job to the call: a stop job of an op without an error, a `Stop` call, a
    `Cancel` call each imply the button was pressed, or an error that will change
    the status the peer sees.
  - `NeverStuck`: `ReceiverNotStuck`. What can end a stream and leave no thread and no
    status is the job that cancels it after a lost connection; `StuckInv` says that
    this job waits only after a loss, and then, if the op was started once, it has
    another status already.
  - `FinishedHasFiles`: `FinishedCountsFiles`. `CountInv` relates the two counts while
    the only stream receives: `Closed(1) = N - got[1]`, from `remaining = N` until it
    begins. It needs no induction over files, since every step moves both. Between the
    report of the progress and the count `remaining` is what is missing, so the FINISHED
    that stays has none.
  - `BothWait`: `WaitingAgrees`. While no connection was lost and nothing is restarted,
    an offer is at one of the stages from the click to the receipt of its list
    (`WaitInv`): at each it is said which jobs and calls may be under way and what either
    end shows (`OfferMade`, `OfferReceived`), and from the receipt on that an end that
    waits alone has an answer coming to it (`Answered`): a refusal, a stop, or the
    call of a stream that was accepted.
  - `OutcomeAgrees`: `AgreedOutcome`. The only stream of an op nobody interferes with has
    one course, from the accept to the end of its two threads (`CourseInv`): what the
    generator has sent and what it has not, which error either end has met, and
    which job or call carries it to the other, fix the pair of statuses that comes of it.
    It rests on `WaitInv` for what is before the accept and on `CountInv` for the files.
- `FileStreamProofs`, for any trees, block size, window and faults. All four rest on one
  relation between the two machines: the chunks under way follow each other up to where
  the generator is (`InOrder`), so there is a chunk that the receiver gets next. The first
  two are about entries with different paths: there the disk holds what comes before
  that chunk, nothing of what comes after, and no folder that is locked yet (`Written`,
  `Begun`).
  - `NoPartsLeft`: `FailureLeavesNoParts`. If `rm_any` left nothing at the beginning, no
    folder is locked before the end, so the later one fails nowhere either. Whatever breaks a stream off, there is an entry
    with copies before it and nothing after it, and its toplevel is what is removed
    (`CleanedParts`). That the toplevels follow one another is `TopsAssumption`.
  - `UndisturbedStream`: `UndisturbedFinishes`. There is always room for the next chunk
    (`RoomFacts`), and `remaining` counts the entries that are not closed (`CountFacts`),
    so it is zero when all was sent and taken. If `rm_any` left something, some of it is in
    a folder that was left locked, where an entry of the stream goes (`Barring`): whatever
    is the first to meet it cannot be placed, and the stream reaches its end only if the
    sender gave up before.
  - `FinishedCopies`: `FinishedIsCopy`, for entries whose paths may be alike. `remaining`
    is never below the number of the entries that are left (`Counted`), and above it for
    good once two were taken for one, so a count of zero says that none was. As long as
    none was (`OneByOne`) the disk holds the entries before the one that is current,
    except for what a link has replaced, the files with their modes, and `perms` holds
    the folders in their order (`Copied`); at the end, whatever is still in `perms` is
    open, and whatever is out of it has its mode (`FolderModes`), from the last folder to
    the first. No step folds over the list, so this needs no induction.
  - `TypeCorrect`: `TypeOK`, the bounds of the two counts included. Callbacks that have
    run and that wait are at most the chunks with bytes that were taken (`Counting`), and
    these at most `Total`. That `FullUpTo` is the sum its recursive definition says, and
    grows, is proved by induction: a set of numbers that is not empty has a least one
    (`LeastNumber`, from the well-foundedness of `<` on the naturals), so a set that holds
    0 and with each number the next holds them all (`UpTo`).
- `ThreadExecutorProofs`
  - `TypeCorrect`: `count` is a natural number because it is the cardinality of the
    set of the workers that were spawned and not counted down (`CountIsCounted`),
    which needs `QueueIsFresh`: a queued task has no worker, no task is queued twice.
  - `ImplementsTaskPool`: every step of the executor is a step of `TaskPool` or a
    stutter; spawning is `Begin`, whose guard (the pool is not closed) and the
    guard of `Close` (nobody runs) come from `CountIsCounted`.
- `ServerLifecycleProofs`
  - `NeverTwoServers`: `OneServer`. Only the current server can be up
    (`OnlyCurrent`); while the timer or the continuation is pending the current
    one is over (`Replacing`, `OneWait`), because `shutdown-complete` restarts the
    program only if it is connected (`HookedIsReplaced`, `NotHookedYet`, `Signals`).
  - `PoolStaysOpen`: `ServerHasPool`, from `OwnPool`.
  - `TypeCorrect`.
- `RemoteConnectionProofs`
  - `TypeCorrect`.
  - `NeverTwoThreads`: `OneThread`. Without a mishap a live thread is
    `remote_thread` (`AliveIsCurrent`) and a caller past its join has joined a
    thread that ended (`JoinedEnded`), so whoever starts one finds none alive.
  - `StatusStaysTrue`: `StatusIsTrue`, inductive once at most one thread lives: the
    others are not started or have ended and set nothing.
- `FreeSpaceMonitorProofs`
  - `TypeCorrect`, and `PausedWhileIdle`: `PausedWhenIdle`, which is inductive as it
    stands: every end of the receiving queues a callback, and only that callback, a
    start and the shutdown enable the monitor.
- `NotificationsProofs`
  - `TypeCorrect`, with the bounds it rests on (`Inv`).
  - `ButtonsAlwaysWork`: `ButtonsWork`, for any number of transfers and remotes.
  - `EachApproved`: `ApprovedEach`. What an acceptance becomes is counted: the callbacks
    and jobs that carry it and the streams that were started are never more than the
    acceptances (`Owed`). A press adds one callback only, because an op is asked for once
    (`AsksOnce`) and, while no notification is shown beside that of another op, the
    action has one handler (`OneHandler`).
  - `NeverStaleOffer`: `NoStaleOffer`. It becomes inductive by saying of a
    notification in the queue what it says of one that is shown (`AsksFollowed`): its op
    waits, or a callback that will withdraw it comes later in the queue. That is an
    argument about positions in a first-in first-out queue (`QueueFacts`, `TakeHead`).
- `DiscoveryProofs`, every property of the run `discovery`, for any services, host
  names, threads and calls. `Inv` says whose an unlisted object is (`OwnObject`) and that
  two unlisted ones are beside each other (`MakersBeside`).
  - `OneMachineEach`: `OneMachine`, from `LivePairs`: of one ident, any two
    objects that are listed or being made are beside each other and not both a
    browser's.
  - `NamesAreUnique`: `UniqueNames`. A machine that is being made and has its name
    (`NamesApart`) shares it only with those beside it, because the pass that found
    it free ran over all that were listed and none was listed since.
  - `BrowsersLive`: `BrowsersGoOn`. Only one browser is in a call (`OneBrowser`), so
    what it iterates over (`SeenSafe`) changes only by hand.
  - `CancelledStore`: `CancelledStoresNothing`. A request that had no rival for its ident
    is in `active_registrations` while it asks (`AskingActive`), hence cancelled with
    the rest.
  - `EndStopsThem`: `EndStopsAll`. After the server closed, what is still to be listed
    was recorded at that moment (`Late`).
  - `SearchComesToEnd`: `SearchEnds`. Every name that was found taken belongs to a listed
    machine, and different names to different machines (`Taken`): the passes are an
    injection into `entered`.
  - `TypeCorrect`.

Every invariant that a run checks is a theorem. Only model-checked is what says that
something happens eventually, since the prover does not reach liveness under fairness:
`ReceiverThreadEnds`, `AcceptedStarts`, `StreamEnds`, the fair refinement
(`IsFairTaskPool`), `SettlesOnLatest`, `QuitEndsIfSettled`, `LostOpsFail`,
`LiveThreadConnects`, `EndsWithServer` and `FullDiskStopsTransfers`. The theorems of the
library about induction take an operator as a parameter, which the provers cannot
instantiate; where induction over data is needed it goes by sets, as in `FileStreamProofs`.

## Not modelled, and next

In this order:
1. Pools with a limit. With bubblewrap or no sandbox the jobs run in a
   `ThreadPoolExecutor` of `get_remote_pool_max_threads` workers (`util.py` 51), and a
   job that receives holds one until its stream ends: a stop may wait behind the
   streams it is to stop (`remote.py` 340). `TransferOp` gives each job a thread of its
   own, as `NewThreadExecutor` does. So do several streams share the threads of the
   server's pool.
2. In `FileStream`: the sender's progress, and a file that changes while it is read.
3. In `Discovery`: the two servers that answer the registrations of others, a peer that
   changes its address or version, `remove_service`.
4. An abstract specification of consent (no stream without an accept) that
   `TransferOp` implements, and the pure helpers (`relpath_from_uri` and the path
   test) against a reference definition.

Left out for good: widgets, formatting, GSettings, D-Bus, the launcher and its
sandbox, cryptography, and the bundled grpcio, protobuf and zeroconf.

## Running

    tlc -config TransferLoss.cfg MCTransferOp
    tlc -config StreamCopies.cfg MCFileStream
    tlc -config ExecutorTasks.cfg ThreadExecutor
    tlc -config RemoteConnects.cfg RemoteConnection
    tlc -config DiscoveryNames.cfg MCDiscovery
    tlc -config NotificationsAnswered.cfg MCNotifications
    tlc -config NotificationsMixed.cfg MCNotifications
    tlapm TransferOpProofs.tla
    tlapm FileStreamProofs.tla
    tlapm DiscoveryProofs.tla

Each run takes at most about two and a half minutes on two workers, each module of
proofs at most a few minutes.
