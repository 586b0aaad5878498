--------------------------- MODULE RemoteConnection ---------------------------
(***************************************************************************)
(* One RemoteMachine: how it is discovered, and the thread that connects   *)
(* to it, waits until the peer has connected back, and stays while the     *)
(* channel does: remote_thread_v2, or remote_thread_v1 for peers of before,*)
(* which pings the peer instead of watching the channel.  The thread is    *)
(* stopped by shutdown() and a new one started by                          *)
(*   - the zeroconf thread, in Server.add_service (one at a time: it holds *)
(*     browser_mutex),                                                     *)
(*   - a manual registration, in handle_manual_service_registration;       *)
(* and stopped for good by                                                 *)
(*   - Server.run when the server stops,                                   *)
(*   - a thread of gRPC when the channel is READY no more (version 2).     *)
(* All of them share an event and remote_thread, without a lock.           *)
(* The status is set by an idle callback, and a status that is set before  *)
(* the callback has run takes the place of the one that waits.             *)
(*                                                                         *)
(* Certificates are numbered; a channel is made with the one that was      *)
(* cached when its thread began, and comes up if it is still the peer's.   *)
(* A peer that is reachable and ready answers before the timeouts.         *)
(*                                                                         *)
(* A definition whose comment begins with (slip) is a plausible mistake in *)
(* the definition that follows it; no action uses it.                      *)
(***************************************************************************)
EXTENDS Integers, FiniteSets

CONSTANTS
    MaxThreads,     \* bound: how often a thread is started
    MaxAnnounced,   \* bound: how often the peer's service is announced
    MaxManual,      \* bound: manual registrations
    MaxChanges,     \* bound: how often the peer changes
    Refusals,       \* how a registration may fail
    Versions        \* api versions a peer may have

\* register_v2 returns FAILURE for a certificate it cannot decrypt, and None if
\* the peer did not answer or the registration was cancelled.
ASSUME RefusalsAssumption == Refusals \subseteq {"FAILURE", "None"}
ASSUME BoundsAssumption == /\ MaxThreads \in Nat
                           /\ MaxAnnounced \in Nat
                           /\ MaxManual \in Nat
                           /\ MaxChanges \in Nat
ASSUME VersionsAssumption == Versions \subseteq {1, 2}

Thread == 1 .. MaxThreads

NoThread == 0

\* A transfer whose connection has gone without any status to tell of it
Stranded == -1

\* Who calls RemoteMachine.shutdown.
Zeroconf == <<"zeroconf", 0>>
Manual == <<"manual", 0>>
Server == <<"server", 0>>
Channel(i) == <<"channel", i>>

Starter == {Zeroconf, Manual}

Caller == Starter \cup {Server} \cup {Channel(i) : i \in Thread}

\* A join that times out though the thread will end, one that times out on a
\* thread that undid the event, a remote_thread that is set to None though it is
\* not the thread that was joined, two callers at once, and an answer to
\* GetRemoteMachineInfo that is dealt with when its connection has gone.
Mishap == {"overrun", "undone", "forgotten", "crossed", "late"}

RemoteStatus == {"ONLINE", "OFFLINE", "INIT_CONNECTING", "UNREACHABLE",
                 "AWAITING_DUPLEX"}

VARIABLES
    version,    \* the api version of the peer
    up,         \* the peer can be reached
    ready,      \* its RemoteMachine for us is AWAITING_DUPLEX or ONLINE
    theirs,     \* the number of its certificate
    changes,    \* how often that changed
    announced,  \* how often the peer was announced
    manuals,    \* how often a manual registration came
    closing,    \* server_thread_keepalive is set
    listed,     \* the machine is in remote_machines
    present,    \* has_zc_presence
    cert,       \* the certificate in remote_certs, or 0
    pc,         \* pc[c]: where caller c is
    target,     \* target[c]: the thread that c joins
    mishaps,    \* history: what went wrong between callers of shutdown
    keepalive,  \* channel_keepalive is set, or ping_timer for version 1
    current,    \* remote_thread, or NoThread
    thr,        \* thr[i]: where thread i is
    used,       \* used[i]: the certificate it connects with
    chan,       \* chan[i]: its channel, as far as the thread deals with it
    status,     \* the status of the machine
    asked,      \* threads whose call of GetRemoteMachineInfo is not dealt with
    pending,    \* the status that the idle callback will set, or "none"
    op          \* the thread whose connection a SendOp is TRANSFERRING on,
                \* NoThread or Stranded

peer == <<version, up, ready, theirs, changes>>
events == <<announced, manuals>>
known == <<listed, present, cert>>
callers == <<pc, target>>
threads == <<keepalive, current, thr, used, chan>>
shown == <<status, asked, pending, op>>
vars == <<peer, events, closing, known, callers, mishaps, threads, shown>>

TypeOK ==
    /\ version \in Versions
    /\ up \in BOOLEAN
    /\ ready \in BOOLEAN
    /\ theirs \in Nat \ {0}
    /\ changes \in 0 .. MaxChanges
    /\ announced \in 0 .. MaxAnnounced
    /\ manuals \in 0 .. MaxManual
    /\ closing \in BOOLEAN
    /\ listed \in BOOLEAN
    /\ present \in BOOLEAN
    /\ cert \in Nat
    /\ pc \in [Caller -> {"idle", "register", "set", "join", "clear"}]
    /\ target \in [Caller -> Thread \cup {NoThread}]
    /\ mishaps \subseteq Mishap
    /\ keepalive \in BOOLEAN
    /\ current \in Thread \cup {NoThread}
    /\ thr \in [Thread -> {"none", "starting", "channel", "ping", "duplex",
                            "online", "backoff", "leaving", "ended"}]
    /\ used \in [Thread -> Nat]
    /\ chan \in [Thread -> {"none", "ready", "broken"}]
    /\ status \in RemoteStatus
    /\ asked \subseteq Thread
    /\ pending \in RemoteStatus \cup {"none"}
    /\ op \in Thread \cup {NoThread, Stranded}

Init ==
    /\ version \in Versions
    /\ up = TRUE
    /\ ready \in BOOLEAN
    /\ theirs = 1
    /\ changes = 0
    /\ announced = 0
    /\ manuals = 0
    /\ closing = FALSE
    /\ listed = FALSE
    /\ present = FALSE
    /\ cert = 0
    /\ pc = [c \in Caller |-> "idle"]
    /\ target = [c \in Caller |-> NoThread]
    /\ mishaps = {}
    /\ keepalive = FALSE
    /\ current = NoThread
    /\ thr = [i \in Thread |-> "none"]
    /\ used = [i \in Thread |-> 0]
    /\ chan = [i \in Thread |-> "none"]
    /\ status = "INIT_CONNECTING"
    /\ asked = {}
    /\ pending = "none"
    /\ op = NoThread

Goto(c, l) == pc' = [pc EXCEPT ![c] = l]

\* set_remote_status: what waits is replaced.
SetRemoteStatus(s) == pending' = s

Alive(i) == thr[i] \notin {"none", "ended"}

-----------------------------------------------------------------------------
(***************************************************************************)
(* The peer.                                                               *)
(***************************************************************************)

\* It goes, comes back, restarts with a new certificate, or its own machine for
\* us does or undoes its half of the handshake.  A channel to a peer that went,
\* or to the process before its restart, is broken.
PeerChanges ==
    /\ changes < MaxChanges
    /\ changes' = changes + 1
    /\ \/ up' = ~up /\ UNCHANGED <<ready, theirs>>
       \/ ready' = ~ready /\ UNCHANGED <<up, theirs>>
       \/ up' = TRUE /\ ready' = FALSE /\ theirs' = theirs + 1
    /\ chan' = [i \in Thread |->
                  IF chan[i] = "ready" /\ (~up' \/ theirs' # theirs)
                    THEN "broken" ELSE chan[i]]
    /\ UNCHANGED <<version, events, closing, known, callers, mishaps, keepalive,
                   current, thr, used, shown>>

-----------------------------------------------------------------------------
(***************************************************************************)
(* Server: discovery, manual registration, and the end of Server.run.      *)
(***************************************************************************)

\* add_service up to the registration.  A machine that is connecting is left
\* alone, and one that is listed may have been discovered less than 15 s ago.
AddService ==
    /\ pc[Zeroconf] = "idle"
    /\ up
    /\ announced < MaxAnnounced
    /\ listed \/ pc[Manual] = "idle"
    /\ announced' = announced + 1
    /\ \/ listed /\ UNCHANGED pc
       \/ /\ ~(listed /\ status \in {"INIT_CONNECTING", "AWAITING_DUPLEX"})
          /\ Goto(Zeroconf, "register")
    /\ present' = (present \/ listed)
    /\ UNCHANGED <<peer, manuals, closing, listed, cert, target, mishaps,
                   threads, shown>>

\* Only remote_thread_v1 looks at has_zc_presence.
RemoveService ==
    /\ version = 1
    /\ listed
    /\ present
    /\ present' = FALSE
    /\ UNCHANGED <<peer, events, closing, listed, cert, callers, mishaps, threads,
                   shown>>

\* process_remote_cert, for the certificate the peer has sent
ProcessRemoteCert ==
    CASE cert = 0                    -> "CERT_INSERTED"
      [] cert # 0 /\ cert = theirs   -> "CERT_UP_TO_DATE"
      [] cert # 0 /\ cert # theirs   -> "CERT_UPDATED"

\* register_v2, with result r
RegisterV2(r) ==
    \/ /\ up
       /\ r = ProcessRemoteCert
       /\ cert' = theirs
    \/ /\ r \in Refusals
       /\ UNCHANGED cert

\* register_v1 returns True, which equals CERT_INSERTED, or False, which is not
\* FAILURE any more than None is.
RegisterV1(r) ==
    \/ /\ up
       /\ r = "CERT_INSERTED"
       /\ cert' = theirs
    \/ /\ Refusals # {}
       /\ r = "None"
       /\ UNCHANGED cert

\* Registrar.register
Register(r) == IF version = 1 THEN RegisterV1(r) ELSE RegisterV2(r)

Result == {"CERT_INSERTED", "CERT_UP_TO_DATE", "CERT_UPDATED", "FAILURE", "None"}

NeedsThread(r) ==
    \/ r \in {"CERT_INSERTED", "CERT_UPDATED"}
    \/ r = "CERT_UP_TO_DATE" /\ (~listed \/ status = "OFFLINE")

\* The rest of add_service: "Register failed, or ..." and "rejoining existing
\* connect" are its early returns.
ServiceRegistered ==
    /\ pc[Zeroconf] = "register"
    /\ \E r \in Result :
          /\ Register(r)
          /\ IF r = "FAILURE" \/ closing \/ (listed /\ status = "ONLINE")
               THEN Goto(Zeroconf, "idle") /\ UNCHANGED <<listed, present>>
               ELSE /\ listed' = TRUE
                    /\ present' = TRUE
                    /\ Goto(Zeroconf, IF NeedsThread(r) THEN "set" ELSE "idle")
    /\ UNCHANGED <<peer, events, closing, target, mishaps, threads, shown>>

\* register_with_host, here or on the peer, and handle_manual_service_registration.
\* A machine is not made here while zeroconf's thread makes it, too.
ManualRegistration ==
    /\ pc[Manual] = "idle"
    /\ version = 2
    /\ up
    /\ manuals < MaxManual
    /\ manuals' = manuals + 1
    /\ IF listed THEN status # "ONLINE" ELSE pc[Zeroconf] = "idle"
    /\ Goto(Manual, "register")
    /\ UNCHANGED <<peer, announced, closing, known, target, mishaps,
                   threads, shown>>

\* Whatever the status has become by now, the thread is replaced.  A machine that
\* is new has none: shutdown, which is not called then, would do no more than set
\* the event that the thread clears.
ManualRegistered ==
    /\ pc[Manual] = "register"
    /\ \E r \in Result :
          /\ Register(r)
          /\ IF r = "FAILURE" \/ closing
               THEN Goto(Manual, "idle") /\ UNCHANGED listed
               ELSE Goto(Manual, "set") /\ listed' = TRUE
    /\ UNCHANGED <<peer, events, closing, present, target, mishaps, threads, shown>>

\* Server.run: the machine is shut down with the server.
CloseServer ==
    /\ ~closing
    /\ closing' = TRUE
    /\ Goto(Server, IF listed THEN "set" ELSE "idle")
    /\ UNCHANGED <<peer, events, known, target, mishaps, threads, shown>>

-----------------------------------------------------------------------------
(***************************************************************************)
(* RemoteMachine.shutdown and start_remote_thread, in the thread of c.     *)
(***************************************************************************)

Restarting(c) == pc[c] \in {"join", "clear"}

\* Another caller that stops or replaces the thread is under way, or the server
\* has been told to stop.
Crossed(c) ==
    /\ c \in Starter \cup {Server}
    /\ \/ \E d \in (Starter \cup {Server}) \ {c} : Restarting(d)
       \/ c # Server /\ closing

\* A machine without a thread has nothing to join.
Shutdown(c) ==
    /\ pc[c] = "set"
    /\ keepalive' = TRUE
    /\ target' = [target EXCEPT ![c] = current]
    /\ Goto(c, IF current = NoThread THEN "clear" ELSE "join")
    /\ mishaps' = mishaps \cup (IF Crossed(c) THEN {"crossed"} ELSE {})
    /\ UNCHANGED <<peer, events, closing, known, current, thr, used, chan, shown>>

\* (slip) the thread is not waited for
JoinNothing(c) ==
    /\ pc[c] = "join"
    /\ Goto(c, "clear")
    /\ UNCHANGED <<peer, events, closing, known, target, mishaps, threads, shown>>

\* join(10) gives up on a thread that has just begun a wait of its own (4 s for
\* the channel, 10 s for the peer), or for which the event is clear again.
Join(c) ==
    LET i == target[c]
    IN  /\ pc[c] = "join"
        /\ \/ ~Alive(i) /\ UNCHANGED mishaps
           \/ /\ keepalive
              /\ thr[i] \in {"channel", "duplex"}
              /\ mishaps' = mishaps \cup {"overrun"}
           \/ /\ ~keepalive
              /\ Alive(i)
              /\ mishaps' = mishaps \cup {"undone"}
        /\ Goto(c, "clear")
        /\ UNCHANGED <<peer, events, closing, known, target, threads, shown>>

\* self.remote_thread = None, without the thread that was joined
Forgotten(c) == IF current \notin {NoThread, target[c]} THEN {"forgotten"} ELSE {}

\* The end of shutdown, for those who do not start another thread
ForgetThread(c) ==
    /\ c \notin Starter
    /\ pc[c] = "clear"
    /\ current' = NoThread
    /\ mishaps' = mishaps \cup Forgotten(c)
    /\ target' = [target EXCEPT ![c] = NoThread]
    /\ Goto(c, "idle")
    /\ UNCHANGED <<peer, events, closing, known, keepalive, thr, used, chan, shown>>

\* The end of shutdown, and start_remote_thread
StartRemoteThread(c, i) ==
    /\ c \in Starter
    /\ pc[c] = "clear"
    /\ thr[i] = "none"
    /\ \A j \in Thread : j < i => thr[j] # "none"
    /\ thr' = [thr EXCEPT ![i] = "starting"]
    /\ current' = i
    /\ mishaps' = mishaps \cup Forgotten(c)
    /\ target' = [target EXCEPT ![c] = NoThread]
    /\ Goto(c, "idle")
    /\ UNCHANGED <<peer, events, closing, known, keepalive, used, chan, shown>>

\* channel_state_changed, for a state that is not READY
ChannelStateChanged(i) ==
    /\ version = 2
    /\ chan[i] = "broken"
    /\ pc[Channel(i)] = "idle"
    /\ chan' = [chan EXCEPT ![i] = "none"]
    /\ Goto(Channel(i), "set")
    /\ UNCHANGED <<peer, events, closing, known, target, mishaps, keepalive,
                   current, thr, used, shown>>

-----------------------------------------------------------------------------
(***************************************************************************)
(* remote_thread_v2, and what remote_thread_v1 shares with it              *)
(***************************************************************************)
Step(i, from, to) ==
    /\ thr[i] = from
    /\ thr' = [thr EXCEPT ![i] = to]
    /\ UNCHANGED <<peer, events, closing, known, callers, mishaps, current,
                   status, op>>

\* The thread clears the event of its predecessor, or of a shutdown that did not
\* wait for it to begin.
Begin(i) ==
    /\ Step(i, "starting", "channel")
    /\ keepalive' = FALSE
    /\ used' = [used EXCEPT ![i] = cert]
    /\ SetRemoteStatus("INIT_CONNECTING")
    /\ UNCHANGED <<chan, asked>>

Accepts(i) == up /\ used[i] = theirs

ChannelReady(i) ==
    /\ Accepts(i)
    /\ version = 2
    /\ Step(i, "channel", "duplex")
    /\ chan' = [chan EXCEPT ![i] = "ready"]
    /\ SetRemoteStatus("AWAITING_DUPLEX")
    /\ UNCHANGED <<keepalive, used, asked>>

\* Version 1 looks at the event before it waits.
ChannelTimeout(i) ==
    /\ ~Accepts(i)
    /\ Step(i, "channel", IF version = 1 /\ keepalive THEN "leaving" ELSE "backoff")
    /\ SetRemoteStatus("UNREACHABLE")
    /\ UNCHANGED <<keepalive, used, chan, asked>>

Answered(i) == chan[i] = "ready" /\ ready

\* (slip) the status stays as it was
DuplexUnreported(i) ==
    /\ Answered(i)
    /\ Step(i, "duplex", "online")
    /\ asked' = asked \cup {i}
    /\ UNCHANGED <<keepalive, used, chan, pending>>

DuplexAnswered(i) ==
    /\ Answered(i)
    /\ Step(i, "duplex", "online")
    /\ SetRemoteStatus("ONLINE")
    /\ asked' = asked \cup {i}
    /\ UNCHANGED <<keepalive, used, chan>>

\* The call fails, or the peer gives up waiting for its own RemoteMachine.
DuplexFailed(i) ==
    /\ version = 2
    /\ ~Answered(i)
    /\ Step(i, "duplex", "backoff")
    /\ SetRemoteStatus("UNREACHABLE")
    /\ UNCHANGED <<keepalive, used, chan, asked>>

\* The channel is unsubscribed from and closed; the event decides what is next.
LeaveChannel(i, from, to) ==
    /\ Step(i, from, to)
    /\ chan' = [chan EXCEPT ![i] = "none"]
    /\ UNCHANGED <<keepalive, used, asked>>

\* (slip) a thread that has failed to connect tries for ever
RetryAlways(i) ==
    /\ LeaveChannel(i, "backoff", "channel")
    /\ UNCHANGED pending

\* (slip) it tries once
RetryNever(i) ==
    /\ LeaveChannel(i, "backoff", "ended")
    /\ UNCHANGED pending

\* wait(10) is over.
Retry(i) ==
    /\ version = 2
    /\ ~keepalive
    /\ LeaveChannel(i, "backoff", "channel")
    /\ UNCHANGED pending

\* The event is looked at before the channel is made, and while there is nothing
\* to wait for but the event itself.
EndThread(i) ==
    /\ version = 2
    /\ keepalive
    /\ \E from \in {"channel", "online", "backoff"} : LeaveChannel(i, from, "ended")
    /\ SetRemoteStatus("OFFLINE")

-----------------------------------------------------------------------------
(***************************************************************************)
(* remote_thread_v1                                                        *)
(***************************************************************************)

\* The loop goes on without a look at the event, and with the latest certificate.
Reconnect(i, from) ==
    /\ Step(i, from, "channel")
    /\ chan' = [chan EXCEPT ![i] = "none"]
    /\ used' = [used EXCEPT ![i] = cert]
    /\ UNCHANGED <<keepalive, asked, pending>>

Connected(i) ==
    /\ version = 1
    /\ Accepts(i)
    /\ Step(i, "channel", "ping")
    /\ chan' = [chan EXCEPT ![i] = "ready"]
    /\ UNCHANGED <<keepalive, used, asked, pending>>

\* The first ping that is answered, and those after which the peer had not
\* connected back
Ping(i) ==
    /\ version = 1
    /\ ~keepalive
    /\ chan[i] = "ready"
    /\ Step(i, "ping", "duplex")
    /\ SetRemoteStatus("AWAITING_DUPLEX")
    /\ UNCHANGED <<keepalive, used, chan, asked>>

\* CheckDuplexConnection: not yet, or not once more than duplex_fail_counter allows
NoDuplex(i) ==
    /\ version = 1
    /\ chan[i] = "ready"
    /\ ~ready
    /\ \E to \in {"ping", "backoff"} : Step(i, "duplex", to)
    /\ UNCHANGED <<keepalive, used, chan, asked, pending>>

RetryV1(i) == version = 1 /\ Reconnect(i, "backoff")

\* A ping or CheckDuplexConnection fails.  No status is set.
PingFailed(i) ==
    /\ version = 1
    /\ chan[i] = "broken"
    /\ present
    /\ ~keepalive
    /\ \E from \in {"ping", "duplex", "online"} :
          /\ thr[i] = from
          /\ thr' = [thr EXCEPT ![i] = "channel"]
    /\ chan' = [chan EXCEPT ![i] = "none"]
    /\ used' = [used EXCEPT ![i] = cert]
    /\ op' = IF op = i THEN Stranded ELSE op
    /\ UNCHANGED <<peer, events, closing, known, callers, mishaps, keepalive, current,
                   status, asked, pending>>

\* "an orderly shutdown", or a failed ping to a peer that is announced no more
Leave(i) ==
    /\ version = 1
    /\ \/ \E from \in {"ping", "online"} : keepalive /\ LeaveChannel(i, from, "ended")
       \/ /\ chan[i] = "broken"
          /\ keepalive \/ ~present
          /\ \E from \in {"ping", "duplex", "online"} : LeaveChannel(i, from, "ended")
       \/ LeaveChannel(i, "leaving", "ended")
    /\ SetRemoteStatus("OFFLINE")

-----------------------------------------------------------------------------
\* get_info_finished, in a thread of gRPC: result() raises if the call failed,
\* and else the status is set, whatever has become of the connection.
InfoFinished(i) ==
    /\ i \in asked
    /\ asked' = asked \ {i}
    /\ \/ /\ SetRemoteStatus("ONLINE")
          /\ mishaps' = mishaps \cup (IF thr[i] # "online" THEN {"late"} ELSE {})
       \/ UNCHANGED <<pending, mishaps>>
    /\ UNCHANGED <<peer, events, closing, known, callers, threads, status, op>>

RemoteThread(i) ==
    \/ Begin(i)
    \/ ChannelReady(i) \/ ChannelTimeout(i)
    \/ DuplexAnswered(i) \/ DuplexFailed(i)
    \/ Retry(i) \/ EndThread(i)
    \/ Connected(i) \/ Ping(i) \/ NoDuplex(i) \/ RetryV1(i)
    \/ PingFailed(i) \/ Leave(i)

-----------------------------------------------------------------------------
(***************************************************************************)
(* The main loop.                                                          *)
(***************************************************************************)

\* (slip) only UNREACHABLE cancels what is being transferred
SetStatusUnreachable ==
    /\ pending # "none"
    /\ pending' = "none"
    /\ status' = pending
    /\ op' = IF pending # status /\ pending = "UNREACHABLE" THEN NoThread ELSE op
    /\ UNCHANGED <<peer, events, closing, known, callers, mishaps, threads, asked>>

\* set_status_cb, with cancel_ops_if_offline
SetStatusCb ==
    /\ pending # "none"
    /\ pending' = "none"
    /\ status' = pending
    /\ op' = IF pending # status /\ pending \in {"OFFLINE", "UNREACHABLE"}
               THEN NoThread ELSE op
    /\ UNCHANGED <<peer, events, closing, known, callers, mishaps, threads, asked>>

TransferBegins(i) ==
    /\ status = "ONLINE"
    /\ op = NoThread
    /\ thr[i] = "online"
    /\ op' = i
    /\ UNCHANGED <<peer, events, closing, known, callers, mishaps, threads,
                   status, asked, pending>>

TransferEnds ==
    /\ op \in Thread
    /\ chan[op] = "ready"
    /\ op' = NoThread
    /\ UNCHANGED <<peer, events, closing, known, callers, mishaps, threads,
                   status, asked, pending>>

-----------------------------------------------------------------------------
Restart(c) ==
    \/ Shutdown(c) \/ Join(c) \/ ForgetThread(c)
    \/ \E i \in Thread : StartRemoteThread(c, i)

Next ==
    \/ PeerChanges
    \/ AddService \/ RemoveService \/ ServiceRegistered
    \/ ManualRegistration \/ ManualRegistered
    \/ CloseServer
    \/ \E c \in Caller : Restart(c)
    \/ \E i \in Thread :
          \/ ChannelStateChanged(i) \/ RemoteThread(i) \/ InfoFinished(i)
          \/ TransferBegins(i)
    \/ SetStatusCb \/ TransferEnds

Spec == Init /\ [][Next]_vars

(***************************************************************************)
(* Threads go on, gRPC tells of broken channels, and the main loop runs    *)
(* its callbacks.  A registration comes to an end: its call has a timeout. *)
(***************************************************************************)
Fairness ==
    /\ \A i \in Thread : /\ WF_vars(RemoteThread(i))
                         /\ WF_vars(ChannelStateChanged(i))
    /\ \A c \in Caller : WF_vars(Restart(c))
    /\ WF_vars(SetStatusCb)
    /\ WF_vars(ServiceRegistered)
    /\ WF_vars(ManualRegistered)

FairSpec == Spec /\ Fairness

-----------------------------------------------------------------------------
(***************************************************************************)
(* Properties.                                                             *)
(***************************************************************************)

\* As long as nothing has gone wrong between the callers of shutdown, a machine
\* has at most one thread that is alive, though nothing but the order of
\* shutdown, join and start keeps a second one from running: announcements,
\* broken channels and the end of the server come in any order.
\* (RemoteMachine.shutdown, start_remote_thread; Server.add_service)
OneThread ==
    mishaps = {} => \A i, j \in Thread : Alive(i) /\ Alive(j) => i = j

\* The status the main loop shows, or will when it has caught up, is that of the
\* thread, although statuses that were set too quickly are skipped.  Version 1 waits
\* as AWAITING_DUPLEX, too.
\* (set_remote_status, set_status_cb, remote_thread_v2, remote_thread_v1)
Shown == IF pending = "none" THEN status ELSE pending

StatusIsTrue ==
    mishaps = {} =>
        /\ \A i \in Thread : /\ thr[i] = "online" => Shown = "ONLINE"
                             /\ thr[i] = "duplex" => Shown = "AWAITING_DUPLEX"
                             /\ thr[i] \in {"backoff", "leaving"} =>
                                   \/ Shown = "UNREACHABLE"
                                   \/ version = 1 /\ Shown = "AWAITING_DUPLEX"
        /\ (\A i \in Thread : thr[i] \in {"none", "starting", "ended"})
             /\ (\E i \in Thread : thr[i] = "ended") => Shown = "OFFLINE"

\* A transfer whose connection has gone is cancelled, unless the machine is given
\* a new thread before the main loop has seen OFFLINE, or its thread, of version 1,
\* starts over and leaves it stranded.
\* (set_status_cb, cancel_ops_if_offline)
LostOpsFail ==
    \A i \in Thread :
        (op = i /\ thr[i] # "online" /\ mishaps = {})
            ~> (op # i \/ mishaps # {} \/ \E j \in Thread : j > i /\ thr[j] # "none")

\* A thread that nobody stops comes online and is shown to be, if the peer stays
\* reachable and ready and keeps the certificate that the thread connects with.
\* The thread of version 1 also needs it to stay announced.
\* (run_secure_loop in remote_thread_v2 and remote_thread_v1)
Undisturbed(i) ==
    Accepts(i) /\ ready /\ ~keepalive /\ mishaps = {} /\ (version = 1 => present)

LiveThreadConnects ==
    \A i \in Thread :
        Alive(i) /\ Undisturbed(i) ~> status = "ONLINE" \/ ~Undisturbed(i)

\* Server.run waits 10 s for a thread that may take longer, and goes on.  The
\* event stays set, and every thread ends, those of earlier callers whose join
\* timed out included, unless a thread undid the event, or was not known to
\* Server.run.  (Server.run, RemoteMachine.shutdown, remote_thread_v2)
JustSlow == mishaps \subseteq {"overrun", "late"}

EndsWithServer ==
    (closing /\ JustSlow /\ \A c \in Starter \cup {Server} : pc[c] = "idle")
        ~> (~JustSlow \/ \A i \in Thread : ~Alive(i))
=============================================================================
