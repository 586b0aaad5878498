------------------------------ MODULE TransferOp ------------------------------
(***************************************************************************)
(* One file transfer of Warpinator, seen from its two ends: the SendOp of  *)
(* the machine "S" and the ReceiveOp of the machine "R", which stand for   *)
(* one offer (one start_time).  The module follows the operation from      *)
(* RemoteMachine.send_files through the request, the user's answer, the    *)
(* stream of files, stopping, failing and restarting.                      *)
(*                                                                         *)
(* Concurrency is the subject.  Nothing in the code orders                 *)
(*   - the jobs of the RPC thread pool (util.NewThreadExecutor gives every *)
(*     job a thread of its own) and the idle callbacks of the GLib loop;   *)
(*   - the calls handled by the threads of the gRPC server;                *)
(*   - the generator that feeds a stream and the thread that drains it.    *)
(* Jobs and calls are therefore bags: cmd[e][k] jobs of kind k wait at end *)
(* e, net[e][m] calls of kind m are on their way to end e.  Every handler  *)
(* is one step, except where the code blocks or calls out between two of   *)
(* its assignments; there it is cut in two.                                *)
(*                                                                         *)
(* A file is its first chunk and its end, and its content is left out: the *)
(* properties tell apart only how many files were begun, and whether the   *)
(* last one was ended.                                                     *)
(*                                                                         *)
(* A definition whose comment begins with (slip) is a plausible mistake in *)
(* the definition that follows it.  No action uses it: it is there to show *)
(* that a property of this module notices the mistake.                     *)
(***************************************************************************)
EXTENDS Integers, FiniteSets

CONSTANTS
    N,                  \* op.total_count: files and folders in the offer
    MaxStreams,         \* bound: threads that run start_transfer_op
    MaxClicks,          \* bound: how often the user presses each button
    MaxLoss,            \* bound: how often the network goes down
    Faults,             \* which local failures may happen
    RequirePermission   \* prefs.require_permission_for_transfer()

End == {"S", "R"}

Other(e) == IF e = "S" THEN "R" ELSE "S"

Button == {"cancel", "restart", "sendStop", "sendRemove",
           "accept", "decline", "receiveStop", "receiveRemove"}

Fault == {"gather",     \* gather_file_info finds a file missing or unreadable
          "unsafe",     \* a top directory of the offer fails the path test
          "space",      \* too little space, or files that would be overwritten
          "read",       \* a file cannot be opened or read while it is sent
          "write"}      \* a file cannot be created or written

ASSUME NAssumption == N \in Nat \ {0}
ASSUME StreamsAssumption == MaxStreams \in Nat \ {0}
ASSUME ClicksAssumption == MaxClicks \in [Button -> Nat]
ASSUME LossAssumption == MaxLoss \in Nat
ASSUME FaultsAssumption == Faults \subseteq Fault
ASSUME PermissionAssumption == RequirePermission \in BOOLEAN

Stream == 1 .. MaxStreams

NoStream == 0

\* util.OpStatus, without PAUSED: nothing in the code assigns it.
Status == {"INIT", "CALCULATING", "WAITING_PERMISSION", "TRANSFERRING",
           "CANCELLED_PERMISSION_BY_SENDER", "CANCELLED_PERMISSION_BY_RECEIVER",
           "STOPPED_BY_SENDER", "STOPPED_BY_RECEIVER", "FAILED",
           "FAILED_UNRECOVERABLE", "FILE_NOT_FOUND", "FINISHED",
           "FINISHED_WARNING"}

CancelledBy(e) == IF e = "S" THEN "CANCELLED_PERMISSION_BY_SENDER"
                             ELSE "CANCELLED_PERMISSION_BY_RECEIVER"

StoppedBy(e) == IF e = "S" THEN "STOPPED_BY_SENDER" ELSE "STOPPED_BY_RECEIVER"

\* What waits in the thread pool and in the idle queue of an end.
Job == {"prepare", "gather", "add", "notify", "request", "restart", "auto",
        "start", "cancel", "stop", "lost", "remove"}

\* The unary calls, and the reply that cancel_transfer_op_request waits for.
Call == {"Process", "Cancel", "CancelOk", "Stop", "StopError"}

VARIABLES
    conn,       \* the network between the two machines is up
    losses,     \* how often it went down
    lost,       \* lost[e]: e has yet to notice that it went down
    remote,     \* remote[e]: e's RemoteMachine is ONLINE
    status,     \* op.status
    error,      \* op.error_msg # ""
    listed,     \* listed[e]: the op is in remote.transfer_ops
    handlers,   \* R: how often op_command_issued is connected to the op
    rewired,    \* history: it was connected twice
    cmd,        \* cmd[e][k]: jobs of kind k waiting at e
    net,        \* net[e][m]: calls of kind m under way to e
    clicked,    \* history: how often each button was pressed
    gen,        \* S: the generator read_chunks of a stream
    evt,        \* S: the cancellable of a stream is set
    sent,       \* S: files begun on a stream
    cancellable,\* S: the stream of op.file_send_cancellable, or NoStream
    thr,        \* R: the thread that runs start_transfer_op
    call,       \* R: the StartTransfer call of a stream
    got,        \* R: files begun that were received on a stream
    iterator,   \* R: the stream of op.file_iterator, or NoStream
    remaining   \* R: op.remaining_count

link     == <<conn, losses, lost, remote>>
known    == <<listed, handlers, rewired>>
ops      == <<status, error, known>>
sending  == <<gen, evt, sent, cancellable>>
receiving == <<thr, call, got, iterator, remaining>>
vars == <<link, ops, cmd, net, clicked, sending, receiving>>

-----------------------------------------------------------------------------
(***************************************************************************)
(* Bags of jobs and calls.                                                 *)
(***************************************************************************)
None(K) == [k \in K |-> 0]

PutN(bag, e, k, n) == [bag EXCEPT ![e][k] = @ + n]

Put(bag, e, k) == PutN(bag, e, k, 1)

Drop(bag, e, k) == [bag EXCEPT ![e][k] = @ - 1]

\* rpc_call and idle_add
Submit(e, k) == cmd' = Put(cmd, e, k)

\* The signal "op-command": every connected op_command_issued submits the job.
Emit(e, k) == cmd' = PutN(cmd, e, k, IF e = "S" THEN 1 ELSE handlers)

Take(e, k) == /\ cmd[e][k] > 0
              /\ cmd' = Drop(cmd, e, k)

BecomeN(e, k, l, n) == /\ cmd[e][k] > 0
                       /\ cmd' = PutN(Drop(cmd, e, k), e, l, n)

Become(e, k, l) == BecomeN(e, k, l, 1)

\* A unary call: it fails at once when the machine cannot be reached.
Send(e, m) == net' = IF conn THEN Put(net, e, m) ELSE net

Deliver(e, m) == /\ net[e][m] > 0
                 /\ net' = Drop(net, e, m)

SetStatus(e, s) == status' = [status EXCEPT ![e] = s]

SetError(e) == error' = [error EXCEPT ![e] = TRUE]

LinkType ==
    /\ conn \in BOOLEAN
    /\ losses \in 0 .. MaxLoss
    /\ lost \in [End -> BOOLEAN]
    /\ remote \in [End -> BOOLEAN]

OpType ==
    /\ status \in [End -> Status]
    /\ error \in [End -> BOOLEAN]
    /\ listed \in [End -> BOOLEAN]
    /\ handlers \in Nat
    /\ rewired \in BOOLEAN

QueueType ==
    /\ cmd \in [End -> [Job -> Nat]]
    /\ net \in [End -> [Call -> Nat]]
    /\ clicked \in [Button -> Nat]

SendingType ==
    /\ gen \in [Stream -> {"none", "requested", "between", "inside", "eof",
                           "cut", "error", "failed", "closed"}]
    /\ evt \in [Stream -> BOOLEAN]
    /\ sent \in [Stream -> 0 .. N]
    /\ cancellable \in Stream \cup {NoStream}

ReceivingType ==
    /\ thr \in [Stream -> {"none", "calling", "recv", "counting", "done"}]
    /\ call \in [Stream -> {"none", "open", "cancelled", "broken", "complete"}]
    /\ got \in [Stream -> 0 .. N]
    /\ iterator \in Stream \cup {NoStream}
    /\ remaining \in Int

TypeOK == LinkType /\ OpType /\ QueueType /\ SendingType /\ ReceivingType

\* send_files has submitted _send_files: the SendOp exists and add_op is queued.
Init ==
    /\ conn = TRUE
    /\ losses = 0
    /\ lost = [e \in End |-> FALSE]
    /\ remote = [e \in End |-> TRUE]
    /\ status = [e \in End |-> "INIT"]
    /\ error = [e \in End |-> FALSE]
    /\ listed = [e \in End |-> FALSE]
    /\ handlers = 0
    /\ rewired = FALSE
    /\ cmd = [e \in End |-> [k \in Job |->
                 IF e = "S" /\ k \in {"add", "prepare"} THEN 1 ELSE 0]]
    /\ net = [e \in End |-> None(Call)]
    /\ clicked = None(Button)
    /\ gen = [i \in Stream |-> "none"]
    /\ evt = [i \in Stream |-> FALSE]
    /\ sent = [i \in Stream |-> 0]
    /\ cancellable = NoStream
    /\ thr = [i \in Stream |-> "none"]
    /\ call = [i \in Stream |-> "none"]
    /\ got = [i \in Stream |-> 0]
    /\ iterator = NoStream
    /\ remaining = 0

-----------------------------------------------------------------------------
(***************************************************************************)
(* The sender prepares its offer and makes it.                             *)
(***************************************************************************)

\* add_op on a SendOp: check_for_autostart does nothing for it.
AddSendOp ==
    /\ Take("S", "add")
    /\ listed' = [listed EXCEPT !["S"] = TRUE]
    /\ UNCHANGED <<handlers, rewired, link, status, error, net, clicked, sending, receiving>>

PrepareSendInfo ==
    /\ Become("S", "prepare", "gather")
    /\ SetStatus("S", "CALCULATING")
    /\ UNCHANGED <<link, error, known, net, clicked, sending, receiving>>

\* update_ui_info overwrites whatever status the op has by now.
UpdateUiInfo(outcome) ==
    /\ Become("S", "gather", "notify")
    /\ SetStatus("S", outcome)
    /\ error' = CASE outcome = "FILE_NOT_FOUND" -> [error EXCEPT !["S"] = FALSE]
                  [] outcome = "FAILED_UNRECOVERABLE" -> [error EXCEPT !["S"] = TRUE]
                  [] OTHER -> error
    /\ UNCHANGED <<link, known, net, clicked, sending, receiving>>

GatherFileInfo ==
    \/ UpdateUiInfo("WAITING_PERMISSION")
    \/ /\ "gather" \in Faults
       /\ \/ UpdateUiInfo("FILE_NOT_FOUND")
          \/ UpdateUiInfo("FAILED_UNRECOVERABLE")

\* Idle callbacks run in order: add_op was queued first.
NotifyRemoteMachine ==
    /\ cmd["S"]["add"] = 0
    /\ IF status["S"] = "WAITING_PERMISSION"
         THEN Become("S", "notify", "request")
         ELSE Take("S", "notify")
    /\ UNCHANGED <<link, ops, net, clicked, sending, receiving>>

SendTransferOpRequest ==
    /\ Take("S", "request")
    /\ Send("R", "Process")
    /\ UNCHANGED <<link, ops, clicked, sending, receiving>>

\* op_command_issued, RETRY_TRANSFER
RetryTransfer ==
    /\ Become("S", "restart", "request")
    /\ SetStatus("S", "WAITING_PERMISSION")
    /\ UNCHANGED <<link, error, known, net, clicked, sending, receiving>>

-----------------------------------------------------------------------------
(***************************************************************************)
(* The receiver is asked, and answers.                                     *)
(***************************************************************************)

\* The op is known: ProcessTransferOpRequest puts it back to waiting.
ProcessKnownOp ==
    /\ Deliver("R", "Process")
    /\ listed["R"]
    /\ SetStatus("R", "WAITING_PERMISSION")
    /\ Submit("R", "add")
    /\ UNCHANGED <<link, error, known, clicked, sending, receiving>>

\* No job and no thread refers to the op that a new one replaces.
ReceiverAtRest ==
    /\ \A k \in Job : cmd["R"][k] = 0
    /\ \A i \in Stream : thr[i] \in {"none", "done"}

\* The op is unknown, or was removed: a new ReceiveOp is made and prepared.
\* Its path test may fail; add_op follows as an idle callback either way.
ProcessNewOp ==
    /\ Deliver("R", "Process")
    /\ ~listed["R"]
    /\ ReceiverAtRest
    /\ remaining' = N
    /\ iterator' = NoStream
    /\ handlers' = 0
    /\ \/ /\ SetStatus("R", "WAITING_PERMISSION")
          /\ error' = [error EXCEPT !["R"] = FALSE]
       \/ /\ "unsafe" \in Faults
          /\ SetStatus("R", "FAILED_UNRECOVERABLE")
          /\ SetError("R")
    /\ Submit("R", "add")
    /\ UNCHANGED <<link, listed, rewired, clicked, sending, thr, call, got>>

\* add_op lists and connects an op that is not listed: one that was removed after
\* ProcessKnownOp found it is connected once more.
AppendReceiveOp ==
    /\ listed' = [listed EXCEPT !["R"] = TRUE]
    /\ handlers' = IF listed["R"] THEN handlers ELSE handlers + 1
    /\ rewired' = (rewired \/ handlers' > 1)
    /\ UNCHANGED <<link, status, error, net, clicked, sending, receiving>>

\* (slip) an op with unsafe names is added like any other
AddUnchecked == AppendReceiveOp /\ Become("R", "add", "auto")

\* An op that is FAILED_UNRECOVERABLE by now is declined without asking.
AddReceiveOp ==
    /\ AppendReceiveOp
    /\ IF status["R"] = "FAILED_UNRECOVERABLE"
         THEN BecomeN("R", "add", "cancel", handlers')
         ELSE Become("R", "add", "auto")

\* (slip) the preference is not consulted
AutostartAlways ==
    /\ IF status["R"] = "WAITING_PERMISSION" THEN BecomeN("R", "auto", "start", handlers)
                                             ELSE Take("R", "auto")
    /\ UNCHANGED <<link, ops, net, clicked, sending, receiving>>

\* check_for_autostart; have_space and existing depend on the disk.  accept_transfer
\* is "op-command" again.
CheckForAutostart ==
    /\ \/ /\ status["R"] = "WAITING_PERMISSION"
          /\ ~RequirePermission
          /\ BecomeN("R", "auto", "start", handlers)
       \/ /\ status["R"] = "WAITING_PERMISSION" =>
                RequirePermission \/ "space" \in Faults
          /\ Take("R", "auto")
    /\ UNCHANGED <<link, ops, net, clicked, sending, receiving>>

-----------------------------------------------------------------------------
(***************************************************************************)
(* Cancelling an offer, from either end.                                   *)
(***************************************************************************)

CancelTransferOpRequest(e) ==
    /\ Take(e, "cancel")
    /\ Send(Other(e), "Cancel")
    /\ UNCHANGED <<link, ops, clicked, sending, receiving>>

\* lookup_op finds nothing: the handler raises, and the caller's status stays.
HandleCancel(e) ==
    /\ net[e]["Cancel"] > 0
    /\ IF listed[e]
         THEN /\ SetStatus(e, CancelledBy(Other(e)))
              /\ net' = Put(Drop(net, e, "Cancel"), Other(e), "CancelOk")
         ELSE /\ net' = Drop(net, e, "Cancel")
              /\ UNCHANGED status
    /\ UNCHANGED <<link, error, known, cmd, clicked, sending, receiving>>

\* The call has returned: only now is the status set.
CancelReturned(e) ==
    /\ Deliver(e, "CancelOk")
    /\ SetStatus(e, CancelledBy(e))
    /\ UNCHANGED <<link, error, known, cmd, clicked, sending, receiving>>

-----------------------------------------------------------------------------
(***************************************************************************)
(* The stream: the receiver's thread start_transfer_op ...                 *)
(***************************************************************************)

StartTransferOp(i) ==
    /\ thr[i] = "none"
    /\ \A j \in Stream : j < i => thr[j] # "none"
    /\ Take("R", "start")
    /\ thr' = [thr EXCEPT ![i] = "calling"]
    /\ SetStatus("R", "TRANSFERRING")
    /\ UNCHANGED <<link, error, known, net, clicked, sending,
                   call, got, iterator, remaining>>

\* stub.StartTransfer returns before the server has seen the call.
CallStartTransfer(i) ==
    /\ thr[i] = "calling"
    /\ thr' = [thr EXCEPT ![i] = "recv"]
    /\ iterator' = i
    /\ call' = [call EXCEPT ![i] = IF conn THEN "open" ELSE "broken"]
    /\ gen' = IF conn THEN [gen EXCEPT ![i] = "requested"] ELSE gen
    /\ UNCHANGED <<link, ops, cmd, net, clicked, evt, sent, cancellable,
                   got, remaining>>

\* Files left once close_current_file has closed the one that is open.
Closed(i) == IF got[i] > 0 THEN remaining - 1 ELSE remaining

\* report_receive_error(e): the stop it issues finds file_iterator cleared, so
\* the call ends when the thread drops the iterator.
ReportReceiveError(i) ==
    /\ iterator' = NoStream
    /\ thr' = [thr EXCEPT ![i] = "done"]
    /\ call' = [call EXCEPT ![i] = IF @ = "open" THEN "cancelled" ELSE @]
    /\ SetError("R")
    /\ SetStatus("R", "FAILED")
    /\ Emit("R", "stop")

Receiving(i) == thr[i] = "recv" /\ call[i] = "open"

\* receive_data on the first chunk of a file
ReceiveFile(i) ==
    /\ Receiving(i)
    /\ got[i] < sent[i]
    /\ remaining' = Closed(i)
    /\ \/ /\ Closed(i) # 0
          /\ got' = [got EXCEPT ![i] = @ + 1]
          /\ UNCHANGED <<status, error, cmd, thr, call, iterator>>
       \/ /\ Closed(i) = 0 \/ "write" \in Faults
          /\ ReportReceiveError(i)
          /\ UNCHANGED got
    /\ UNCHANGED <<link, known, net, clicked, sending>>

\* receive_data fails on a later chunk
WriteError(i) ==
    /\ "write" \in Faults
    /\ Receiving(i)
    /\ got[i] > 0
    /\ ReportReceiveError(i)
    /\ UNCHANGED <<link, known, net, clicked, sending, got, remaining>>

\* The generator returned: the loop ends, whatever the reason it returned for.  The
\* last report of the progress says FINISHED before the files are counted.
ReceiveFinished(i) ==
    /\ Receiving(i)
    /\ got[i] = sent[i]
    /\ gen[i] \in {"eof", "cut", "error", "failed"}
    /\ iterator' = NoStream
    /\ remaining' = Closed(i)
    /\ thr' = [thr EXCEPT ![i] = "counting"]
    /\ call' = [call EXCEPT ![i] = "complete"]
    /\ SetStatus("R", "FINISHED")
    /\ UNCHANGED <<link, error, known, cmd, net, clicked, sending, got>>

\* (slip) the FINISHED of the progress is thought to be enough
CountLeftOut(i) ==
    /\ thr[i] = "counting"
    /\ thr' = [thr EXCEPT ![i] = "done"]
    /\ UNCHANGED <<link, ops, cmd, net, clicked, sending, call, got, iterator, remaining>>

\* start_transfer_op after receive_finished, whatever the status has become meanwhile
CountFiles(i) ==
    /\ thr[i] = "counting"
    /\ thr' = [thr EXCEPT ![i] = "done"]
    /\ IF remaining > 0
         THEN SetError("R") /\ SetStatus("R", "FINISHED_WARNING")
         ELSE SetStatus("R", "FINISHED") /\ UNCHANGED error
    /\ UNCHANGED <<link, known, cmd, net, clicked, sending, call, got, iterator, remaining>>

\* RpcError, code CANCELLED: report_receive_error(None)
ReceiveCancelled(i) ==
    /\ thr[i] = "recv"
    /\ call[i] = "cancelled"
    /\ iterator' = NoStream
    /\ thr' = [thr EXCEPT ![i] = "done"]
    /\ UNCHANGED <<link, ops, cmd, net, clicked, sending, call, got, remaining>>

\* (slip) every RpcError is taken for a cancellation
ReceiveBrokenSilent(i) ==
    /\ thr[i] = "recv"
    /\ call[i] = "broken"
    /\ iterator' = NoStream
    /\ thr' = [thr EXCEPT ![i] = "done"]
    /\ UNCHANGED <<link, ops, cmd, net, clicked, sending, call, got, remaining>>

\* RpcError, any other code
ReceiveBroken(i) ==
    /\ thr[i] = "recv"
    /\ call[i] = "broken"
    /\ ReportReceiveError(i)
    /\ UNCHANGED <<link, known, net, clicked, sending, got, remaining>>

-----------------------------------------------------------------------------
(***************************************************************************)
(* ... and the sender's handler StartTransfer with its generator.          *)
(***************************************************************************)

\* For an op that was removed the handler raises and the call fails.
StartTransfer(i) ==
    /\ gen[i] = "requested"
    /\ IF listed["S"]
         THEN /\ gen' = [gen EXCEPT ![i] = "between"]
              /\ cancellable' = i
              /\ SetStatus("S", "TRANSFERRING")
              /\ UNCHANGED call
         ELSE /\ gen' = [gen EXCEPT ![i] = "closed"]
              /\ call' = [call EXCEPT ![i] = IF @ = "open" THEN "broken" ELSE @]
              /\ UNCHANGED <<cancellable, status>>
    /\ UNCHANGED <<link, error, known, cmd, net, clicked, evt, sent,
                   thr, got, iterator, remaining>>

\* The generator has files left, or is in the middle of one.
Unfinished(i) == gen[i] = "inside" \/ (gen[i] = "between" /\ sent[i] < N)

Generate(i, g) ==
    /\ gen' = [gen EXCEPT ![i] = g]
    /\ UNCHANGED <<link, error, known, cmd, net, clicked, evt, cancellable,
                   receiving>>

\* (slip) one file too many
YieldBeyond(i) ==
    /\ gen[i] = "between"
    /\ ~evt[i]
    /\ sent' = [sent EXCEPT ![i] = @ + 1]
    /\ Generate(i, "inside")
    /\ UNCHANGED status

YieldFirstChunk(i) ==
    /\ gen[i] = "between"
    /\ sent[i] < N
    /\ ~evt[i]
    /\ sent' = [sent EXCEPT ![i] = @ + 1]
    /\ Generate(i, "inside")
    /\ UNCHANGED status

YieldLastChunk(i) ==
    /\ gen[i] = "inside"
    /\ ~evt[i]
    /\ Generate(i, "between")
    /\ UNCHANGED <<status, sent>>

\* (slip) a cancellable set after the last file keeps the loop from ending
AllFilesSentUnlessStopped(i) ==
    /\ gen[i] = "between"
    /\ sent[i] = N
    /\ ~evt[i]
    /\ SetStatus("S", "FINISHED")
    /\ Generate(i, "eof")
    /\ UNCHANGED sent

\* The loop over the files ends without looking at the cancellable again.
AllFilesSent(i) ==
    /\ gen[i] = "between"
    /\ sent[i] = N
    /\ SetStatus("S", "FINISHED")
    /\ Generate(i, "eof")
    /\ UNCHANGED sent

SendStopped(i) ==
    /\ evt[i]
    /\ Unfinished(i)
    /\ Generate(i, "cut")
    /\ UNCHANGED <<status, sent>>

ReadError(i) ==
    /\ "read" \in Faults
    /\ Unfinished(i)
    /\ ~evt[i]
    /\ Generate(i, "error")
    /\ UNCHANGED <<status, sent>>

\* (slip) the callback forgets the status
TransferDoneSilent(i) ==
    /\ gen[i] = "error"
    /\ gen' = [gen EXCEPT ![i] = "failed"]
    /\ SetError("S")
    /\ UNCHANGED <<link, status, known, cmd, net, clicked, evt, sent,
                   cancellable, receiving>>

\* The callback of the server context, once the call has ended.
TransferDone(i) ==
    /\ gen[i] = "error"
    /\ gen' = [gen EXCEPT ![i] = "failed"]
    /\ SetError("S")
    /\ SetStatus("S", "FAILED_UNRECOVERABLE")
    /\ UNCHANGED <<link, known, cmd, net, clicked, evt, sent, cancellable,
                   receiving>>

\* gRPC drops the generator of a call that was cancelled or lost.
GeneratorDropped(i) ==
    /\ call[i] \in {"cancelled", "broken"}
    /\ gen[i] \in {"between", "inside"}
    /\ Generate(i, "closed")
    /\ UNCHANGED <<status, sent>>

-----------------------------------------------------------------------------
(***************************************************************************)
(* Stopping a transfer, from either end.                                   *)
(***************************************************************************)

\* file_send_cancellable.set(), at S
SetCancellable ==
    evt' = IF cancellable = NoStream THEN evt
           ELSE [evt EXCEPT ![cancellable] = TRUE]

\* file_iterator.cancel(), at R
CancelIterator ==
    call' = IF iterator = NoStream THEN call
            ELSE [call EXCEPT ![iterator] = IF @ = "open" THEN "cancelled" ELSE @]

Interrupt(e) ==
    /\ IF e = "S" THEN SetCancellable /\ UNCHANGED call
                  ELSE CancelIterator /\ UNCHANGED evt
    /\ UNCHANGED <<gen, sent, cancellable, thr, got, iterator, remaining>>

\* stop_transfer_op of a sender that never streamed raises: there is no
\* cancellable to set.
NothingToStop(e) == e = "S" /\ cancellable = NoStream

\* (slip) the peer is not told that it was an error
StopWithoutError(e) ==
    /\ Take(e, "stop")
    /\ IF NothingToStop(e)
         THEN UNCHANGED <<status, net, sending, receiving>>
         ELSE /\ Interrupt(e)
              /\ SetStatus(e, IF error[e] THEN "FAILED" ELSE StoppedBy(e))
              /\ Send(Other(e), "Stop")
    /\ UNCHANGED <<link, error, known, clicked>>

StopTransferOp(e) ==
    /\ Take(e, "stop")
    /\ IF NothingToStop(e)
         THEN UNCHANGED <<status, net, sending, receiving>>
         ELSE /\ Interrupt(e)
              /\ SetStatus(e, IF error[e] THEN "FAILED" ELSE StoppedBy(e))
              /\ Send(Other(e), IF error[e] THEN "StopError" ELSE "Stop")
    /\ UNCHANGED <<link, error, known, clicked>>

\* stop_transfer_op with lost_connection=True: no status and no call
StopLostTransferOp(e) ==
    /\ Take(e, "lost")
    /\ Interrupt(e)
    /\ UNCHANGED <<link, ops, net, clicked>>

\* (slip) the stream is cancelled and the status left to the thread
HandleStopSilent(e, m) ==
    /\ m \in {"Stop", "StopError"}
    /\ Deliver(e, m)
    /\ IF listed[e] THEN Interrupt(e) ELSE UNCHANGED <<sending, receiving>>
    /\ UNCHANGED <<link, ops, cmd, clicked>>

HandleStop(e, m) ==
    /\ m \in {"Stop", "StopError"}
    /\ Deliver(e, m)
    /\ IF listed[e]
         THEN /\ Interrupt(e)
              /\ error' = [error EXCEPT ![e] = @ \/ m = "StopError"]
              /\ SetStatus(e, IF error'[e] THEN "FAILED"
                                           ELSE StoppedBy(Other(e)))
         ELSE UNCHANGED <<error, status, sending, receiving>>
    /\ UNCHANGED <<link, known, cmd, clicked>>

-----------------------------------------------------------------------------
(***************************************************************************)
(* The network, and what each end's RemoteMachine makes of it.             *)
(***************************************************************************)

\* Calls under way are lost, streams break.
ConnectionLost ==
    /\ conn
    /\ losses < MaxLoss
    /\ conn' = FALSE
    /\ losses' = losses + 1
    /\ lost' = remote
    /\ net' = [e \in End |-> None(Call)]
    /\ call' = [i \in Stream |-> IF call[i] = "open" THEN "broken" ELSE call[i]]
    /\ gen' = [i \in Stream |-> IF gen[i] = "requested" THEN "closed" ELSE gen[i]]
    /\ UNCHANGED <<remote, ops, cmd, clicked, evt, sent, cancellable,
                   thr, got, iterator, remaining>>

ConnectionRestored ==
    /\ ~conn
    /\ conn' = TRUE
    /\ UNCHANGED <<losses, lost, remote, ops, cmd, net, clicked, sending, receiving>>

\* set_status_cb(UNREACHABLE) and cancel_ops_if_offline
CancelOpsIfOffline(e) ==
    /\ lost[e]
    /\ lost' = [lost EXCEPT ![e] = FALSE]
    /\ remote' = [remote EXCEPT ![e] = FALSE]
    /\ \/ /\ listed[e]
          /\ status[e] = "TRANSFERRING"
          /\ SetStatus(e, "FAILED")
          /\ SetError(e)
          /\ Submit(e, "lost")
       \/ /\ listed[e]
          /\ status[e] \in {"WAITING_PERMISSION", "CALCULATING"}
          /\ SetStatus(e, "FAILED_UNRECOVERABLE")
          /\ SetError(e)
          /\ UNCHANGED cmd
       \/ /\ ~(listed[e] /\ status[e] \in {"TRANSFERRING", "WAITING_PERMISSION",
                                           "CALCULATING"})
          /\ UNCHANGED <<status, error, cmd>>
    /\ UNCHANGED <<conn, losses, known, net, clicked, sending, receiving>>

\* set_status_cb(ONLINE), once the channel is ready again
RemoteOnline(e) ==
    /\ conn
    /\ ~remote[e]
    /\ remote' = [remote EXCEPT ![e] = TRUE]
    /\ UNCHANGED <<conn, losses, lost, ops, cmd, net, clicked, sending, receiving>>

-----------------------------------------------------------------------------
(***************************************************************************)
(* The user: refresh_buttons_and_icons decides which buttons are shown.    *)
(***************************************************************************)
Removable ==
    Status \ {"INIT", "CALCULATING", "WAITING_PERMISSION", "TRANSFERRING"}

ButtonShown(b) ==
    CASE b = "cancel"        -> status["S"] = "WAITING_PERMISSION"
      [] b = "sendStop"      -> status["S"] = "TRANSFERRING"
      [] b = "restart"       -> /\ status["S"] \in {"FAILED", "STOPPED_BY_SENDER"}
                                /\ remote["S"]
      [] b = "sendRemove"    -> status["S"] \in Removable
      [] b = "accept"        -> status["R"] = "WAITING_PERMISSION"
      [] b = "decline"       -> status["R"] = "WAITING_PERMISSION"
      [] b = "receiveStop"   -> status["R"] = "TRANSFERRING"
      [] b = "receiveRemove" -> status["R"] \in Removable

Owner(b) == IF b \in {"cancel", "sendStop", "restart", "sendRemove"}
            THEN "S" ELSE "R"

\* The command that op_command_issued will carry out.
Command(b) ==
    CASE b \in {"cancel", "decline"}            -> "cancel"
      [] b \in {"sendStop", "receiveStop"}      -> "stop"
      [] b \in {"sendRemove", "receiveRemove"}  -> "remove"
      [] b = "restart"                          -> "restart"
      [] b = "accept"                           -> "start"

Click(b) ==
    /\ clicked[b] < MaxClicks[b]
    /\ listed[Owner(b)]
    /\ ButtonShown(b)
    /\ clicked' = [clicked EXCEPT ![b] = @ + 1]
    /\ Emit(Owner(b), Command(b))
    /\ UNCHANGED <<link, ops, net, sending, receiving>>

RemoveOp(e) ==
    /\ Take(e, "remove")
    /\ listed' = [listed EXCEPT ![e] = FALSE]
    /\ UNCHANGED <<handlers, rewired, link, status, error, net, clicked, sending, receiving>>

-----------------------------------------------------------------------------
SenderJob == \/ AddSendOp \/ PrepareSendInfo \/ GatherFileInfo
             \/ NotifyRemoteMachine \/ SendTransferOpRequest \/ RetryTransfer

ReceiverJob == \/ ProcessKnownOp \/ ProcessNewOp
               \/ AddReceiveOp \/ CheckForAutostart

Jobs(e) == \/ CancelTransferOpRequest(e) \/ CancelReturned(e)
           \/ StopTransferOp(e) \/ StopLostTransferOp(e) \/ RemoveOp(e)

Calls(e) == \/ HandleCancel(e)
            \/ HandleStop(e, "Stop") \/ HandleStop(e, "StopError")

ReceiverThread(i) == \/ CallStartTransfer(i)
                     \/ ReceiveFile(i) \/ ReceiveFinished(i) \/ CountFiles(i)
                     \/ ReceiveCancelled(i) \/ ReceiveBroken(i)

SenderThread(i) == \/ StartTransfer(i)
                   \/ YieldFirstChunk(i) \/ YieldLastChunk(i)
                   \/ AllFilesSent(i) \/ SendStopped(i) \/ ReadError(i)
                   \/ TransferDone(i) \/ GeneratorDropped(i)

Network == \/ ConnectionLost \/ ConnectionRestored
           \/ \E e \in End : CancelOpsIfOffline(e) \/ RemoteOnline(e)

Next == \/ SenderJob
        \/ ReceiverJob
        \/ \E e \in End : Jobs(e) \/ Calls(e)
        \/ \E i \in Stream : \/ StartTransferOp(i)
                             \/ ReceiverThread(i)
                             \/ WriteError(i)
                             \/ SenderThread(i)
        \/ Network
        \/ \E b \in Button : Click(b)

Spec == Init /\ [][Next]_vars

(***************************************************************************)
(* Threads, idle callbacks and calls under way are eventually run.  What   *)
(* the user does, and when the network goes and comes, is up to them; and  *)
(* no thread is saved from waiting by a file that cannot be written.       *)
(***************************************************************************)
Fairness ==
    /\ WF_vars(SenderJob)
    /\ WF_vars(ReceiverJob)
    /\ \A e \in End : /\ WF_vars(Jobs(e))
                      /\ WF_vars(Calls(e))
                      /\ WF_vars(CancelOpsIfOffline(e))
    /\ \A i \in Stream : /\ WF_vars(StartTransferOp(i))
                         /\ WF_vars(ReceiverThread(i))
                         /\ WF_vars(SenderThread(i))

FairSpec == Spec /\ Fairness

-----------------------------------------------------------------------------
(***************************************************************************)
(* Properties.                                                             *)
(***************************************************************************)

\* A status that names a user as its author is set only if that user asked for
\* it: nobody is shown "stopped by" or "cancelled by" the other side for a stop
\* that an error or a lost connection caused.  The exception is in the code: an
\* offer whose op is FAILED_UNRECOVERABLE (so it has an error) is declined by
\* add_op without asking.  (ops.set_status, server.StopTransfer and
\* CancelTransferOpRequest, remote.stop_transfer_op and cancel_transfer_op_request)
StoppedByReceiver == status["S"] = "STOPPED_BY_RECEIVER"
                        => clicked["receiveStop"] > 0

StoppedBySender == status["R"] = "STOPPED_BY_SENDER" => clicked["sendStop"] > 0

CancelledBySender == status["R"] = "CANCELLED_PERMISSION_BY_SENDER"
                        => clicked["cancel"] > 0

StatusHasAuthor == StoppedByReceiver /\ StoppedBySender /\ CancelledBySender

\* With ask-for-send-permission set, the k-th stream of files starts only after
\* accept was pressed k times: no restart, re-added op, retry or late call starts
\* one by itself, unless add_op has connected one op twice.
\* (remote.check_for_autostart, op_command_issued, start_transfer_op;
\* server.ProcessTransferOpRequest; the schema of the preference: "every transfer
\* initiated must first be approved")
EveryStreamAccepted ==
    RequirePermission /\ ~rewired =>
        \A i \in Stream : thr[i] # "none" => i <= clicked["accept"]

OneStream == \A i \in Stream : i > 1 => thr[i] = "none"

\* A thread of start_transfer_op that will still see its stream end.
Live(i) == thr[i] = "calling" \/ (thr[i] = "recv" /\ call[i] # "cancelled")

\* The receiver's op says TRANSFERRING only while a thread is receiving whose
\* end will change the status: it is never left transferring by a stop, an
\* error or a lost call.  It holds for every op while the network stays up, and
\* for an op that was started once in any case.  (A job of an earlier loss,
\* stop_transfer_op with lost_connection, can cancel the stream of a later start
\* and then sets no status.)  (remote.start_transfer_op, stop_transfer_op,
\* cancel_ops_if_offline; server.StopTransfer)
ReceiverNotStuck ==
    (losses = 0 \/ OneStream) =>
        (status["R"] = "TRANSFERRING" => \E i \in Stream : Live(i))

\* An op that was started once and says FINISHED when its thread has ended received
\* all N files of the offer, and none of them is taken for one too many, whatever
\* stops, errors and losses came in between: the count of close_current_file and its
\* tests in receive_data and start_transfer_op agree.  (While the thread has yet to
\* count the files, FINISHED is shown for a short stream as well: receive_finished
\* reports the progress first.  remaining_count is not set again for a second
\* stream.)  (transfers.close_current_file, receive_data, receive_finished;
\* remote.start_transfer_op)
FinishedCountsFiles ==
    OneStream =>
        /\ status["R"] = "FINISHED" => \E i \in Stream : thr[i] = "counting" \/ got[i] = N
        /\ \A i \in Stream : Receiving(i) /\ got[i] < sent[i] => Closed(i) # 0

\* Nothing is left to happen except what users or the network do.
AtRest ==
    /\ \A e \in End : /\ \A k \in Job : cmd[e][k] = 0
                      /\ \A m \in Call : net[e][m] = 0
    /\ \A i \in Stream : /\ thr[i] \in {"none", "done"}
                         /\ gen[i] \in {"none", "eof", "cut", "failed", "closed"}

\* As long as the network stays up and nothing is restarted, an offer waits for
\* an answer at both ends or at neither, whichever of cancel, decline, accept
\* and stop cross each other.  (remote.cancel_transfer_op_request,
\* server.CancelTransferOpRequest, remote.add_op)
WaitingAgrees ==
    (AtRest /\ losses = 0 /\ clicked["restart"] = 0) =>
        (status["S"] = "WAITING_PERMISSION" <=> status["R"] = "WAITING_PERMISSION")

Undisturbed ==
    losses = 0 /\ \A b \in Button \ {"accept"} : clicked[b] = 0

\* A transfer that no one stops, cancels or restarts over a network that stays
\* up, and that was started once, ends at both ends, and the ends agree up to what
\* the protocol does not tell: a sender that has sent everything may not learn that
\* the last file could not be written, a receiver does not learn that a read failed.
\* (A second press of accept starts a second thread on the same op, and the stop of
\* the first then ends the stream of the second.)
AgreedOutcome ==
    (AtRest /\ Undisturbed /\ OneStream) =>
        <<status["S"], status["R"]>> \in
            ({"FILE_NOT_FOUND", "FAILED_UNRECOVERABLE"} \X {"INIT"})
            \cup {<<"WAITING_PERMISSION", "WAITING_PERMISSION">>,
                  <<"CANCELLED_PERMISSION_BY_RECEIVER",
                    "CANCELLED_PERMISSION_BY_RECEIVER">>}
            \cup ({"FINISHED"} \X {"FINISHED", "FAILED"})
            \cup {<<"FAILED", "FAILED">>}
            \cup ({"FAILED_UNRECOVERABLE"}
                    \X {"FINISHED", "FINISHED_WARNING", "FAILED"})

\* Once a start_transfer_op thread has set its op transferring it ends, however
\* stops, failures, calls that overtake each other and losses fall: no thread
\* waits for a chunk that will not come.
ReceiverThreadEnds ==
    \A i \in Stream : thr[i] = "calling" ~> thr[i] = "done"
=============================================================================
