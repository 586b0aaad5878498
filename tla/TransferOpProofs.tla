--------------------------- MODULE TransferOpProofs ---------------------------
(***************************************************************************)
(* Safety of one transfer, for any number of files, streams, presses of a  *)
(* button and losses of the network, and for any choice of faults.         *)
(***************************************************************************)
EXTENDS TransferOp, TLAPS

-----------------------------------------------------------------------------
(***************************************************************************)
(* Bags, and the members of the constant sets.                             *)
(***************************************************************************)

\* One job or call more of kind k at e.
LEMMA PutBag ==
    ASSUME NEW K, NEW bag \in [End -> [K -> Nat]], NEW e \in End, NEW k \in K
    PROVE  Put(bag, e, k) \in [End -> [K -> Nat]]
BY DEF Put, PutN

\* n jobs more of kind k at e.
LEMMA PutNBag ==
    ASSUME NEW K, NEW bag \in [End -> [K -> Nat]], NEW e \in End, NEW k \in K,
           NEW n \in Nat
    PROVE  PutN(bag, e, k, n) \in [End -> [K -> Nat]]
BY DEF PutN

\* One job or call less of kind k at e.
LEMMA DropBag ==
    ASSUME NEW K, NEW bag \in [End -> [K -> Nat]], NEW e \in End, NEW k \in K,
           bag[e][k] > 0
    PROVE  Drop(bag, e, k) \in [End -> [K -> Nat]]
BY DEF Drop

\* A job or call turns into another of the same end.
LEMMA MoveBag ==
    ASSUME NEW K, NEW bag \in [End -> [K -> Nat]], NEW e \in End, NEW k \in K,
           NEW l \in K, bag[e][k] > 0
    PROVE  Put(Drop(bag, e, k), e, l) \in [End -> [K -> Nat]]
BY PutBag, DropBag

LEMMA Ends == /\ "S" \in End
              /\ "R" \in End
              /\ \A e \in End : Other(e) \in End
BY DEF End, Other

LEMMA JobNames ==
    /\ "prepare" \in Job /\ "gather" \in Job /\ "add" \in Job /\ "notify" \in Job
    /\ "request" \in Job /\ "restart" \in Job /\ "auto" \in Job
    /\ "start" \in Job /\ "cancel" \in Job /\ "stop" \in Job
    /\ "lost" \in Job /\ "remove" \in Job
BY DEF Job

LEMMA CallNames ==
    /\ "Process" \in Call /\ "Cancel" \in Call /\ "CancelOk" \in Call
    /\ "Stop" \in Call /\ "StopError" \in Call
BY DEF Call

LEMMA CommandTyped ==
    ASSUME NEW b \in Button
    PROVE  Owner(b) \in End /\ Command(b) \in Job
BY DEF Owner, Command, End, Job, Button

-----------------------------------------------------------------------------
(***************************************************************************)
(* Types.                                                                  *)
(***************************************************************************)

\* What an action leaves alone keeps its type.
LEMMA Untouched ==
    ASSUME TypeOK
    PROVE  /\ UNCHANGED link => LinkType'
           /\ UNCHANGED ops => OpType'
           /\ UNCHANGED <<cmd, net, clicked>> => QueueType'
           /\ UNCHANGED sending => SendingType'
           /\ UNCHANGED receiving => ReceivingType'
BY DEF TypeOK, LinkType, OpType, QueueType, SendingType, ReceivingType,
       link, ops, known, sending, receiving

LEMMA InitType == Init => TypeOK
<1> SUFFICES ASSUME Init PROVE TypeOK
  OBVIOUS
<1>1. LinkType
  BY LossAssumption DEF Init, LinkType
<1>2. OpType
  BY DEF Init, OpType, Status
<1>3. QueueType
  BY DEF Init, QueueType, None
<1>4. SendingType
  BY NAssumption DEF Init, SendingType
<1>5. ReceivingType
  BY NAssumption DEF Init, ReceivingType
<1> QED
  BY <1>1, <1>2, <1>3, <1>4, <1>5 DEF TypeOK

\* Setting one op's status, error flag or place in the list keeps OpType.
LEMMA OpUpdate ==
    ASSUME TypeOK,
           status' \in [End -> Status] \/ UNCHANGED status,
           error' \in [End -> BOOLEAN] \/ UNCHANGED error,
           \/ UNCHANGED known
           \/ /\ listed' \in [End -> BOOLEAN]
              /\ handlers' \in Nat
              /\ rewired' \in BOOLEAN
    PROVE  OpType'
BY DEF TypeOK, OpType, known

LEMMA SetStatusType ==
    ASSUME TypeOK, NEW e \in End, NEW s \in Status, SetStatus(e, s)
    PROVE  status' \in [End -> Status]
BY DEF TypeOK, OpType, SetStatus

LEMMA SetErrorType ==
    ASSUME TypeOK, NEW e \in End, SetError(e)
    PROVE  error' \in [End -> BOOLEAN]
BY DEF TypeOK, OpType, SetError

\* Putting, taking and moving jobs and calls keeps QueueType.
LEMMA QueueUpdate ==
    ASSUME TypeOK,
           UNCHANGED cmd \/ \E e \in End, k \in Job :
                              Submit(e, k) \/ Emit(e, k) \/ Take(e, k)
                              \/ \E l \in Job : Become(e, k, l),
           UNCHANGED net \/ \E e \in End, m \in Call : Send(e, m) \/ Deliver(e, m),
           UNCHANGED clicked
    PROVE  QueueType'
<1>1. cmd' \in [End -> [Job -> Nat]]
  <2>1. ASSUME NEW e \in End, NEW k \in Job, Submit(e, k)
        PROVE  cmd' \in [End -> [Job -> Nat]]
    BY <2>1, PutBag DEF Submit, TypeOK, QueueType
  <2>2. ASSUME NEW e \in End, NEW k \in Job, Take(e, k)
        PROVE  cmd' \in [End -> [Job -> Nat]]
    BY <2>2, DropBag DEF Take, TypeOK, QueueType
  <2>3. ASSUME NEW e \in End, NEW k \in Job, NEW l \in Job, Become(e, k, l)
        PROVE  cmd' \in [End -> [Job -> Nat]]
    BY <2>3, MoveBag DEF Become, BecomeN, Put, TypeOK, QueueType
  <2>4. ASSUME NEW e \in End, NEW k \in Job, Emit(e, k)
        PROVE  cmd' \in [End -> [Job -> Nat]]
    BY <2>4, PutNBag DEF Emit, TypeOK, QueueType, OpType
  <2> QED
    BY <2>1, <2>2, <2>3, <2>4 DEF TypeOK, QueueType
<1>2. net' \in [End -> [Call -> Nat]]
  <2>1. ASSUME NEW e \in End, NEW m \in Call, Send(e, m)
        PROVE  net' \in [End -> [Call -> Nat]]
    BY <2>1, PutBag DEF Send, TypeOK, QueueType
  <2>2. ASSUME NEW e \in End, NEW m \in Call, Deliver(e, m)
        PROVE  net' \in [End -> [Call -> Nat]]
    BY <2>2, DropBag DEF Deliver, TypeOK, QueueType
  <2> QED
    BY <2>1, <2>2 DEF TypeOK, QueueType
<1> QED
  BY <1>1, <1>2 DEF TypeOK, QueueType

\* set_error, a status and a stop in the queue: the types after report_receive_error
LEMMA ReportType ==
    ASSUME TypeOK, NEW i \in Stream, ReportReceiveError(i), UNCHANGED <<known, net, clicked>>
    PROVE  /\ OpType'
           /\ QueueType'
           /\ thr' \in [Stream -> {"none", "calling", "recv", "counting", "done"}]
           /\ call' \in [Stream -> {"none", "open", "cancelled", "broken", "complete"}]
           /\ iterator' \in Stream \cup {NoStream}
<1>1. OpType'
  BY Ends, OpUpdate, SetErrorType, SetStatusType DEF ReportReceiveError, Status
<1>2. QueueType'
  BY Ends, JobNames, QueueUpdate DEF ReportReceiveError
<1> QED
  BY <1>1, <1>2 DEF ReportReceiveError, TypeOK, ReceivingType

\* Preparing, offering and answering
\* An op at R that accepts itself may start; nothing else is queued.
LEMMA AutoCounts ==
    ASSUME TypeOK, CheckForAutostart
    PROVE  /\ cmd' \in [End -> [Job -> Nat]]
           /\ cmd["R"]["auto"] > 0
           /\ \A f \in End, l \in Job :
                \/ f = "R" /\ l \in {"auto", "start"}
                \/ cmd'[f][l] = cmd[f][l]
           /\ \/ cmd'["R"]["start"] = cmd["R"]["start"]
              \/ /\ status["R"] = "WAITING_PERMISSION" /\ ~RequirePermission
                 /\ cmd'["R"]["start"] = cmd["R"]["start"] + handlers
<1> DEFINE rest == Drop(cmd, "R", "auto")
<1>1. cmd \in [End -> [Job -> Nat]] /\ handlers \in Nat /\ cmd["R"]["auto"] > 0
  BY DEF CheckForAutostart, BecomeN, Take, TypeOK, QueueType, OpType
<1>2. rest \in [End -> [Job -> Nat]]
  BY <1>1, Ends, JobNames, DropBag
<1>3. \A f \in End, l \in Job : f # "R" \/ l # "auto" => rest[f][l] = cmd[f][l]
  BY <1>1 DEF Drop
<1>4. \/ cmd' = rest
      \/ /\ status["R"] = "WAITING_PERMISSION" /\ ~RequirePermission
         /\ cmd' = PutN(rest, "R", "start", handlers)
  BY DEF CheckForAutostart, BecomeN, Take
<1> HIDE DEF rest
<1>5. ASSUME cmd' = PutN(rest, "R", "start", handlers)
      PROVE  /\ cmd' \in [End -> [Job -> Nat]]
             /\ \A f \in End, l \in Job : f # "R" \/ l # "start" => cmd'[f][l] = rest[f][l]
             /\ cmd'["R"]["start"] = rest["R"]["start"] + handlers
  BY <1>1, <1>2, <1>5, Ends, JobNames, PutNBag DEF PutN
<1> QED
  BY <1>1, <1>2, <1>3, <1>4, <1>5, Ends, JobNames

LEMMA JobsType ==
    ASSUME TypeOK, SenderJob \/ ReceiverJob
    PROVE  TypeOK'
<1>1. CASE AddSendOp
  <2>1. OpType'
    BY <1>1, OpUpdate DEF AddSendOp, TypeOK, OpType
  <2> QED
    BY <1>1, <2>1, Ends, JobNames, QueueUpdate, Untouched DEF AddSendOp, TypeOK
<1>2. CASE PrepareSendInfo
  BY <1>2, Ends, JobNames, QueueUpdate, OpUpdate, SetStatusType, Untouched
     DEF PrepareSendInfo, TypeOK, Status
<1>3. CASE GatherFileInfo
  <2>1. ASSUME NEW s \in Status, UpdateUiInfo(s)
        PROVE  TypeOK'
    <3>1. error' \in [End -> BOOLEAN]
      BY <2>1, Ends DEF UpdateUiInfo, TypeOK, OpType
    <3> QED
      BY <2>1, <3>1, Ends, JobNames, QueueUpdate, OpUpdate, SetStatusType, Untouched
         DEF UpdateUiInfo, TypeOK
  <2> QED
    BY <1>3, <2>1 DEF GatherFileInfo, Status
<1>4. CASE NotifyRemoteMachine
  BY <1>4, Ends, JobNames, QueueUpdate, Untouched DEF NotifyRemoteMachine, TypeOK
<1>5. CASE SendTransferOpRequest
  BY <1>5, Ends, JobNames, CallNames, QueueUpdate, Untouched
     DEF SendTransferOpRequest, TypeOK
<1>6. CASE RetryTransfer
  BY <1>6, Ends, JobNames, QueueUpdate, OpUpdate, SetStatusType, Untouched
     DEF RetryTransfer, TypeOK, Status
<1>7. CASE ProcessKnownOp
  BY <1>7, Ends, JobNames, CallNames, QueueUpdate, OpUpdate, SetStatusType, Untouched
     DEF ProcessKnownOp, TypeOK, Status
<1>8. CASE ProcessNewOp
  <2>1. OpType'
    <3>1. error' \in [End -> BOOLEAN]
      BY <1>8, Ends, SetErrorType DEF ProcessNewOp, TypeOK, OpType
    <3> QED
      BY <1>8, <3>1, Ends, OpUpdate, SetStatusType
         DEF ProcessNewOp, Status, TypeOK, OpType
  <2>2. QueueType'
    BY <1>8, Ends, JobNames, CallNames, QueueUpdate DEF ProcessNewOp
  <2>3. ReceivingType'
    BY <1>8, NAssumption DEF ProcessNewOp, TypeOK, ReceivingType
  <2> QED
    BY <1>8, <2>1, <2>2, <2>3, Untouched DEF ProcessNewOp, TypeOK
<1>9. CASE AddReceiveOp
  <2>1. OpType'
    BY <1>9, Ends, OpUpdate DEF AddReceiveOp, AppendReceiveOp, TypeOK, OpType
  <2>2. handlers' \in Nat
    BY <2>1 DEF OpType
  <2>3. cmd' \in [End -> [Job -> Nat]]
    <3>1. cmd \in [End -> [Job -> Nat]] /\ cmd["R"]["add"] > 0
      BY <1>9 DEF AddReceiveOp, Become, BecomeN, Put, TypeOK, QueueType
    <3>2. Drop(cmd, "R", "add") \in [End -> [Job -> Nat]]
      BY <3>1, Ends, JobNames, DropBag
    <3>3. PutN(Drop(cmd, "R", "add"), "R", "cancel", handlers') \in [End -> [Job -> Nat]]
      BY <2>2, <3>2, Ends, JobNames, PutNBag
    <3>4. Put(Drop(cmd, "R", "add"), "R", "auto") \in [End -> [Job -> Nat]]
      BY <3>2, Ends, JobNames, PutBag
    <3> QED
      BY <1>9, <3>3, <3>4 DEF AddReceiveOp, Become, BecomeN, Put
  <2>4. QueueType'
    BY <1>9, <2>3 DEF AddReceiveOp, AppendReceiveOp, TypeOK, QueueType
  <2> QED
    BY <1>9, <2>1, <2>4, Untouched DEF AddReceiveOp, AppendReceiveOp, TypeOK
<1>10. CASE CheckForAutostart
  <2>1. QueueType'
    BY <1>10, AutoCounts DEF CheckForAutostart, TypeOK, QueueType
  <2> QED
    BY <1>10, <2>1, Untouched DEF CheckForAutostart, TypeOK
<1> QED
  BY <1>1, <1>2, <1>3, <1>4, <1>5, <1>6, <1>7, <1>8, <1>9, <1>10
     DEF SenderJob, ReceiverJob

\* Interrupting a stream touches only the cancellable or the call.
LEMMA InterruptType ==
    ASSUME TypeOK, NEW e \in End, Interrupt(e)
    PROVE  SendingType' /\ ReceivingType'
BY DEF Interrupt, SetCancellable, CancelIterator, TypeOK, SendingType,
       ReceivingType, NoStream

\* Cancelling, stopping and removing
LEMMA AnswersType ==
    ASSUME TypeOK, NEW e \in End, Jobs(e) \/ Calls(e)
    PROVE  TypeOK'
<1>0. CancelledBy(e) \in Status /\ CancelledBy(Other(e)) \in Status
      /\ StoppedBy(e) \in Status /\ StoppedBy(Other(e)) \in Status
      /\ "FAILED" \in Status
  BY DEF CancelledBy, StoppedBy, Status
<1>1. CASE CancelTransferOpRequest(e)
  BY <1>1, Ends, JobNames, CallNames, QueueUpdate, Untouched
     DEF CancelTransferOpRequest, TypeOK
<1>2. CASE CancelReturned(e)
  BY <1>0, <1>2, CallNames, QueueUpdate, OpUpdate, SetStatusType, Untouched
     DEF CancelReturned, TypeOK
<1>3. CASE StopTransferOp(e)
  <2>1. CASE NothingToStop(e)
    BY <1>3, <2>1, JobNames, QueueUpdate, OpUpdate, Untouched
       DEF StopTransferOp, TypeOK
  <2>2. CASE ~NothingToStop(e)
    BY <1>0, <1>3, <2>2, Ends, JobNames, CallNames, QueueUpdate, OpUpdate,
       SetStatusType, InterruptType, Untouched
       DEF StopTransferOp, TypeOK
  <2> QED
    BY <2>1, <2>2
<1>4. CASE StopLostTransferOp(e)
  BY <1>4, JobNames, QueueUpdate, InterruptType, Untouched
     DEF StopLostTransferOp, TypeOK
<1>5. CASE RemoveOp(e)
  <2>1. OpType'
    BY <1>5, OpUpdate DEF RemoveOp, TypeOK, OpType
  <2> QED
    BY <1>5, <2>1, JobNames, QueueUpdate, Untouched DEF RemoveOp, TypeOK
<1>6. CASE HandleCancel(e)
  <2>1. net' \in [End -> [Call -> Nat]]
    <3>1. Drop(net, e, "Cancel") \in [End -> [Call -> Nat]]
      BY <1>6, CallNames, DropBag DEF HandleCancel, TypeOK, QueueType
    <3>2. Put(Drop(net, e, "Cancel"), Other(e), "CancelOk")
            \in [End -> [Call -> Nat]]
      BY <3>1, Ends, CallNames, PutBag
    <3> QED
      BY <1>6, <3>1, <3>2 DEF HandleCancel
  <2>2. QueueType'
    BY <1>6, <2>1 DEF HandleCancel, TypeOK, QueueType
  <2>3. OpType'
    BY <1>0, <1>6, OpUpdate, SetStatusType DEF HandleCancel
  <2> QED
    BY <1>6, <2>2, <2>3, Untouched DEF HandleCancel, TypeOK
<1>7. ASSUME NEW m \in Call, HandleStop(e, m)
      PROVE  TypeOK'
  <2>1. QueueType'
    BY <1>7, QueueUpdate DEF HandleStop
  <2>2. CASE ~listed[e]
    BY <1>7, <2>1, <2>2, OpUpdate, Untouched DEF HandleStop, TypeOK
  <2>3. CASE listed[e]
    <3>1. error' \in [End -> BOOLEAN]
      BY <1>7, <2>3 DEF HandleStop, TypeOK, OpType
    <3>2. status' \in [End -> Status]
      BY <1>0, <1>7, <2>3, SetStatusType DEF HandleStop
    <3> QED
      BY <1>7, <2>1, <2>3, <3>1, <3>2, OpUpdate, InterruptType, Untouched
         DEF HandleStop, TypeOK
  <2> QED
    BY <2>2, <2>3
<1> QED
  BY <1>1, <1>2, <1>3, <1>4, <1>5, <1>6, <1>7, CallNames DEF Jobs, Calls

\* Streaming
LEMMA StreamsType ==
    ASSUME TypeOK, NEW i \in Stream,
           StartTransferOp(i) \/ ReceiverThread(i) \/ WriteError(i) \/ SenderThread(i)
    PROVE  TypeOK'
<1>0. "TRANSFERRING" \in Status /\ "FINISHED" \in Status
      /\ "FINISHED_WARNING" \in Status /\ "FAILED_UNRECOVERABLE" \in Status
  BY DEF Status
<1>1. CASE StartTransferOp(i)
  <2>1. ReceivingType'
    BY <1>1 DEF StartTransferOp, TypeOK, ReceivingType
  <2> QED
    BY <1>0, <1>1, <2>1, Ends, JobNames, QueueUpdate, OpUpdate, SetStatusType,
       Untouched DEF StartTransferOp, TypeOK
<1>2. CASE CallStartTransfer(i)
  <2>1. ReceivingType'
    BY <1>2 DEF CallStartTransfer, TypeOK, ReceivingType
  <2>2. SendingType'
    BY <1>2 DEF CallStartTransfer, TypeOK, SendingType
  <2> QED
    BY <1>2, <2>1, <2>2, Untouched DEF CallStartTransfer, TypeOK
<1>3. CASE ReceiveFile(i)
  <2>1. remaining' \in Int
    BY <1>3 DEF ReceiveFile, Closed, TypeOK, ReceivingType
  <2>2. CASE ReportReceiveError(i) /\ UNCHANGED got
    BY <1>3, <2>1, <2>2, ReportType, Untouched
       DEF ReceiveFile, TypeOK, ReceivingType
  <2>3. CASE /\ got' = [got EXCEPT ![i] = @ + 1]
             /\ UNCHANGED <<status, error, cmd, thr, call, iterator>>
    <3>1. got[i] + 1 \in 0 .. N
      BY <1>3, NAssumption DEF ReceiveFile, TypeOK, SendingType, ReceivingType
    <3>2. ReceivingType'
      BY <2>1, <2>3, <3>1 DEF TypeOK, ReceivingType
    <3> QED
      BY <1>3, <2>3, <3>2, OpUpdate, Untouched DEF ReceiveFile, TypeOK
  <2> QED
    BY <1>3, <2>2, <2>3 DEF ReceiveFile
<1>4. CASE WriteError(i)
  BY <1>4, ReportType, Untouched DEF WriteError, TypeOK, ReceivingType
<1>5. CASE ReceiveFinished(i)
  <2>1. ReceivingType'
    BY <1>5 DEF ReceiveFinished, Closed, TypeOK, ReceivingType
  <2>2. OpType'
    BY <1>0, <1>5, Ends, OpUpdate, SetStatusType DEF ReceiveFinished
  <2> QED
    BY <1>5, <2>1, <2>2, Untouched DEF ReceiveFinished, TypeOK
<1>12. CASE CountFiles(i)
  <2>1. ReceivingType'
    BY <1>12 DEF CountFiles, TypeOK, ReceivingType
  <2>2. OpType'
    BY <1>0, <1>12, Ends, OpUpdate, SetStatusType, SetErrorType DEF CountFiles
  <2> QED
    BY <1>12, <2>1, <2>2, Untouched DEF CountFiles, TypeOK
<1>6. CASE ReceiveCancelled(i)
  BY <1>6, Untouched DEF ReceiveCancelled, TypeOK, ReceivingType
<1>7. CASE ReceiveBroken(i)
  BY <1>7, ReportType, Untouched DEF ReceiveBroken, TypeOK, ReceivingType
<1>8. CASE StartTransfer(i)
  <2>1. SendingType'
    BY <1>8 DEF StartTransfer, TypeOK, SendingType
  <2>2. ReceivingType'
    BY <1>8 DEF StartTransfer, TypeOK, ReceivingType
  <2>3. OpType'
    BY <1>0, <1>8, Ends, OpUpdate, SetStatusType DEF StartTransfer
  <2> QED
    BY <1>8, <2>1, <2>2, <2>3, Untouched DEF StartTransfer, TypeOK
<1>9. CASE YieldFirstChunk(i)
  <2>1. sent' \in [Stream -> 0 .. N]
    BY <1>9, NAssumption DEF YieldFirstChunk, TypeOK, SendingType
  <2>2. SendingType'
    BY <1>9, <2>1 DEF YieldFirstChunk, Generate, TypeOK, SendingType
  <2> QED
    BY <1>9, <2>2, OpUpdate, Untouched DEF YieldFirstChunk, Generate, TypeOK
\* the other steps of the generator
<1>10. ASSUME UNCHANGED sent,
              UNCHANGED status \/ SetStatus("S", "FINISHED"),
              Generate(i, "between") \/ Generate(i, "eof") \/ Generate(i, "cut")
              \/ Generate(i, "error") \/ Generate(i, "closed")
       PROVE  TypeOK'
  <2>1. SendingType'
    BY <1>10 DEF Generate, TypeOK, SendingType
  <2>2. OpType'
    BY <1>0, <1>10, Ends, OpUpdate, SetStatusType DEF Generate
  <2> QED
    BY <1>10, <2>1, <2>2, Untouched DEF Generate, TypeOK
<1>11. CASE TransferDone(i)
  <2>1. SendingType'
    BY <1>11 DEF TransferDone, TypeOK, SendingType
  <2>2. OpType'
    BY <1>0, <1>11, Ends, OpUpdate, SetStatusType, SetErrorType DEF TransferDone
  <2> QED
    BY <1>11, <2>1, <2>2, Untouched DEF TransferDone, TypeOK
<1> QED
  BY <1>1, <1>2, <1>3, <1>4, <1>5, <1>6, <1>7, <1>8, <1>9, <1>10, <1>11, <1>12
     DEF ReceiverThread, SenderThread, YieldLastChunk, AllFilesSent, SendStopped,
         ReadError, GeneratorDropped

\* The network
LEMMA NetworkType ==
    ASSUME TypeOK, Network
    PROVE  TypeOK'
<1>1. CASE ConnectionLost
  <2>1. LinkType'
    <3>1. losses' \in 0 .. MaxLoss
      BY <1>1, LossAssumption DEF ConnectionLost, TypeOK, LinkType
    <3> QED
      BY <1>1, <3>1 DEF ConnectionLost, TypeOK, LinkType
  <2>2. QueueType'
    BY <1>1 DEF ConnectionLost, None, TypeOK, QueueType
  <2>3. SendingType'
    BY <1>1 DEF ConnectionLost, TypeOK, SendingType
  <2>4. ReceivingType'
    BY <1>1 DEF ConnectionLost, TypeOK, ReceivingType
  <2> QED
    BY <1>1, <2>1, <2>2, <2>3, <2>4, Untouched DEF ConnectionLost, TypeOK
<1>2. CASE ConnectionRestored
  BY <1>2, Untouched DEF ConnectionRestored, TypeOK, LinkType
<1>3. ASSUME NEW e \in End, CancelOpsIfOffline(e)
      PROVE  TypeOK'
  <2>1. LinkType'
    BY <1>3 DEF CancelOpsIfOffline, TypeOK, LinkType
  <2>2. QueueType'
    BY <1>3, JobNames, QueueUpdate DEF CancelOpsIfOffline
  <2>3. "FAILED" \in Status /\ "FAILED_UNRECOVERABLE" \in Status
    BY DEF Status
  <2>4. OpType'
    BY <1>3, <2>3, OpUpdate, SetStatusType, SetErrorType DEF CancelOpsIfOffline
  <2> QED
    BY <1>3, <2>1, <2>2, <2>4, Untouched DEF CancelOpsIfOffline, TypeOK
<1>4. ASSUME NEW e \in End, RemoteOnline(e)
      PROVE  TypeOK'
  BY <1>4, Untouched DEF RemoteOnline, TypeOK, LinkType
<1> QED
  BY <1>1, <1>2, <1>3, <1>4 DEF Network

LEMMA ClickType ==
    ASSUME TypeOK, NEW b \in Button, Click(b)
    PROVE  TypeOK'
<1>1. cmd' \in [End -> [Job -> Nat]]
  BY CommandTyped, PutNBag DEF Click, Emit, TypeOK, QueueType, OpType
<1>2. QueueType'
  BY <1>1 DEF Click, TypeOK, QueueType
<1> QED
  BY <1>2, Untouched DEF Click, TypeOK

LEMMA NextType == TypeOK /\ [Next]_vars => TypeOK'
<1>1. ASSUME TypeOK, UNCHANGED vars
      PROVE  TypeOK'
  BY <1>1, Untouched DEF vars, TypeOK
<1> QED
  BY <1>1, JobsType, AnswersType, StreamsType, NetworkType, ClickType DEF Next

\* Every state variable keeps its type: no step reads a bag, a stream or a count
\* outside its bounds.
THEOREM TypeCorrect == Spec => []TypeOK
BY InitType, NextType, PTL DEF Spec

-----------------------------------------------------------------------------
(***************************************************************************)
(* How a step changes the counts of jobs, calls and presses.               *)
(***************************************************************************)
LEMMA JobCounts ==
    ASSUME TypeOK, NEW e \in End, NEW k \in Job
    PROVE  /\ Submit(e, k) =>
                \A f \in End, l \in Job :
                    cmd'[f][l] = IF f = e /\ l = k THEN cmd[f][l] + 1 ELSE cmd[f][l]
           /\ Take(e, k) =>
                /\ cmd[e][k] > 0
                /\ \A f \in End, l \in Job :
                    cmd'[f][l] = IF f = e /\ l = k THEN cmd[f][l] - 1 ELSE cmd[f][l]
<1>1. cmd \in [End -> [Job -> Nat]]
  BY DEF TypeOK, QueueType
<1>2. \A f \in End, l \in Job :
        Put(cmd, e, k)[f][l] = IF f = e /\ l = k THEN cmd[f][l] + 1 ELSE cmd[f][l]
  BY <1>1 DEF Put, PutN
<1>3. \A f \in End, l \in Job :
        Drop(cmd, e, k)[f][l] = IF f = e /\ l = k THEN cmd[f][l] - 1 ELSE cmd[f][l]
  BY <1>1 DEF Drop
<1> QED
  BY <1>2, <1>3 DEF Submit, Take

LEMMA MoveCounts ==
    ASSUME TypeOK, NEW e \in End, NEW k \in Job, NEW m \in Job, m # k,
           Become(e, k, m)
    PROVE  \A f \in End, l \in Job :
             cmd'[f][l] = IF f = e /\ l = k THEN cmd[f][l] - 1
                          ELSE IF f = e /\ l = m THEN cmd[f][l] + 1 ELSE cmd[f][l]
<1> DEFINE rest == Drop(cmd, e, k)
<1>1. cmd \in [End -> [Job -> Nat]] /\ cmd[e][k] > 0 /\ cmd' = Put(rest, e, m)
  BY DEF TypeOK, QueueType, Become, BecomeN, Put
<1>2. rest \in [End -> [Job -> Nat]]
  BY <1>1, DropBag
<1>3. \A f \in End, l \in Job :
        rest[f][l] = IF f = e /\ l = k THEN cmd[f][l] - 1 ELSE cmd[f][l]
  BY <1>1 DEF Drop
<1> HIDE DEF rest
<1>4. \A f \in End, l \in Job :
        Put(rest, e, m)[f][l] =
          IF f = e /\ l = m THEN rest[f][l] + 1 ELSE rest[f][l]
  BY <1>2 DEF Put, PutN
<1> QED
  BY <1>1, <1>3, <1>4

LEMMA EmitCounts ==
    ASSUME TypeOK, NEW e \in End, NEW k \in Job, Emit(e, k)
    PROVE  \E n \in Nat :
             /\ e = "R" => n = handlers
             /\ \A f \in End, l \in Job :
                 cmd'[f][l] = IF f = e /\ l = k THEN cmd[f][l] + n ELSE cmd[f][l]
<1>1. cmd \in [End -> [Job -> Nat]] /\ handlers \in Nat
  BY DEF TypeOK, QueueType, OpType
<1>2. ASSUME NEW n \in Nat
      PROVE  \A f \in End, l \in Job :
               PutN(cmd, e, k, n)[f][l] =
                 IF f = e /\ l = k THEN cmd[f][l] + n ELSE cmd[f][l]
  BY <1>1 DEF PutN
<1>3. CASE e = "S"
  BY <1>2, <1>3 DEF Emit
<1>4. CASE e = "R"
  BY <1>1, <1>2, <1>4 DEF Emit
<1> QED
  BY <1>3, <1>4 DEF End

\* Adding an op at R queues its autostart, or declines it.
LEMMA AddCounts ==
    ASSUME TypeOK, AddReceiveOp
    PROVE  \A f \in End, l \in Job :
             \/ f = "R" /\ l \in {"add", "auto", "cancel"}
             \/ cmd'[f][l] = cmd[f][l]
<1> DEFINE rest == Drop(cmd, "R", "add")
<1>1. cmd \in [End -> [Job -> Nat]] /\ cmd["R"]["add"] > 0
  BY DEF AddReceiveOp, Become, BecomeN, Put, TypeOK, QueueType
<1>2. rest \in [End -> [Job -> Nat]]
  BY <1>1, Ends, JobNames, DropBag
<1>3. \A f \in End, l \in Job : f # "R" \/ l # "add" => rest[f][l] = cmd[f][l]
  BY <1>1 DEF Drop
<1>4. cmd' = PutN(rest, "R", "cancel", handlers') \/ cmd' = PutN(rest, "R", "auto", 1)
  BY DEF AddReceiveOp, Become, BecomeN, Put
<1> HIDE DEF rest
<1>5. ASSUME NEW k \in {"cancel", "auto"}, NEW n, cmd' = PutN(rest, "R", k, n)
      PROVE  \A f \in End, l \in Job : f # "R" \/ l # k => cmd'[f][l] = rest[f][l]
  BY <1>2, <1>5 DEF PutN
<1> QED
  BY <1>3, <1>4, <1>5

LEMMA CallCounts ==
    ASSUME TypeOK, NEW e \in End, NEW k \in Call
    PROVE  /\ Send(e, k) =>
                \A f \in End, l \in Call :
                    \/ net'[f][l] = net[f][l]
                    \/ f = e /\ l = k /\ net'[f][l] = net[f][l] + 1
           /\ Deliver(e, k) =>
                /\ net[e][k] > 0
                /\ \A f \in End, l \in Call :
                    net'[f][l] = IF f = e /\ l = k THEN net[f][l] - 1 ELSE net[f][l]
<1>1. net \in [End -> [Call -> Nat]]
  BY DEF TypeOK, QueueType
<1>2. \A f \in End, l \in Call :
        Put(net, e, k)[f][l] = IF f = e /\ l = k THEN net[f][l] + 1 ELSE net[f][l]
  BY <1>1 DEF Put, PutN
<1>3. \A f \in End, l \in Call :
        Drop(net, e, k)[f][l] = IF f = e /\ l = k THEN net[f][l] - 1 ELSE net[f][l]
  BY <1>1 DEF Drop
<1> QED
  BY <1>2, <1>3 DEF Send, Deliver

-----------------------------------------------------------------------------
(***************************************************************************)
(* Every stream was accepted.  The k-th start in the queue or under way    *)
(* needs a press of its own, so the streams and the starts that wait are   *)
(* counted together.                                                       *)
(***************************************************************************)
AcceptInv ==
    RequirePermission /\ ~rewired =>
        /\ handlers <= 1
        /\ cmd["R"]["start"] <= clicked["accept"]
        /\ \A i \in Stream :
             thr[i] # "none" => i + cmd["R"]["start"] <= clicked["accept"]

\* No start is queued, no stream is started.
AcceptIdle ==
    /\ rewired => rewired'
    /\ handlers' <= 1 \/ UNCHANGED handlers \/ rewired'
    /\ cmd'["R"]["start"] = cmd["R"]["start"]
    /\ clicked'["accept"] = clicked["accept"]
    /\ \A i \in Stream : thr'[i] # "none" => thr[i] # "none"

LEMMA AcceptIdleKeeps == AcceptInv /\ AcceptIdle => AcceptInv'
BY DEF AcceptInv, AcceptIdle

\* Queueing, running and replacing any other job starts nothing.
LEMMA AcceptOtherJob ==
    ASSUME TypeOK, UNCHANGED <<clicked, thr>>,
           UNCHANGED known \/ UNCHANGED <<handlers, rewired>>,
           \/ UNCHANGED cmd
           \/ \E e \in End, k \in Job \ {"start"} :
                 \/ Submit(e, k)
                 \/ Take(e, k)
                 \/ \E m \in Job \ {"start", k} : Become(e, k, m)
    PROVE  AcceptIdle
<1>1. ASSUME NEW e \in End, NEW k \in Job \ {"start"}, Submit(e, k)
      PROVE  cmd'["R"]["start"] = cmd["R"]["start"]
  BY <1>1, Ends, JobNames, JobCounts
<1>2. ASSUME NEW e \in End, NEW k \in Job \ {"start"}, Take(e, k)
      PROVE  cmd'["R"]["start"] = cmd["R"]["start"]
  BY <1>2, Ends, JobNames, JobCounts
<1>3. ASSUME NEW e \in End, NEW k \in Job \ {"start"},
             NEW m \in Job \ {"start", k}, Become(e, k, m)
      PROVE  cmd'["R"]["start"] = cmd["R"]["start"]
  BY <1>3, Ends, JobNames, MoveCounts
<1> QED
  BY <1>1, <1>2, <1>3 DEF AcceptIdle, known

LEMMA AcceptJobs ==
    ASSUME TypeOK, SenderJob \/ ReceiverJob, RequirePermission
    PROVE  AcceptIdle
<1> USE Ends, JobNames, AcceptOtherJob DEF receiving, ops
<1>1. CASE AddSendOp
  BY <1>1 DEF AddSendOp
<1>2. CASE PrepareSendInfo
  BY <1>2 DEF PrepareSendInfo
<1>3. CASE GatherFileInfo
  BY <1>3 DEF GatherFileInfo, UpdateUiInfo
<1>4. CASE NotifyRemoteMachine
  BY <1>4 DEF NotifyRemoteMachine
<1>5. CASE SendTransferOpRequest
  BY <1>5 DEF SendTransferOpRequest
<1>6. CASE RetryTransfer
  BY <1>6 DEF RetryTransfer
<1>7. CASE ProcessKnownOp
  BY <1>7 DEF ProcessKnownOp
<1>8. CASE ProcessNewOp
  BY <1>8, JobCounts DEF ProcessNewOp, AcceptIdle
<1>9. CASE AddReceiveOp
  <2>1. /\ UNCHANGED <<clicked, thr>>
        /\ rewired => rewired'
        /\ handlers' <= 1 \/ UNCHANGED handlers \/ rewired'
    <3>1. UNCHANGED <<clicked, thr>> /\ (rewired => rewired')
      BY <1>9 DEF AddReceiveOp, AppendReceiveOp
    <3>2. handlers' \in Int /\ rewired' = (rewired \/ handlers' > 1)
      BY <1>9 DEF AddReceiveOp, AppendReceiveOp, TypeOK, OpType
    <3>3. handlers' <= 1 \/ handlers' > 1
      BY <3>2
    <3>4. handlers' > 1 => rewired'
      BY <3>2, Zenon
    <3> QED
      BY <3>1, <3>3, <3>4
  <2> QED
    BY <1>9, <2>1, AddCounts DEF AcceptIdle
<1>10. CASE CheckForAutostart
  <2>1. UNCHANGED <<clicked, thr, handlers, rewired>>
    BY <1>10 DEF CheckForAutostart, known
  <2> QED
    BY <1>10, <2>1, AutoCounts DEF AcceptIdle
<1> QED
  BY <1>1, <1>2, <1>3, <1>4, <1>5, <1>6, <1>7, <1>8, <1>9, <1>10
     DEF SenderJob, ReceiverJob

LEMMA AcceptAnswers ==
    ASSUME TypeOK, NEW e \in End, Jobs(e) \/ Calls(e)
    PROVE  AcceptIdle
<1> USE Ends, JobNames, AcceptOtherJob DEF receiving, ops
<1>1. CASE CancelTransferOpRequest(e)
  BY <1>1 DEF CancelTransferOpRequest
<1>2. CASE CancelReturned(e)
  BY <1>2 DEF CancelReturned
<1>3. CASE StopTransferOp(e)
  BY <1>3 DEF StopTransferOp, Interrupt
<1>4. CASE StopLostTransferOp(e)
  BY <1>4 DEF StopLostTransferOp, Interrupt
<1>5. CASE RemoveOp(e)
  BY <1>5 DEF RemoveOp
<1>6. CASE HandleCancel(e)
  BY <1>6 DEF HandleCancel
<1>7. CASE HandleStop(e, "Stop") \/ HandleStop(e, "StopError")
  BY <1>7 DEF HandleStop, Interrupt
<1> QED
  BY <1>1, <1>2, <1>3, <1>4, <1>5, <1>6, <1>7 DEF Jobs, Calls

LEMMA AcceptStreams ==
    ASSUME TypeOK, NEW i \in Stream,
           ReceiverThread(i) \/ WriteError(i) \/ SenderThread(i)
    PROVE  AcceptIdle
<1>0. thr \in [Stream -> {"none", "calling", "recv", "counting", "done"}]
  BY DEF TypeOK, ReceivingType
<1>1. ReportReceiveError(i) /\ UNCHANGED <<known, clicked>> /\ thr[i] = "recv"
        => AcceptIdle
  BY <1>0, Ends, JobNames, EmitCounts DEF ReportReceiveError, AcceptIdle, known
<1>2. ReceiverThread(i) \/ WriteError(i) => AcceptIdle
  BY <1>0, <1>1
     DEF ReceiverThread, CallStartTransfer, ReceiveFile, WriteError, ReceiveFinished,
         CountFiles, ReceiveCancelled, ReceiveBroken, Receiving, AcceptIdle, ops, known
<1>3. SenderThread(i) => AcceptIdle
  BY DEF SenderThread, StartTransfer, YieldFirstChunk, YieldLastChunk, AllFilesSent,
         SendStopped, ReadError, TransferDone, GeneratorDropped, Generate, receiving,
         AcceptIdle, ops, known
<1> QED
  BY <1>2, <1>3

LEMMA AcceptNetwork ==
    ASSUME TypeOK, Network
    PROVE  AcceptIdle
<1>1. CASE ConnectionLost
  BY <1>1, AcceptOtherJob DEF ConnectionLost, ops
<1>2. CASE ConnectionRestored
  BY <1>2, AcceptOtherJob DEF ConnectionRestored, receiving, ops
<1>3. ASSUME NEW e \in End, CancelOpsIfOffline(e)
      PROVE  AcceptIdle
  BY <1>3, JobNames, AcceptOtherJob DEF CancelOpsIfOffline, receiving
<1>4. ASSUME NEW e \in End, RemoteOnline(e)
      PROVE  AcceptIdle
  BY <1>4, AcceptOtherJob DEF RemoteOnline, receiving, ops
<1> QED
  BY <1>1, <1>2, <1>3, <1>4 DEF Network

LEMMA AcceptStart ==
    ASSUME TypeOK, AcceptInv, NEW i \in Stream, StartTransferOp(i)
    PROVE  AcceptInv'
<1> SUFFICES ASSUME RequirePermission, ~rewired
             PROVE  AcceptInv'
  BY DEF AcceptInv, StartTransferOp, known
<1>0. UNCHANGED <<handlers, rewired>>
  BY DEF StartTransferOp, known
<1>1. /\ cmd["R"]["start"] \in Nat \ {0}
      /\ cmd'["R"]["start"] = cmd["R"]["start"] - 1
      /\ UNCHANGED clicked
      /\ clicked["accept"] \in Nat
  BY Ends, JobNames, JobCounts
     DEF StartTransferOp, Take, TypeOK, QueueType, Button
<1>2. i + cmd'["R"]["start"] <= clicked["accept"]
  <2>1. CASE i = 1
    BY <1>1, <2>1 DEF AcceptInv
  <2>2. CASE i > 1
    <3>1. i - 1 \in Stream /\ thr[i - 1] # "none"
      BY <2>2, StreamsAssumption DEF Stream, StartTransferOp
    <3>2. (i - 1) + cmd["R"]["start"] <= clicked["accept"]
      BY <3>1 DEF AcceptInv
    <3> QED
      BY <1>1, <3>2 DEF Stream
  <2> QED
    BY <2>1, <2>2 DEF Stream
<1>3. \A j \in Stream : j # i => thr'[j] = thr[j]
  BY DEF StartTransferOp, TypeOK, ReceivingType
<1> QED
  BY <1>0, <1>1, <1>2, <1>3 DEF AcceptInv, Stream

LEMMA AcceptClick ==
    ASSUME TypeOK, AcceptInv, NEW b \in Button, Click(b)
    PROVE  AcceptInv'
<1>0. UNCHANGED <<handlers, rewired>>
  BY DEF Click, ops, known
<1> SUFFICES ASSUME RequirePermission, ~rewired
             PROVE  AcceptInv'
  BY <1>0 DEF AcceptInv
<1>1. /\ clicked \in [Button -> Nat]
      /\ "accept" \in Button
      /\ cmd["R"]["start"] \in Nat
      /\ UNCHANGED thr
      /\ clicked'["accept"] = IF b = "accept" THEN clicked["accept"] + 1
                                              ELSE clicked["accept"]
  BY Ends, JobNames DEF Click, TypeOK, QueueType, Button, receiving
<1>2. /\ b # "accept" => cmd'["R"]["start"] = cmd["R"]["start"]
      /\ b = "accept" => cmd'["R"]["start"] = cmd["R"]["start"] + handlers
  <2>1. Owner(b) = "R" /\ Command(b) = "start" <=> b = "accept"
    BY DEF Owner, Command, Button
  <2>2. Emit(Owner(b), Command(b))
    BY DEF Click
  <2> QED
    BY <2>1, <2>2, CommandTyped, Ends, JobNames, EmitCounts
<1>3. handlers \in 0 .. 1
  BY DEF AcceptInv, TypeOK, OpType
<1>4. cmd'["R"]["start"] <= clicked'["accept"]
  BY <1>1, <1>2, <1>3 DEF AcceptInv
<1>5. ASSUME NEW i \in Stream, thr[i] # "none"
      PROVE  i + cmd'["R"]["start"] <= clicked'["accept"]
  BY <1>1, <1>2, <1>3, <1>5 DEF AcceptInv, Stream
<1> QED
  BY <1>0, <1>1, <1>3, <1>4, <1>5 DEF AcceptInv

\* With ask-for-send-permission set, the i-th stream of the op starts only after
\* accept was pressed i times, unless add_op connected the op twice.
THEOREM StreamsAccepted == Spec => []EveryStreamAccepted
<1>1. Init => AcceptInv
  BY Ends, JobNames DEF Init, AcceptInv, None, Button, Stream
<1>2. TypeOK /\ AcceptInv /\ [Next]_vars => AcceptInv'
  <2>1. ASSUME AcceptInv, UNCHANGED vars
        PROVE  AcceptInv'
    BY <2>1 DEF AcceptInv, vars, receiving, ops, known
  <2>2. AcceptInv \/ RequirePermission
    BY DEF AcceptInv
  <2>3. ~RequirePermission => AcceptInv'
    BY DEF AcceptInv
  <2> QED
    BY <2>1, <2>2, <2>3, AcceptIdleKeeps, AcceptJobs, AcceptAnswers, AcceptStreams,
       AcceptNetwork, AcceptStart, AcceptClick DEF Next
<1>3. TypeOK /\ AcceptInv => EveryStreamAccepted
  BY Ends, JobNames DEF AcceptInv, EveryStreamAccepted, TypeOK, QueueType, Stream, Button
<1> QED
  BY <1>1, <1>2, <1>3, TypeCorrect, PTL DEF Spec

-----------------------------------------------------------------------------
(***************************************************************************)
(* A status that names a user has that user as its author.  The stop or    *)
(* cancel is followed from the press through the queue and the call to the *)
(* status; a stop that report_receive_error queues comes with an error.    *)
(***************************************************************************)
PressCarried ==
    /\ cmd["R"]["stop"] > 0 => clicked["receiveStop"] > 0 \/ error["R"]
    /\ cmd["S"]["stop"] > 0 => clicked["sendStop"] > 0
    /\ cmd["S"]["cancel"] > 0 => clicked["cancel"] > 0
    /\ net["S"]["Stop"] > 0 => clicked["receiveStop"] > 0
    /\ net["R"]["Stop"] > 0 => clicked["sendStop"] > 0
    /\ net["R"]["Cancel"] > 0 => clicked["cancel"] > 0

AuthorInv == StatusHasAuthor /\ PressCarried

LEMMA StatusAfter ==
    ASSUME TypeOK, NEW e \in End, NEW s, SetStatus(e, s)
    PROVE  \A f \in End : status'[f] = IF f = e THEN s ELSE status[f]
BY DEF SetStatus, TypeOK, OpType

LEMMA ErrorAfter ==
    ASSUME TypeOK, NEW e \in End, SetError(e)
    PROVE  \A f \in End : error'[f] = (f = e \/ error[f])
BY DEF SetError, TypeOK, OpType

LEMMA AuthorJobs ==
    ASSUME TypeOK, AuthorInv, SenderJob \/ ReceiverJob
    PROVE  AuthorInv'
<1> USE Ends, JobNames, CallNames DEF AuthorInv, StatusHasAuthor, StoppedByReceiver,
        StoppedBySender, CancelledBySender, PressCarried
<1>1. CASE AddSendOp
  BY <1>1, JobCounts DEF AddSendOp
<1>2. CASE PrepareSendInfo
  BY <1>2, MoveCounts, StatusAfter DEF PrepareSendInfo
<1>3. CASE GatherFileInfo
  <2>1. ASSUME NEW s \in {"WAITING_PERMISSION", "FILE_NOT_FOUND", "FAILED_UNRECOVERABLE"},
               UpdateUiInfo(s)
        PROVE  AuthorInv'
    <3>1. error'["R"] = error["R"]
      BY <2>1 DEF UpdateUiInfo, TypeOK, OpType
    <3>2. status'["S"] = s /\ status'["R"] = status["R"]
      BY <2>1, StatusAfter DEF UpdateUiInfo
    <3> QED
      BY <2>1, <3>1, <3>2, MoveCounts DEF UpdateUiInfo
  <2> QED
    BY <1>3, <2>1 DEF GatherFileInfo
<1>4. CASE NotifyRemoteMachine
  BY <1>4, JobCounts, MoveCounts DEF NotifyRemoteMachine, ops
<1>5. CASE SendTransferOpRequest
  BY <1>5, JobCounts, CallCounts DEF SendTransferOpRequest, ops
<1>6. CASE RetryTransfer
  BY <1>6, MoveCounts, StatusAfter DEF RetryTransfer
<1>7. CASE ProcessKnownOp
  BY <1>7, JobCounts, CallCounts, StatusAfter DEF ProcessKnownOp
<1>8. CASE ProcessNewOp
  BY <1>8, JobCounts, CallCounts, StatusAfter DEF ProcessNewOp, ReceiverAtRest
<1>9. CASE AddReceiveOp
  BY <1>9, AddCounts DEF AddReceiveOp, AppendReceiveOp
<1>10. CASE CheckForAutostart
  <2>1. UNCHANGED <<status, error, net, clicked>>
    BY <1>10 DEF CheckForAutostart, ops
  <2> QED
    BY <1>10, <2>1, AutoCounts
<1> QED
  BY <1>1, <1>2, <1>3, <1>4, <1>5, <1>6, <1>7, <1>8, <1>9, <1>10
     DEF SenderJob, ReceiverJob

\* An answered cancel leaves the other calls alone.
LEMMA AnswerCounts ==
    ASSUME TypeOK, NEW e \in End, net[e]["Cancel"] > 0,
           net' = Put(Drop(net, e, "Cancel"), Other(e), "CancelOk")
    PROVE  \A f \in End, m \in Call \ {"CancelOk"} :
             net'[f][m] = IF f = e /\ m = "Cancel" THEN net[f][m] - 1 ELSE net[f][m]
<1> DEFINE rest == Drop(net, e, "Cancel")
<1>1. net \in [End -> [Call -> Nat]]
  BY DEF TypeOK, QueueType
<1>2. rest \in [End -> [Call -> Nat]]
  BY <1>1, CallNames, DropBag
<1>3. \A f \in End, m \in Call :
        rest[f][m] = IF f = e /\ m = "Cancel" THEN net[f][m] - 1 ELSE net[f][m]
  BY <1>1, CallNames DEF Drop
<1> HIDE DEF rest
<1>4. \A f \in End, m \in Call \ {"CancelOk"} :
        Put(rest, Other(e), "CancelOk")[f][m] = rest[f][m]
  BY <1>2, Ends, CallNames DEF Put, PutN
<1> QED
  BY <1>3, <1>4 DEF rest

LEMMA AuthorAnswers ==
    ASSUME TypeOK, AuthorInv, NEW e \in End, Jobs(e) \/ Calls(e)
    PROVE  AuthorInv'
<1> USE Ends, JobNames, CallNames DEF AuthorInv, StatusHasAuthor, StoppedByReceiver,
        StoppedBySender, CancelledBySender, PressCarried
<1>0. (e = "S" /\ Other(e) = "R") \/ (e = "R" /\ Other(e) = "S")
  BY DEF End, Other
<1>1. CASE CancelTransferOpRequest(e)
  BY <1>0, <1>1, JobCounts, CallCounts DEF CancelTransferOpRequest, ops
<1>2. CASE CancelReturned(e)
  <2>1. \A f \in End : status'[f] = IF f = e THEN CancelledBy(e) ELSE status[f]
    BY <1>2, StatusAfter DEF CancelReturned
  <2> QED
    BY <1>0, <1>2, <2>1, CallCounts DEF CancelReturned, CancelledBy
<1>3. CASE StopTransferOp(e)
  <2>1. CASE NothingToStop(e)
    BY <1>3, <2>1, JobCounts DEF StopTransferOp
  <2>2. CASE ~NothingToStop(e)
    <3>1. \A f \in End : status'[f] =
            IF f = e THEN (IF error[e] THEN "FAILED" ELSE StoppedBy(e)) ELSE status[f]
      BY <1>3, <2>2, StatusAfter DEF StopTransferOp
    <3> QED
      BY <1>0, <1>3, <2>2, <3>1, JobCounts, CallCounts DEF StopTransferOp, StoppedBy
  <2> QED
    BY <2>1, <2>2
<1>4. CASE StopLostTransferOp(e)
  BY <1>4, JobCounts DEF StopLostTransferOp, ops
<1>5. CASE RemoveOp(e)
  BY <1>5, JobCounts DEF RemoveOp
<1>6. CASE HandleCancel(e)
  <2>1. CASE ~listed[e]
    BY <1>6, <2>1, CallCounts DEF HandleCancel, Deliver
  <2>2. CASE listed[e]
    <3>1. \A f \in End : status'[f] =
            IF f = e THEN CancelledBy(Other(e)) ELSE status[f]
      BY <1>6, <2>2, StatusAfter DEF HandleCancel
    <3>2. \A f \in End, m \in {"Stop", "Cancel"} : net'[f][m] > 0 => net[f][m] > 0
      BY <1>6, <2>2, AnswerCounts DEF HandleCancel
    <3> QED
      BY <1>0, <1>6, <2>2, <3>1, <3>2 DEF HandleCancel, CancelledBy
  <2> QED
    BY <2>1, <2>2
<1>7. ASSUME NEW m \in {"Stop", "StopError"}, HandleStop(e, m)
      PROVE  AuthorInv'
  <2>1. CASE ~listed[e]
    BY <1>7, <2>1, CallCounts DEF HandleStop
  <2>2. CASE listed[e]
    <3>1. \A f \in End : error'[f] = (error[f] \/ (f = e /\ m = "StopError"))
      BY <1>7, <2>2 DEF HandleStop, TypeOK, OpType
    <3>2. \A f \in End : status'[f] =
            IF f = e THEN (IF error'[e] THEN "FAILED" ELSE StoppedBy(Other(e)))
                     ELSE status[f]
      BY <1>7, <2>2, StatusAfter DEF HandleStop
    <3>3. /\ net[e][m] > 0
          /\ \A f \in End, l \in Call : net'[f][l] > 0 => net[f][l] > 0
          /\ UNCHANGED <<cmd, clicked>>
      BY <1>7, CallCounts DEF HandleStop, TypeOK, QueueType
    <3>4. StatusHasAuthor'
      BY <1>0, <2>2, <3>1, <3>2, <3>3 DEF StoppedBy
    <3> QED
      BY <3>1, <3>3, <3>4
  <2> QED
    BY <2>1, <2>2
<1> QED
  BY <1>1, <1>2, <1>3, <1>4, <1>5, <1>6, <1>7 DEF Jobs, Calls
\* A status that names nobody, at S or at R, needs no author.
LEMMA AuthorNeutral ==
    ASSUME TypeOK, AuthorInv, NEW e \in End,
           NEW s \in Status \ {"STOPPED_BY_RECEIVER", "STOPPED_BY_SENDER",
                               "CANCELLED_PERMISSION_BY_SENDER"},
           UNCHANGED status \/ SetStatus(e, s),
           UNCHANGED error \/ SetError("R") \/ SetError("S"),
           UNCHANGED clicked,
           \A f \in End : \A k \in {"stop", "cancel"} :
               cmd'[f][k] > 0 => cmd[f][k] > 0 \/ (f = "R" /\ k = "stop" /\ error'["R"]),
           \A f \in End : \A m \in {"Stop", "Cancel"} : net'[f][m] > 0 => net[f][m] > 0
    PROVE  AuthorInv'
<1>1. \A f \in End : status'[f] = status[f] \/ status'[f] = s
  BY StatusAfter
<1>2. error["R"] => error'["R"]
  BY ErrorAfter, Ends
<1>3. StatusHasAuthor'
  BY <1>1, Ends DEF AuthorInv, StatusHasAuthor, StoppedByReceiver, StoppedBySender,
     CancelledBySender
<1>4. PressCarried'
  BY <1>2, Ends DEF AuthorInv, PressCarried
<1> QED
  BY <1>3, <1>4 DEF AuthorInv

LEMMA AuthorStreams ==
    ASSUME TypeOK, AuthorInv, NEW i \in Stream,
           StartTransferOp(i) \/ ReceiverThread(i) \/ WriteError(i) \/ SenderThread(i)
    PROVE  AuthorInv'
<1> DEFINE Neutral == Status \ {"STOPPED_BY_RECEIVER", "STOPPED_BY_SENDER",
                                "CANCELLED_PERMISSION_BY_SENDER"}
<1>0. {"TRANSFERRING", "FINISHED", "FINISHED_WARNING", "FAILED",
       "FAILED_UNRECOVERABLE"} \subseteq Neutral
  BY DEF Status
<1>1. CASE StartTransferOp(i)
  <2>1. \A f \in End, k \in {"stop", "cancel"} : cmd'[f][k] = cmd[f][k]
    BY <1>1, Ends, JobNames, JobCounts DEF StartTransferOp
  <2> QED
    BY <1>0, <1>1, <2>1, Ends, AuthorNeutral DEF StartTransferOp
<1>2. ASSUME ReportReceiveError(i), UNCHANGED <<net, clicked>>
      PROVE  AuthorInv'
  <2>1. error'["R"]
    BY <1>2, Ends, ErrorAfter DEF ReportReceiveError
  <2>2. \A f \in End, k \in {"stop", "cancel"} :
          cmd'[f][k] > 0 => cmd[f][k] > 0 \/ (f = "R" /\ k = "stop")
    BY <1>2, Ends, JobNames, EmitCounts DEF ReportReceiveError
  <2>3. "FAILED" \in Neutral
    BY <1>0
  <2> HIDE DEF Neutral
  <2>4. SetStatus("R", "FAILED") /\ SetError("R")
    BY <1>2 DEF ReportReceiveError
  <2> QED
    BY <1>2, <2>1, <2>2, <2>3, <2>4, Ends, AuthorNeutral DEF Neutral
<1>3. CASE ReceiverThread(i) \/ WriteError(i)
  BY <1>0, <1>2, <1>3, Ends, AuthorNeutral
     DEF ReceiverThread, CallStartTransfer, ReceiveFile, WriteError, ReceiveFinished,
         CountFiles, ReceiveCancelled, ReceiveBroken, ops
<1>4. CASE SenderThread(i)
  BY <1>0, <1>4, Ends, AuthorNeutral
     DEF SenderThread, StartTransfer, YieldFirstChunk, YieldLastChunk, AllFilesSent,
         SendStopped, ReadError, TransferDone, GeneratorDropped, Generate, ops
<1> QED
  BY <1>1, <1>3, <1>4

LEMMA AuthorNetwork ==
    ASSUME TypeOK, AuthorInv, Network
    PROVE  AuthorInv'
<1>0. {"FAILED", "FAILED_UNRECOVERABLE"} \subseteq
        Status \ {"STOPPED_BY_RECEIVER", "STOPPED_BY_SENDER",
                  "CANCELLED_PERMISSION_BY_SENDER"}
  BY DEF Status
<1>1. CASE ConnectionLost
  <2>1. \A f \in End, m \in {"Stop", "Cancel"} : net'[f][m] = 0
    BY <1>1, CallNames DEF ConnectionLost, None
  <2> QED
    BY <1>0, <1>1, <2>1, Ends, AuthorNeutral DEF ConnectionLost, ops
<1>2. CASE ConnectionRestored
  BY <1>0, <1>2, Ends, AuthorNeutral DEF ConnectionRestored, ops
<1>3. ASSUME NEW e \in End, CancelOpsIfOffline(e)
      PROVE  AuthorInv'
  <2>1. \A f \in End, k \in {"stop", "cancel"} : cmd'[f][k] = cmd[f][k]
    BY <1>3, JobNames, JobCounts DEF CancelOpsIfOffline
  <2>2. UNCHANGED error \/ SetError("R") \/ SetError("S")
    BY <1>3 DEF CancelOpsIfOffline, End
  <2> QED
    BY <1>0, <1>3, <2>1, <2>2, AuthorNeutral DEF CancelOpsIfOffline
<1>4. ASSUME NEW e \in End, RemoteOnline(e)
      PROVE  AuthorInv'
  BY <1>0, <1>4, Ends, AuthorNeutral DEF RemoteOnline, ops
<1> QED
  BY <1>1, <1>2, <1>3, <1>4 DEF Network
LEMMA AuthorClick ==
    ASSUME TypeOK, AuthorInv, NEW b \in Button, Click(b)
    PROVE  AuthorInv'
<1>1. /\ clicked \in [Button -> Nat]
      /\ \A c \in Button : clicked'[c] = IF c = b THEN clicked[c] + 1 ELSE clicked[c]
      /\ UNCHANGED <<status, error, net>>
  BY DEF Click, TypeOK, QueueType, ops
<1>2. \A c \in Button : clicked'[c] > 0 <=> clicked[c] > 0 \/ c = b
  BY <1>1
<1>3. \A f \in End, k \in Job :
        cmd'[f][k] > 0 => cmd[f][k] > 0 \/ (f = Owner(b) /\ k = Command(b))
  BY CommandTyped, EmitCounts DEF Click
<1>4. /\ Owner(b) = "R" /\ Command(b) = "stop" => b = "receiveStop"
      /\ Owner(b) = "S" /\ Command(b) = "stop" => b = "sendStop"
      /\ Owner(b) = "S" /\ Command(b) = "cancel" => b = "cancel"
  BY DEF Owner, Command, Button
<1>5. {"receiveStop", "sendStop", "cancel"} \subseteq Button
  BY DEF Button
<1>6. StatusHasAuthor'
  BY <1>1, <1>2, <1>5 DEF AuthorInv, StatusHasAuthor, StoppedByReceiver,
     StoppedBySender, CancelledBySender
<1>7. PressCarried'
  BY <1>1, <1>2, <1>3, <1>4, <1>5, Ends, JobNames DEF AuthorInv, PressCarried
<1> QED
  BY <1>6, <1>7 DEF AuthorInv

\* "Stopped by" and "cancelled by" the other side is shown for nothing but a stop
\* or a cancel that the other side's user asked for.
THEOREM StatusAuthored == Spec => []StatusHasAuthor
<1>1. Init => AuthorInv
  BY Ends, JobNames, CallNames DEF Init, AuthorInv, StatusHasAuthor, StoppedByReceiver,
     StoppedBySender, CancelledBySender, PressCarried, None
<1>2. TypeOK /\ AuthorInv /\ [Next]_vars => AuthorInv'
  <2>1. ASSUME AuthorInv, UNCHANGED vars
        PROVE  AuthorInv'
    BY <2>1 DEF AuthorInv, StatusHasAuthor, StoppedByReceiver, StoppedBySender,
       CancelledBySender, PressCarried, vars, ops
  <2> QED
    BY <2>1, AuthorJobs, AuthorAnswers, AuthorStreams, AuthorNetwork, AuthorClick DEF Next
<1>3. AuthorInv => StatusHasAuthor
  BY DEF AuthorInv
<1> QED
  BY <1>1, <1>2, <1>3, TypeCorrect, PTL DEF Spec

-----------------------------------------------------------------------------
(***************************************************************************)
(* The receiver is not left transferring.  The one job that cancels a      *)
(* stream and sets no status is that of a lost connection; the op of such  *)
(* a job has a status already, and keeps it unless it is started again.    *)
(***************************************************************************)
StuckInv ==
    /\ ReceiverNotStuck
    /\ losses = 0 => ~lost["R"] /\ cmd["R"]["lost"] = 0
    /\ OneStream /\ cmd["R"]["lost"] > 0 =>
          thr[1] # "none" /\ status["R"] # "TRANSFERRING"

\* No stream is started, none that R shows is ended, and no loss is noticed.
StuckIdle ==
    /\ losses' = 0 => losses = 0 /\ lost'["R"] = lost["R"]
    /\ cmd'["R"]["lost"] > 0 => cmd["R"]["lost"] > 0
    /\ cmd["R"]["lost"] = 0 => cmd'["R"]["lost"] = 0
    /\ \A i \in Stream : thr'[i] = "none" <=> thr[i] = "none"
    /\ status'["R"] = "TRANSFERRING" =>
          /\ status["R"] = "TRANSFERRING"
          /\ \A i \in Stream : Live(i) => Live(i)'

LEMMA FirstStream == 1 \in Stream /\ \A i \in Stream : i = 1 \/ i > 1
BY StreamsAssumption DEF Stream

LEMMA StuckIdleKeeps == ASSUME StuckInv, StuckIdle PROVE StuckInv'
<1>1. OneStream' <=> OneStream
  BY DEF OneStream, StuckIdle
<1>2. ReceiverNotStuck'
  <2> SUFFICES ASSUME losses' = 0 \/ OneStream', status'["R"] = "TRANSFERRING"
               PROVE  \E i \in Stream : Live(i)'
    BY DEF ReceiverNotStuck
  <2>1. PICK i \in Stream : Live(i)
    BY <1>1 DEF StuckInv, StuckIdle, ReceiverNotStuck
  <2>2. Live(i)'
    BY <2>1 DEF StuckIdle
  <2> QED
    BY <2>2
<1> QED
  BY <1>1, <1>2, FirstStream DEF StuckInv, StuckIdle

\* What keeps the threads and the calls of R, and R's op, or gives it a status.
LEMMA StuckOther ==
    ASSUME TypeOK, UNCHANGED <<losses, lost, thr>>,
           UNCHANGED call \/ status'["R"] # "TRANSFERRING",
           UNCHANGED status \/ (\E s \in Status : SetStatus("S", s))
             \/ (\E s \in Status \ {"TRANSFERRING"} : SetStatus("R", s)),
           \/ UNCHANGED cmd
           \/ \E e \in End, k \in Job :
                 \/ (e = "S" \/ k # "lost") /\ (Submit(e, k) \/ Emit(e, k))
                 \/ Take(e, k)
                 \/ \E m \in Job \ {"lost", k} : Become(e, k, m)
    PROVE  StuckIdle
<1>1. ASSUME NEW e \in End, NEW k \in Job, Submit(e, k) \/ Emit(e, k), e = "S" \/ k # "lost"
      PROVE  cmd'["R"]["lost"] = cmd["R"]["lost"]
  BY <1>1, Ends, JobNames, JobCounts, EmitCounts
<1>2. ASSUME NEW e \in End, NEW k \in Job, Take(e, k)
      PROVE  cmd'["R"]["lost"] \in {cmd["R"]["lost"], cmd["R"]["lost"] - 1}
             /\ cmd'["R"]["lost"] >= 0
  BY <1>2, Ends, JobNames, JobCounts DEF TypeOK, QueueType
<1>3. ASSUME NEW e \in End, NEW k \in Job, NEW m \in Job \ {"lost", k}, Become(e, k, m)
      PROVE  cmd'["R"]["lost"] \in {cmd["R"]["lost"], cmd["R"]["lost"] - 1}
             /\ cmd'["R"]["lost"] >= 0
  BY <1>3, Ends, JobNames, MoveCounts DEF TypeOK, QueueType, Become, BecomeN, Put
<1>4. cmd["R"]["lost"] \in Nat
  BY Ends, JobNames DEF TypeOK, QueueType
<1>5. /\ cmd'["R"]["lost"] > 0 => cmd["R"]["lost"] > 0
      /\ cmd["R"]["lost"] = 0 => cmd'["R"]["lost"] = 0
  BY <1>1, <1>2, <1>3, <1>4
<1>6. status'["R"] = "TRANSFERRING" => status["R"] = "TRANSFERRING" /\ UNCHANGED call
  BY Ends, StatusAfter
<1> QED
  BY <1>5, <1>6 DEF StuckIdle, Live

LEMMA StuckJobs ==
    ASSUME TypeOK, SenderJob \/ ReceiverJob
    PROVE  StuckIdle
<1> USE Ends, JobNames, StuckOther DEF link, receiving, ops, Status
<1>1. CASE AddSendOp
  BY <1>1 DEF AddSendOp
<1>2. CASE PrepareSendInfo
  BY <1>2 DEF PrepareSendInfo
<1>3. CASE GatherFileInfo
  BY <1>3 DEF GatherFileInfo, UpdateUiInfo
<1>4. CASE NotifyRemoteMachine
  BY <1>4 DEF NotifyRemoteMachine
<1>5. CASE SendTransferOpRequest
  BY <1>5 DEF SendTransferOpRequest
<1>6. CASE RetryTransfer
  BY <1>6 DEF RetryTransfer
<1>7. CASE ProcessKnownOp
  BY <1>7 DEF ProcessKnownOp
<1>8. CASE ProcessNewOp
  BY <1>8 DEF ProcessNewOp
<1>9. CASE AddReceiveOp
  <2>1. cmd'["R"]["lost"] = cmd["R"]["lost"]
    BY <1>9, AddCounts
  <2>2. UNCHANGED <<status, losses, lost, thr, call>>
    BY <1>9 DEF AddReceiveOp, AppendReceiveOp
  <2> QED
    BY <2>1, <2>2 DEF StuckIdle, Live
<1>10. CASE CheckForAutostart
  <2>1. cmd'["R"]["lost"] = cmd["R"]["lost"]
    BY <1>10, AutoCounts
  <2>2. UNCHANGED <<status, losses, lost, thr, call>>
    BY <1>10 DEF CheckForAutostart
  <2> QED
    BY <2>1, <2>2 DEF StuckIdle, Live
<1> QED
  BY <1>1, <1>2, <1>3, <1>4, <1>5, <1>6, <1>7, <1>8, <1>9, <1>10
     DEF SenderJob, ReceiverJob

\* A job of a lost connection cancels a stream of R only if that shows another status.
LEMMA StuckLost ==
    ASSUME TypeOK, StuckInv, StopLostTransferOp("R")
    PROVE  StuckInv'
<1>1. /\ UNCHANGED <<status, losses, lost, thr>>
      /\ cmd["R"]["lost"] > 0
      /\ cmd'["R"]["lost"] = cmd["R"]["lost"] - 1
  BY Ends, JobNames, JobCounts DEF StopLostTransferOp, Interrupt, link, ops
<1>2. losses # 0
  BY <1>1 DEF StuckInv
<1>3. OneStream' <=> OneStream
  BY <1>1 DEF OneStream
<1> QED
  BY <1>1, <1>2, <1>3 DEF StuckInv, ReceiverNotStuck

LEMMA StuckAnswers ==
    ASSUME TypeOK, StuckInv, NEW e \in End, Jobs(e) \/ Calls(e)
    PROVE  StuckInv'
<1>0. e = "S" \/ e = "R"
  BY DEF End
<1>1. ASSUME NEW s \in Status \ {"TRANSFERRING"}, SetStatus(e, s)
      PROVE  /\ e = "R" => status'["R"] # "TRANSFERRING"
             /\ \/ \E t \in Status : SetStatus("S", t)
                \/ \E t \in Status \ {"TRANSFERRING"} : SetStatus("R", t)
  <2>1. e = "R" => status'["R"] = s
    BY <1>1, StatusAfter
  <2> QED
    BY <1>0, <1>1, <2>1
<1>2. /\ StoppedBy(e) \in Status \ {"TRANSFERRING"}
      /\ StoppedBy(Other(e)) \in Status \ {"TRANSFERRING"}
      /\ CancelledBy(e) \in Status \ {"TRANSFERRING"}
      /\ CancelledBy(Other(e)) \in Status \ {"TRANSFERRING"}
      /\ "FAILED" \in Status \ {"TRANSFERRING"}
  BY DEF StoppedBy, CancelledBy, Status
<1>3. Interrupt(e) => UNCHANGED thr /\ (e = "S" => UNCHANGED call)
  BY DEF Interrupt
<1>4. CASE CancelTransferOpRequest(e)
  BY <1>4, JobNames, StuckOther, StuckIdleKeeps
     DEF CancelTransferOpRequest, link, ops, receiving
<1>5. CASE CancelReturned(e)
  BY <1>1, <1>2, <1>5, StuckOther, StuckIdleKeeps DEF CancelReturned, link, receiving
<1>6. CASE StopTransferOp(e)
  <2>1. UNCHANGED <<losses, lost>> /\ Take(e, "stop")
    BY <1>6 DEF StopTransferOp, link
  <2>2. CASE NothingToStop(e)
    <3>1. UNCHANGED <<status, thr, call>>
      BY <1>6, <2>2 DEF StopTransferOp, receiving
    <3> QED
      BY <2>1, <3>1, JobNames, StuckOther, StuckIdleKeeps
  <2>3. CASE ~NothingToStop(e)
    <3>1. PICK s \in Status \ {"TRANSFERRING"} : SetStatus(e, s) /\ Interrupt(e)
      BY <1>2, <1>6, <2>3 DEF StopTransferOp
    <3>2. UNCHANGED thr /\ (UNCHANGED call \/ status'["R"] # "TRANSFERRING")
      BY <1>0, <1>1, <1>3, <3>1
    <3> QED
      BY <1>1, <2>1, <3>1, <3>2, JobNames, StuckOther, StuckIdleKeeps
  <2> QED
    BY <2>2, <2>3
<1>7. CASE StopLostTransferOp(e)
  <2>1. CASE e = "R"
    BY <1>7, <2>1, StuckLost
  <2>2. CASE e = "S"
    BY <1>3, <1>7, <2>2, JobNames, StuckOther, StuckIdleKeeps
       DEF StopLostTransferOp, link, ops
  <2> QED
    BY <1>0, <2>1, <2>2
<1>8. CASE RemoveOp(e)
  BY <1>8, JobNames, StuckOther, StuckIdleKeeps DEF RemoveOp, link, receiving
<1>9. CASE HandleCancel(e)
  <2>1. UNCHANGED <<losses, lost, thr, call, cmd>>
    BY <1>9 DEF HandleCancel, link, receiving
  <2>2. UNCHANGED status \/ SetStatus(e, CancelledBy(Other(e)))
    BY <1>9 DEF HandleCancel
  <2> QED
    BY <1>1, <1>2, <2>1, <2>2, StuckOther, StuckIdleKeeps
<1>10. ASSUME NEW m \in {"Stop", "StopError"}, HandleStop(e, m)
       PROVE  StuckInv'
  <2>1. UNCHANGED <<losses, lost, cmd>>
    BY <1>10 DEF HandleStop, link
  <2>2. CASE ~listed[e]
    <3>1. UNCHANGED <<status, thr, call>>
      BY <1>10, <2>2 DEF HandleStop, receiving
    <3> QED
      BY <2>1, <3>1, StuckOther, StuckIdleKeeps
  <2>3. CASE listed[e]
    <3>1. PICK s \in Status \ {"TRANSFERRING"} : SetStatus(e, s) /\ Interrupt(e)
      BY <1>2, <1>10, <2>3 DEF HandleStop
    <3>2. UNCHANGED thr /\ (UNCHANGED call \/ status'["R"] # "TRANSFERRING")
      BY <1>0, <1>1, <1>3, <3>1
    <3> QED
      BY <1>1, <2>1, <3>1, <3>2, StuckOther, StuckIdleKeeps
  <2> QED
    BY <2>2, <2>3
<1> QED
  BY <1>4, <1>5, <1>6, <1>7, <1>8, <1>9, <1>10 DEF Jobs, Calls

\* A thread of R that ends either sets a status or had lost its stream.
LEMMA StuckStreams ==
    ASSUME TypeOK, StuckInv, NEW i \in Stream,
           ReceiverThread(i) \/ WriteError(i) \/ SenderThread(i)
    PROVE  StuckIdle
<1>0. /\ thr \in [Stream -> {"none", "calling", "recv", "counting", "done"}]
      /\ call \in [Stream -> {"none", "open", "cancelled", "broken", "complete"}]
  BY DEF TypeOK, ReceivingType
<1>1. ASSUME thr[i] # "none", UNCHANGED <<losses, lost>>,
             NEW t \in {"counting", "done"}, thr' = [thr EXCEPT ![i] = t],
             NEW s \in Status \ {"TRANSFERRING"}, SetStatus("R", s),
             UNCHANGED cmd \/ Emit("R", "stop")
      PROVE  StuckIdle
  <2>1. cmd'["R"]["lost"] = cmd["R"]["lost"]
    BY <1>1, Ends, JobNames, EmitCounts
  <2>2. status'["R"] = s
    BY <1>1, Ends, StatusAfter
  <2>3. \A j \in Stream : thr'[j] = "none" <=> thr[j] = "none"
    BY <1>0, <1>1
  <2> QED
    BY <1>1, <2>1, <2>2, <2>3 DEF StuckIdle
<1>2. "FAILED" \in Status /\ "FINISHED" \in Status /\ "FINISHED_WARNING" \in Status
      /\ "FAILED_UNRECOVERABLE" \in Status /\ "TRANSFERRING" \in Status
  BY DEF Status
<1>3. ASSUME ReportReceiveError(i), thr[i] = "recv", UNCHANGED <<losses, lost>>
      PROVE  StuckIdle
  BY <1>1, <1>2, <1>3 DEF ReportReceiveError
<1>4. CASE CallStartTransfer(i)
  <2>1. /\ thr[i] = "calling" /\ thr' = [thr EXCEPT ![i] = "recv"]
        /\ call' = [call EXCEPT ![i] = IF conn THEN "open" ELSE "broken"]
        /\ UNCHANGED <<losses, lost, status, cmd>>
    BY <1>4 DEF CallStartTransfer, link, ops
  <2>2. \A j \in Stream : (thr'[j] = "none" <=> thr[j] = "none") /\ (Live(j) => Live(j)')
    BY <1>0, <2>1 DEF Live
  <2> QED
    BY <2>1, <2>2 DEF StuckIdle
<1>5. CASE ReceiveFile(i)
  <2>1. thr[i] = "recv" /\ UNCHANGED <<losses, lost>>
    BY <1>5 DEF ReceiveFile, Receiving, link
  <2>2. CASE UNCHANGED <<status, error, cmd, thr, call, iterator>>
    BY <2>1, <2>2, StuckOther
  <2> QED
    BY <1>3, <1>5, <2>1, <2>2 DEF ReceiveFile
<1>6. CASE WriteError(i)
  BY <1>3, <1>6 DEF WriteError, Receiving, link
<1>7. CASE ReceiveFinished(i) \/ CountFiles(i)
  BY <1>1, <1>2, <1>7 DEF ReceiveFinished, CountFiles, Receiving, link
<1>8. CASE ReceiveCancelled(i)
  <2>1. /\ thr[i] = "recv" /\ call[i] = "cancelled"
        /\ thr' = [thr EXCEPT ![i] = "done"]
        /\ UNCHANGED <<losses, lost, status, cmd, call>>
    BY <1>8 DEF ReceiveCancelled, link, ops
  <2>2. \A j \in Stream : (thr'[j] = "none" <=> thr[j] = "none") /\ (Live(j) => Live(j)')
    BY <1>0, <2>1 DEF Live
  <2> QED
    BY <2>1, <2>2 DEF StuckIdle
<1>9. CASE ReceiveBroken(i)
  BY <1>3, <1>9 DEF ReceiveBroken, link
<1>10. CASE StartTransfer(i)
  <2>1. /\ UNCHANGED <<losses, lost, thr, cmd>>
        /\ UNCHANGED status \/ SetStatus("S", "TRANSFERRING")
        /\ UNCHANGED call \/ call' = [call EXCEPT ![i] = IF @ = "open" THEN "broken" ELSE @]
    BY <1>10 DEF StartTransfer, link
  <2>2. \A j \in Stream : Live(j) => Live(j)'
    BY <1>0, <2>1 DEF Live
  <2>3. status'["R"] = status["R"]
    BY <2>1, Ends, StatusAfter
  <2> QED
    BY <2>1, <2>2, <2>3 DEF StuckIdle
<1>11. CASE SenderThread(i) /\ ~StartTransfer(i)
  BY <1>2, <1>11, StuckOther
     DEF SenderThread, YieldFirstChunk, YieldLastChunk, AllFilesSent, SendStopped,
         ReadError, TransferDone, GeneratorDropped, Generate, link, ops, receiving
<1> QED
  BY <1>4, <1>5, <1>6, <1>7, <1>8, <1>9, <1>10, <1>11 DEF ReceiverThread

\* A stream that is started is received.
LEMMA StuckStart ==
    ASSUME TypeOK, StuckInv, NEW i \in Stream, StartTransferOp(i)
    PROVE  StuckInv'
<1>1. /\ thr[i] = "none" /\ (\A j \in Stream : j < i => thr[j] # "none")
      /\ thr'[i] = "calling" /\ (\A j \in Stream \ {i} : thr'[j] = thr[j])
      /\ UNCHANGED <<losses, lost>>
      /\ cmd'["R"]["lost"] = cmd["R"]["lost"]
  BY Ends, JobNames, JobCounts DEF StartTransferOp, link, TypeOK, ReceivingType
<1>2. ReceiverNotStuck'
  BY <1>1 DEF ReceiverNotStuck, Live
<1>3. OneStream' => thr[1] = "none" /\ OneStream
  BY <1>1, FirstStream DEF OneStream
<1> QED
  BY <1>1, <1>2, <1>3 DEF StuckInv

\* An op that fails for a lost connection was transferring.
LEMMA StuckNetwork ==
    ASSUME TypeOK, StuckInv, Network
    PROVE  StuckInv'
<1>1. CASE ConnectionLost
  <2>1. losses' # 0 /\ UNCHANGED <<status, cmd, thr>>
    BY <1>1 DEF ConnectionLost, ops, TypeOK, LinkType
  <2>2. \A j \in Stream : Live(j) => Live(j)'
    BY <1>1 DEF ConnectionLost, Live
  <2> QED
    BY <2>1, <2>2, StuckIdleKeeps DEF StuckIdle
<1>2. CASE ConnectionRestored
  BY <1>2, StuckOther, StuckIdleKeeps DEF ConnectionRestored, receiving, ops
<1>3. ASSUME NEW e \in End, RemoteOnline(e)
      PROVE  StuckInv'
  BY <1>3, StuckOther, StuckIdleKeeps DEF RemoteOnline, receiving, ops
<1>4. CASE CancelOpsIfOffline("S")
  <2>1. UNCHANGED <<losses, thr, call>> /\ lost'["R"] = lost["R"]
    BY <1>4, Ends DEF CancelOpsIfOffline, receiving, TypeOK, LinkType
  <2>2. cmd'["R"]["lost"] = cmd["R"]["lost"]
    BY <1>4, Ends, JobNames, JobCounts DEF CancelOpsIfOffline
  <2>3. status'["R"] = status["R"]
    BY <1>4, Ends, StatusAfter DEF CancelOpsIfOffline
  <2> QED
    BY <2>1, <2>2, <2>3, StuckIdleKeeps DEF StuckIdle, Live
<1>5. CASE CancelOpsIfOffline("R")
  <2>1. UNCHANGED <<losses, thr, call>> /\ losses # 0
    BY <1>5 DEF CancelOpsIfOffline, receiving, StuckInv
  <2>2. CASE status["R"] = "TRANSFERRING" /\ SetStatus("R", "FAILED")
    <3>1. status'["R"] = "FAILED"
      BY <2>2, Ends, StatusAfter
    <3>2. OneStream => thr[1] # "none"
      BY <2>2, FirstStream DEF StuckInv, ReceiverNotStuck, Live, OneStream
    <3> QED
      BY <2>1, <3>1, <3>2 DEF StuckInv, ReceiverNotStuck, OneStream
  <2>3. CASE ~(status["R"] = "TRANSFERRING" /\ SetStatus("R", "FAILED"))
    <3>1. UNCHANGED cmd
      BY <1>5, <2>3 DEF CancelOpsIfOffline
    <3>2. UNCHANGED status \/ SetStatus("R", "FAILED_UNRECOVERABLE")
      BY <1>5, <2>3 DEF CancelOpsIfOffline
    <3>3. status'["R"] = "TRANSFERRING" => UNCHANGED status
      BY <3>2, Ends, StatusAfter
    <3> QED
      BY <2>1, <3>1, <3>3, StuckIdleKeeps DEF StuckIdle, Live
  <2> QED
    BY <2>2, <2>3
<1> QED
  BY <1>1, <1>2, <1>3, <1>4, <1>5 DEF Network, End

\* No button leads to the job of a lost connection.
LEMMA StuckClick ==
    ASSUME TypeOK, NEW b \in Button, Click(b)
    PROVE  StuckIdle
<1>1. Command(b) # "lost"
  BY DEF Command, Button
<1> QED
  BY <1>1, CommandTyped, StuckOther DEF Click, link, ops, receiving

\* R's op is never left transferring: some thread will still set another status.  It is
\* so for any number of files, buttons and streams while the network stays up, and for
\* an op that was started once whatever the losses.  (remote.start_transfer_op,
\* stop_transfer_op, cancel_ops_if_offline; server.StopTransfer)
THEOREM NeverStuck == Spec => []ReceiverNotStuck
<1>1. Init => StuckInv
  BY Ends, JobNames DEF Init, StuckInv, ReceiverNotStuck
<1>2. TypeOK /\ StuckInv /\ [Next]_vars => StuckInv'
  <2>1. ASSUME StuckInv, UNCHANGED vars
        PROVE  StuckInv'
    BY <2>1 DEF StuckInv, ReceiverNotStuck, OneStream, Live, vars, link, ops, receiving
  <2>2. ASSUME TypeOK, StuckInv, StuckIdle
        PROVE  StuckInv'
    BY <2>2, StuckIdleKeeps
  <2> QED
    BY <2>1, <2>2, StuckJobs, StuckAnswers, StuckStreams, StuckStart, StuckNetwork,
       StuckClick DEF Next
<1>3. StuckInv => ReceiverNotStuck
  BY DEF StuckInv
<1> QED
  BY <1>1, <1>2, <1>3, TypeCorrect, PTL DEF Spec

-----------------------------------------------------------------------------
(***************************************************************************)
(* FINISHED counts the files.  While the first stream runs, what is left   *)
(* after the open file has been closed is N less the files begun, and so it*)
(* is when the thread comes to count.                                      *)
(***************************************************************************)
Offers == {"add", "auto", "start"}

\* R's op is there, or a job that leads to a stream of it.
Offered == listed["R"] \/ \E k \in Offers : cmd["R"][k] > 0

CountInv ==
    OneStream =>
        /\ thr[1] \in {"none", "calling"} => got[1] = 0
        /\ thr[1] = "none" => status["R"] # "FINISHED"
        /\ thr[1] = "none" /\ Offered => remaining = N
        /\ thr[1] = "calling" => remaining = N
        /\ thr[1] = "recv" => Closed(1) = N - got[1]
        /\ thr[1] = "counting" => remaining = N - got[1]
        /\ status["R"] = "FINISHED" => thr[1] = "counting" \/ got[1] = N

\* No stream is started, none receives, and none is finished.
CountIdle ==
    /\ \A i \in Stream : thr'[i] = thr[i] \/ (thr'[i] = "done" /\ thr[i] = "recv")
    /\ got' = got
    /\ UNCHANGED remaining \/ (thr'[1] \in {"none", "done"} /\ remaining' = N)
    /\ status'["R"] = "FINISHED" => status["R"] = "FINISHED"
    /\ Offered' => Offered \/ remaining' = N

LEMMA CountIdleKeeps == ASSUME CountInv, CountIdle PROVE CountInv'
<1> SUFFICES ASSUME OneStream'
             PROVE  CountInv'
  BY DEF CountInv
<1>1. OneStream
  BY DEF OneStream, CountIdle
<1>2. thr'[1] = thr[1] \/ (thr'[1] = "done" /\ thr[1] = "recv")
  BY FirstStream DEF CountIdle
<1>3. thr'[1] = "recv" => Closed(1)' = Closed(1)
  BY DEF CountIdle, Closed
<1> QED
  BY <1>1, <1>2, <1>3 DEF CountInv, CountIdle

\* What leaves the threads of R alone, and offers nothing.
LEMMA CountOther ==
    ASSUME TypeOK, UNCHANGED <<thr, got, remaining>>,
           listed'["R"] => listed["R"],
           UNCHANGED status \/ (\E s \in Status : SetStatus("S", s))
             \/ (\E s \in Status \ {"FINISHED"} : SetStatus("R", s)),
           \/ UNCHANGED cmd
           \/ \E e \in End, k \in Job :
                 \/ (e = "S" \/ k \notin Offers \/ listed["R"])
                       /\ (Submit(e, k) \/ Emit(e, k))
                 \/ Take(e, k)
                 \/ \E m \in Job \ {k} : /\ e = "S" \/ m \notin Offers \/ k \in Offers
                                         /\ Become(e, k, m)
    PROVE  CountIdle
<1>0. Offers \subseteq Job
  BY JobNames DEF Offers
<1>1. ASSUME NEW e \in End, NEW k \in Job, Submit(e, k) \/ Emit(e, k),
             e = "S" \/ k \notin Offers \/ listed["R"]
      PROVE  Offered' => Offered
  <2>1. CASE listed["R"]
    BY <2>1 DEF Offered
  <2>2. CASE ~listed["R"]
    BY <1>0, <1>1, <2>2, Ends, JobCounts, EmitCounts DEF Offered
  <2> QED
    BY <2>1, <2>2
<1>2. ASSUME NEW e \in End, NEW k \in Job, Take(e, k)
      PROVE  Offered' => Offered
  <2>1. \A l \in Offers : cmd'["R"][l] > 0 => cmd["R"][l] > 0
    BY <1>0, <1>2, Ends, JobCounts DEF TypeOK, QueueType
  <2> QED
    BY <2>1 DEF Offered
<1>3. ASSUME NEW e \in End, NEW k \in Job, NEW m \in Job \ {k}, Become(e, k, m),
             e = "S" \/ m \notin Offers \/ k \in Offers
      PROVE  Offered' => Offered
  <2>1. CASE e = "R" /\ k \in Offers
    BY <1>3, <2>1 DEF Become, BecomeN, Put, Offered
  <2>2. CASE ~(e = "R" /\ k \in Offers)
    <3>1. \A l \in Offers : cmd'["R"][l] > 0 => cmd["R"][l] > 0
      BY <1>0, <1>3, <2>2, Ends, MoveCounts DEF TypeOK, QueueType, End
    <3> QED
      BY <3>1 DEF Offered
  <2> QED
    BY <2>1, <2>2
<1>4. Offered' => Offered
  BY <1>1, <1>2, <1>3 DEF Offered
<1>5. status'["R"] = "FINISHED" => status["R"] = "FINISHED"
  BY Ends, StatusAfter
<1> QED
  BY <1>4, <1>5 DEF CountIdle

LEMMA CountJobs ==
    ASSUME TypeOK, SenderJob \/ ReceiverJob
    PROVE  CountIdle
<1> USE Ends, JobNames, CountOther DEF receiving, ops, known, Status, Offers
<1>0. listed \in [End -> BOOLEAN]
  BY DEF TypeOK, OpType
<1>1. CASE AddSendOp
  BY <1>0, <1>1 DEF AddSendOp
<1>2. CASE PrepareSendInfo
  BY <1>2 DEF PrepareSendInfo
<1>3. CASE GatherFileInfo
  BY <1>3 DEF GatherFileInfo, UpdateUiInfo
<1>4. CASE NotifyRemoteMachine
  BY <1>4 DEF NotifyRemoteMachine
<1>5. CASE SendTransferOpRequest
  BY <1>5 DEF SendTransferOpRequest
<1>6. CASE RetryTransfer
  BY <1>6 DEF RetryTransfer
<1>7. CASE ProcessKnownOp
  BY <1>7 DEF ProcessKnownOp
<1>8. CASE ProcessNewOp
  <2>1. \A i \in Stream : thr[i] \in {"none", "done"}
    BY <1>8 DEF ProcessNewOp, ReceiverAtRest
  <2>2. status'["R"] # "FINISHED"
    BY <1>8, StatusAfter DEF ProcessNewOp
  <2> QED
    BY <1>8, <2>1, <2>2, FirstStream DEF ProcessNewOp, CountIdle
<1>9. CASE AddReceiveOp
  <2>1. cmd["R"]["add"] > 0
    BY <1>9 DEF AddReceiveOp, Become, BecomeN, Put
  <2>2. UNCHANGED <<status, thr, got, remaining>>
    BY <1>9 DEF AddReceiveOp, AppendReceiveOp
  <2> QED
    BY <2>1, <2>2 DEF CountIdle, Offered
<1>10. CASE CheckForAutostart
  <2>1. Offered
    BY <1>10, AutoCounts DEF Offered
  <2>2. UNCHANGED <<status, thr, got, remaining>>
    BY <1>10 DEF CheckForAutostart
  <2> QED
    BY <2>1, <2>2 DEF CountIdle
<1> QED
  BY <1>1, <1>2, <1>3, <1>4, <1>5, <1>6, <1>7, <1>8, <1>9, <1>10
     DEF SenderJob, ReceiverJob

LEMMA CountAnswers ==
    ASSUME TypeOK, NEW e \in End, Jobs(e) \/ Calls(e)
    PROVE  CountIdle
<1> USE Ends, JobNames, CountOther DEF Offers
<1>0. listed \in [End -> BOOLEAN]
  BY DEF TypeOK, OpType
<1>1. \A s \in Status \ {"FINISHED"} :
          SetStatus(e, s) => \/ \E t \in Status : SetStatus("S", t)
                             \/ \E t \in Status \ {"FINISHED"} : SetStatus("R", t)
  BY DEF End
<1>2. /\ StoppedBy(e) \in Status \ {"FINISHED"}
      /\ StoppedBy(Other(e)) \in Status \ {"FINISHED"}
      /\ CancelledBy(e) \in Status \ {"FINISHED"}
      /\ CancelledBy(Other(e)) \in Status \ {"FINISHED"}
      /\ "FAILED" \in Status \ {"FINISHED"}
  BY DEF StoppedBy, CancelledBy, Status
<1>4. CASE CancelTransferOpRequest(e)
  BY <1>4 DEF CancelTransferOpRequest, ops, known, receiving
<1>5. CASE CancelReturned(e)
  BY <1>1, <1>2, <1>5 DEF CancelReturned, known, receiving
<1>6. CASE StopTransferOp(e)
  BY <1>1, <1>2, <1>6 DEF StopTransferOp, Interrupt, known, receiving
<1>7. CASE StopLostTransferOp(e)
  BY <1>7 DEF StopLostTransferOp, Interrupt, ops, known
<1>8. CASE RemoveOp(e)
  BY <1>0, <1>8 DEF RemoveOp, receiving
<1>9. CASE HandleCancel(e)
  BY <1>1, <1>2, <1>9 DEF HandleCancel, known, receiving
<1>10. CASE HandleStop(e, "Stop") \/ HandleStop(e, "StopError")
  BY <1>1, <1>2, <1>10 DEF HandleStop, Interrupt, known, receiving
<1> QED
  BY <1>4, <1>5, <1>6, <1>7, <1>8, <1>9, <1>10 DEF Jobs, Calls

\* A thread of R calls, receives a file, or ends.
LEMMA CountReceiver ==
    ASSUME TypeOK, CountInv, NEW i \in Stream, ReceiverThread(i) \/ WriteError(i)
    PROVE  CountInv'
<1>0. /\ thr \in [Stream -> {"none", "calling", "recv", "counting", "done"}]
      /\ got \in [Stream -> 0 .. N] /\ sent \in [Stream -> 0 .. N]
      /\ remaining \in Int /\ N \in Nat \ {0}
      /\ thr[i] # "none"
  BY NAssumption DEF TypeOK, ReceivingType, SendingType, ReceiverThread, WriteError,
     CallStartTransfer, ReceiveFile, ReceiveFinished, CountFiles, ReceiveCancelled, ReceiveBroken,
     Receiving
<1>1. ASSUME NEW s, thr' = [thr EXCEPT ![i] = s], s # "none"
      PROVE  (OneStream' => OneStream /\ i = 1) /\ thr'[i] = s
  BY <1>0, <1>1, FirstStream DEF OneStream
<1>2. Offered' => Offered
  <2>1. ASSUME Emit("R", "stop")
        PROVE  \A k \in Offers : cmd'["R"][k] = cmd["R"][k]
    BY <2>1, Ends, JobNames, EmitCounts DEF Offers
  <2> QED
    BY <2>1 DEF Offered, ReceiverThread, WriteError, CallStartTransfer, ReceiveFile,
       ReceiveFinished, CountFiles, ReceiveCancelled, ReceiveBroken, ReportReceiveError, ops, known
<1>3. ASSUME thr[i] = "recv", thr' = [thr EXCEPT ![i] = "done"], UNCHANGED got,
             status'["R"] # "FINISHED"
      PROVE  CountInv'
  BY <1>1, <1>3 DEF CountInv
<1>4. ASSUME ReportReceiveError(i), thr[i] = "recv", UNCHANGED got
      PROVE  CountInv'
  <2>1. status'["R"] = "FAILED"
    BY <1>4, Ends, StatusAfter DEF ReportReceiveError
  <2> QED
    BY <1>3, <1>4, <2>1 DEF ReportReceiveError
<1>5. CASE CallStartTransfer(i)
  <2>1. /\ thr[i] = "calling" /\ thr' = [thr EXCEPT ![i] = "recv"]
        /\ UNCHANGED <<got, remaining, status>>
    BY <1>5 DEF CallStartTransfer, ops
  <2>2. OneStream' => OneStream /\ i = 1 /\ thr'[1] = "recv"
    BY <1>1, <2>1
  <2> QED
    BY <1>0, <2>1, <2>2, FirstStream DEF CountInv, Closed
<1>6. CASE ReceiveFile(i)
  <2>1. thr[i] = "recv" /\ got[i] < sent[i] /\ remaining' = Closed(i)
    BY <1>6 DEF ReceiveFile, Receiving
  <2>2. CASE /\ Closed(i) # 0
             /\ got' = [got EXCEPT ![i] = @ + 1]
             /\ UNCHANGED <<status, error, cmd, thr, call, iterator>>
    <3>1. got'[i] = got[i] + 1 /\ UNCHANGED <<status, thr>>
      BY <1>0, <2>2
    <3>2. OneStream' => OneStream /\ i = 1
      BY <1>0, <3>1, FirstStream DEF OneStream
    <3>3. got[i] # N
      BY <1>0, <2>1
    <3>4. OneStream' => Closed(1)' = Closed(1) - 1
      BY <1>0, <2>1, <3>1, <3>2 DEF Closed
    <3> QED
      BY <1>0, <2>1, <3>1, <3>2, <3>3, <3>4 DEF CountInv, Closed
  <2>3. CASE ReportReceiveError(i) /\ UNCHANGED got
    BY <1>4, <2>1, <2>3
  <2> QED
    BY <1>6, <2>2, <2>3 DEF ReceiveFile
<1>7. CASE WriteError(i)
  BY <1>4, <1>7 DEF WriteError, Receiving
<1>8. CASE ReceiveFinished(i)
  <2>1. /\ thr[i] = "recv" /\ thr' = [thr EXCEPT ![i] = "counting"] /\ UNCHANGED got
        /\ remaining' = Closed(i)
    BY <1>8 DEF ReceiveFinished, Receiving
  <2>2. OneStream' => OneStream /\ i = 1 /\ thr'[1] = "counting"
    BY <1>1, <2>1
  <2>3. OneStream' => remaining' = N - got[1]
    BY <2>1, <2>2 DEF CountInv
  <2> QED
    BY <2>1, <2>2, <2>3 DEF CountInv
<1>11. CASE CountFiles(i)
  <2>1. /\ thr[i] = "counting" /\ thr' = [thr EXCEPT ![i] = "done"]
        /\ UNCHANGED <<got, remaining>>
    BY <1>11 DEF CountFiles
  <2>2. OneStream' => OneStream /\ i = 1 /\ thr'[1] = "done"
    BY <1>1, <2>1
  <2>3. OneStream' => remaining = N - got[1]
    BY <2>1, <2>2 DEF CountInv
  <2>4. CASE remaining > 0
    <3>1. status'["R"] = "FINISHED_WARNING"
      BY <1>11, <2>4, Ends, StatusAfter DEF CountFiles
    <3> QED
      BY <2>1, <2>2, <3>1 DEF CountInv
  <2>5. CASE ~(remaining > 0)
    <3>1. OneStream' => got[1] = N
      BY <1>0, <2>2, <2>3, <2>5
    <3> QED
      BY <2>1, <2>2, <3>1 DEF CountInv
  <2> QED
    BY <2>4, <2>5
<1>9. CASE ReceiveCancelled(i)
  <2>1. /\ thr[i] = "recv" /\ thr' = [thr EXCEPT ![i] = "done"]
        /\ UNCHANGED <<got, remaining, status>>
    BY <1>9 DEF ReceiveCancelled, ops
  <2>2. CountIdle
    BY <1>0, <1>2, <2>1 DEF CountIdle
  <2> QED
    BY <2>2, CountIdleKeeps
<1>10. CASE ReceiveBroken(i)
  BY <1>4, <1>10 DEF ReceiveBroken
<1> QED
  BY <1>5, <1>6, <1>7, <1>8, <1>9, <1>10, <1>11 DEF ReceiverThread

LEMMA CountSender ==
    ASSUME TypeOK, NEW i \in Stream, SenderThread(i)
    PROVE  CountIdle
BY CountOther
   DEF SenderThread, StartTransfer, YieldFirstChunk, YieldLastChunk, AllFilesSent,
       SendStopped, ReadError, TransferDone, GeneratorDropped, Generate, ops, known,
       receiving, Status

LEMMA CountStart ==
    ASSUME TypeOK, CountInv, NEW i \in Stream, StartTransferOp(i)
    PROVE  CountInv'
<1>1. /\ thr[i] = "none" /\ thr' = [thr EXCEPT ![i] = "calling"]
      /\ cmd["R"]["start"] > 0
      /\ UNCHANGED <<got, remaining>>
  BY DEF StartTransferOp, Take
<1>2. OneStream' => OneStream /\ i = 1 /\ thr'[1] = "calling" /\ thr[1] = "none"
  BY <1>1, FirstStream DEF OneStream, TypeOK, ReceivingType
<1>3. status'["R"] = "TRANSFERRING"
  BY Ends, StatusAfter DEF StartTransferOp
<1>4. Offered
  BY <1>1 DEF Offered, Offers
<1> QED
  BY <1>1, <1>2, <1>3, <1>4 DEF CountInv

LEMMA CountNetwork ==
    ASSUME TypeOK, Network
    PROVE  CountIdle
<1> USE CountOther, JobNames DEF ops, known, receiving, Status, Offers
<1>1. CASE ConnectionLost
  BY <1>1 DEF ConnectionLost
<1>2. CASE ConnectionRestored
  BY <1>2 DEF ConnectionRestored
<1>3. ASSUME NEW e \in End, CancelOpsIfOffline(e)
      PROVE  CountIdle
  BY <1>3 DEF CancelOpsIfOffline, End
<1>4. ASSUME NEW e \in End, RemoteOnline(e)
      PROVE  CountIdle
  BY <1>4 DEF RemoteOnline
<1> QED
  BY <1>1, <1>2, <1>3, <1>4 DEF Network

\* A button of R's is pressed while its op is listed.
LEMMA CountClick ==
    ASSUME TypeOK, NEW b \in Button, Click(b)
    PROVE  CountIdle
<1>1. Owner(b) = "S" \/ listed["R"]
  BY DEF Click, Owner
<1> QED
  BY <1>1, CommandTyped, CountOther DEF Click, ops, known, receiving

LEMMA CountAlways == Spec => []CountInv
<1>1. Init => CountInv
  BY Ends, JobNames, FirstStream DEF Init, CountInv, Offered, Offers, Closed
<1>2. TypeOK /\ CountInv /\ [Next]_vars => CountInv'
  <2>1. ASSUME CountInv, UNCHANGED vars
        PROVE  CountInv'
    BY <2>1 DEF CountInv, Offered, Closed, OneStream, vars, ops, known, receiving
  <2>2. ASSUME TypeOK, CountInv, CountIdle
        PROVE  CountInv'
    BY <2>2, CountIdleKeeps
  <2> QED
    BY <2>1, <2>2, CountJobs, CountAnswers, CountReceiver, CountSender, CountStart,
       CountNetwork, CountClick DEF Next
<1> QED
  BY <1>1, <1>2, TypeCorrect, PTL DEF Spec

\* An op that was started once and says FINISHED when its thread has ended has received
\* all N files, and none of them is taken for one too many, for any number of files.
\* (remote.start_transfer_op; FileReceiver.close_current_file, receive_data)
THEOREM FinishedHasFiles == Spec => []FinishedCountsFiles
<1>1. TypeOK /\ CountInv => FinishedCountsFiles
  <2> SUFFICES ASSUME TypeOK, CountInv, OneStream
               PROVE  FinishedCountsFiles
    BY DEF FinishedCountsFiles
  <2>1. status["R"] = "FINISHED" =>
            \E i \in Stream : thr[i] = "counting" \/ got[i] = N
    BY FirstStream DEF CountInv
  <2>2. ASSUME NEW i \in Stream, Receiving(i), got[i] < sent[i]
        PROVE  Closed(i) # 0
    <3>1. i = 1 /\ thr[i] = "recv"
      BY <2>2, FirstStream DEF OneStream, Receiving
    <3>2. got[i] \in 0 .. N /\ sent[i] \in 0 .. N /\ N \in Nat
      BY NAssumption DEF TypeOK, ReceivingType, SendingType
    <3> QED
      BY <2>2, <3>1, <3>2 DEF CountInv
  <2> QED
    BY <2>1, <2>2 DEF FinishedCountsFiles
<1> QED
  BY <1>1, CountAlways, TypeCorrect, PTL

-----------------------------------------------------------------------------
(***************************************************************************)
(* Both ends wait, or neither.  An offer of a sender that waits is on its  *)
(* way, waits at R as well, or is being answered; and what could end the   *)
(* wait of R alone does not exist before R has answered.                   *)
(***************************************************************************)
Waits(e) == status[e] = "WAITING_PERMISSION"

\* S has stopped waiting.
OfferOver == status["S"] \notin {"INIT", "CALCULATING", "WAITING_PERMISSION"}

\* The job or call that carries the offer from S to R, until R has it.
Stage == {"prepare", "gather", "notify", "request", "Process", "received"}

OfferAt(s) ==
    /\ \A k \in {"prepare", "gather", "notify", "request"} :
          cmd["S"][k] = IF k = s THEN 1 ELSE 0
    /\ net["R"]["Process"] = IF s = "Process" THEN 1 ELSE 0

OfferMade(s) ==
    /\ OfferAt(s)
    /\ s = "prepare" => status["S"] = "INIT"
    /\ s = "gather" => status["S"] = "CALCULATING"
    /\ s = "notify" =>
          status["S"] \in {"WAITING_PERMISSION", "FILE_NOT_FOUND", "FAILED_UNRECOVERABLE"}
    /\ s \in {"request", "Process"} => Waits("S") /\ cmd["S"]["add"] = 0
    /\ s = "received" => (Waits("S") /\ cmd["S"]["add"] = 0) \/ OfferOver
    /\ listed["S"] \/ cmd["S"]["add"] > 0 \/ OfferOver
    /\ cmd["S"]["remove"] > 0 => OfferOver

\* Of what R answers to an offer, no more than a refusal is under way.
NotAccepted ==
    /\ net["S"]["CancelOk"] = 0 /\ net["S"]["Stop"] = 0 /\ net["S"]["StopError"] = 0
    /\ net["R"]["Stop"] = 0 /\ net["R"]["StopError"] = 0
    /\ cmd["R"]["stop"] = 0
    /\ cancellable = NoStream
    /\ \A i \in Stream : thr[i] = "none" /\ gen[i] = "none"

\* R has not listed the offer, nor answered it.
Untold ==
    /\ NotAccepted
    /\ net["S"]["Cancel"] = 0 /\ net["R"]["CancelOk"] = 0
    /\ ~listed["R"]
    /\ \A k \in Job \ {"add"} : cmd["R"][k] = 0

OfferReceived(s) ==
    /\ cmd["R"]["add"] <= 1
    /\ s # "received" => status["R"] = "INIT"
    /\ status["R"] = "INIT" => cmd["R"]["add"] = 0
    /\ status["R"] = "INIT" /\ s = "received" => OfferOver
    /\ status["R"] = "INIT" \/ cmd["R"]["add"] > 0 => Untold
    /\ Waits("R") => NotAccepted
    /\ net["R"]["CancelOk"] > 0 => OfferOver
    /\ \A i \in Stream : gen[i] # "none" => thr[i] # "none"

\* An answer of R is on its way to S.
Answering ==
    \/ cmd["R"]["cancel"] > 0
    \/ net["S"]["Cancel"] > 0
    \/ net["S"]["CancelOk"] > 0
    \/ status["R"] = "FAILED_UNRECOVERABLE" /\ cmd["R"]["add"] > 0
    \/ \E i \in Stream : thr[i] = "calling" \/ gen[i] = "requested"

Answered(s) ==
    /\ Waits("S") /\ s = "received" => Waits("R") \/ Answering
    /\ Waits("R") /\ OfferOver => net["R"]["CancelOk"] > 0

Steady == conn /\ ~lost["S"] /\ ~lost["R"] /\ cmd["S"]["restart"] = 0

Unbroken == losses = 0 /\ clicked["restart"] = 0

WaitAt(s) == Steady /\ OfferMade(s) /\ OfferReceived(s) /\ Answered(s)

WaitInv == Unbroken => \E s \in Stage : WaitAt(s)

\* The counts are numbers.
LEMMA Counts ==
    ASSUME TypeOK
    PROVE  /\ \A e \in End, k \in Job : cmd[e][k] \in Nat
           /\ \A e \in End, m \in Call : net[e][m] \in Nat
BY DEF TypeOK, QueueType

\* A call that is made over a network that is up is under way.
LEMMA SendCounts ==
    ASSUME TypeOK, conn, NEW e \in End, NEW k \in Call, Send(e, k)
    PROVE  \A f \in End, m \in Call :
             net'[f][m] = IF f = e /\ m = k THEN net[f][m] + 1 ELSE net[f][m]
BY DEF Send, Put, PutN, TypeOK, QueueType

LEMMA WaitInit == Init => WaitInv
<1> SUFFICES ASSUME Init PROVE WaitAt("prepare")
  BY DEF WaitInv, Stage
<1>1. /\ \A e \in End, k \in Job :
            cmd[e][k] = IF e = "S" /\ k \in {"add", "prepare"} THEN 1 ELSE 0
      /\ \A e \in End, m \in Call : net[e][m] = 0
      /\ \A e \in End : status[e] = "INIT" /\ ~lost[e] /\ ~listed[e]
  BY DEF Init, None
<1>2. Steady
  BY <1>1, Ends, JobNames DEF Steady, Init
<1>3. OfferMade("prepare")
  BY <1>1, Ends, JobNames, CallNames DEF OfferMade, OfferAt
<1>4. NotAccepted
  BY <1>1, Ends, JobNames, CallNames DEF NotAccepted, Init
<1>5. OfferReceived("prepare")
  BY <1>1, <1>4, Ends, JobNames, CallNames DEF OfferReceived, Untold, Waits, Init
<1>6. Answered("prepare")
  BY <1>1, Ends DEF Answered, Waits
<1> QED
  BY <1>2, <1>3, <1>5, <1>6 DEF WaitAt

\* The offer goes on to its next stage.
LEMMA WaitSender ==
    ASSUME TypeOK, NEW s \in Stage, WaitAt(s), SenderJob
    PROVE  \E t \in Stage : WaitAt(t)'
<1> USE Ends, JobNames, CallNames, Counts DEF OfferOver, Waits, WaitAt
<1>1. CASE AddSendOp
  <2>1. /\ cmd["S"]["add"] > 0
        /\ \A f \in End, l \in Job :
             cmd'[f][l] = IF f = "S" /\ l = "add" THEN cmd[f][l] - 1 ELSE cmd[f][l]
    BY <1>1, JobCounts DEF AddSendOp
  <2>2. listed'["S"] /\ listed'["R"] = listed["R"]
    BY <1>1 DEF AddSendOp, TypeOK, OpType
  <2>3. UNCHANGED <<link, status, net, sending, receiving>>
    BY <1>1 DEF AddSendOp
  <2>4. Steady'
    BY <2>1, <2>2, <2>3 DEF Steady, link, sending, receiving
  <2>5. OfferMade(s)'
    BY <2>1, <2>2, <2>3 DEF OfferMade, OfferAt, link, sending, receiving
  <2>6. OfferReceived(s)'
    BY <2>1, <2>2, <2>3
       DEF OfferMade, OfferAt, OfferReceived, NotAccepted, Untold, link, sending, receiving
  <2>7. Answered(s)'
    BY <2>1, <2>2, <2>3
       DEF OfferMade, OfferAt, OfferReceived, Answered, Answering, link, sending, receiving
  <2> QED
    BY <2>4, <2>5, <2>6, <2>7 DEF WaitAt, Stage
<1>2. CASE PrepareSendInfo
  <2>1. /\ cmd["S"]["prepare"] > 0
        /\ \A f \in End, l \in Job :
             cmd'[f][l] = IF f = "S" /\ l = "prepare" THEN cmd[f][l] - 1
                          ELSE IF f = "S" /\ l = "gather" THEN cmd[f][l] + 1 ELSE cmd[f][l]
    BY <1>2, MoveCounts DEF PrepareSendInfo, Become, BecomeN, Put
  <2>2. status'["S"] = "CALCULATING" /\ status'["R"] = status["R"]
    BY <1>2, StatusAfter DEF PrepareSendInfo
  <2>3. UNCHANGED <<link, known, net, sending, receiving>>
    BY <1>2 DEF PrepareSendInfo
  <2>4. s = "prepare"
    BY <2>1 DEF OfferMade, OfferAt
  <2>9. OfferAt("gather")'
    BY <2>1, <2>3, <2>4 DEF OfferMade, OfferAt
  <2>5. Steady'
    BY <2>1, <2>2, <2>3, <2>4 DEF Steady, link, known, sending, receiving
  <2>6. OfferMade("gather")'
    BY <2>1, <2>2, <2>3, <2>4, <2>9 DEF OfferMade, link, known, sending, receiving
  <2>7. OfferReceived("gather")'
    BY <2>1, <2>2, <2>3, <2>4
       DEF OfferMade, OfferAt, OfferReceived, NotAccepted, Untold, link, known, sending,
           receiving
  <2>8. Answered("gather")'
    BY <2>1, <2>2, <2>3, <2>4
       DEF OfferMade, OfferAt, OfferReceived, Answered, Answering, link, known, sending,
           receiving
  <2> QED
    BY <2>5, <2>6, <2>7, <2>8 DEF WaitAt, Stage
<1>3. CASE GatherFileInfo
  <2>0. PICK o \in {"WAITING_PERMISSION", "FILE_NOT_FOUND", "FAILED_UNRECOVERABLE"} :
           UpdateUiInfo(o)
    BY <1>3 DEF GatherFileInfo
  <2>1. /\ cmd["S"]["gather"] > 0
        /\ \A f \in End, l \in Job :
             cmd'[f][l] = IF f = "S" /\ l = "gather" THEN cmd[f][l] - 1
                          ELSE IF f = "S" /\ l = "notify" THEN cmd[f][l] + 1 ELSE cmd[f][l]
    BY <2>0, MoveCounts DEF UpdateUiInfo, Become, BecomeN, Put
  <2>2. status'["S"] = o /\ status'["R"] = status["R"]
    BY <2>0, StatusAfter DEF UpdateUiInfo
  <2>3. UNCHANGED <<link, known, net, sending, receiving>>
    BY <2>0 DEF UpdateUiInfo
  <2>4. s = "gather"
    BY <2>1 DEF OfferMade, OfferAt
  <2>9. OfferAt("notify")'
    BY <2>1, <2>3, <2>4 DEF OfferMade, OfferAt
  <2>5. Steady'
    BY <2>1, <2>2, <2>3, <2>4 DEF Steady, link, known, sending, receiving
  <2>6. OfferMade("notify")'
    BY <2>1, <2>2, <2>3, <2>4, <2>9 DEF OfferMade, link, known, sending, receiving
  <2>7. OfferReceived("notify")'
    BY <2>1, <2>2, <2>3, <2>4
       DEF OfferMade, OfferAt, OfferReceived, NotAccepted, Untold, link, known, sending,
           receiving
  <2>8. Answered("notify")'
    BY <2>1, <2>2, <2>3, <2>4
       DEF OfferMade, OfferAt, OfferReceived, Answered, Answering, link, known, sending,
           receiving
  <2> QED
    BY <2>5, <2>6, <2>7, <2>8 DEF WaitAt, Stage
<1>4. CASE NotifyRemoteMachine
  <2>1. UNCHANGED <<link, ops, net, sending, receiving>> /\ cmd["S"]["add"] = 0
    BY <1>4 DEF NotifyRemoteMachine
  <2>2. cmd["S"]["notify"] > 0 /\ s = "notify"
    BY <1>4 DEF NotifyRemoteMachine, Become, BecomeN, Put, Take, OfferMade, OfferAt
  <2>3. CASE Waits("S")
    <3>1. \A f \in End, l \in Job :
             cmd'[f][l] = IF f = "S" /\ l = "notify" THEN cmd[f][l] - 1
                          ELSE IF f = "S" /\ l = "request" THEN cmd[f][l] + 1 ELSE cmd[f][l]
      BY <1>4, <2>3, MoveCounts DEF NotifyRemoteMachine
    <3>2. Steady'
      BY <2>1, <2>2, <2>3, <3>1 DEF Steady, link, ops, known, sending, receiving
    <3>3. OfferMade("request")'
      BY <2>1, <2>2, <2>3, <3>1 DEF OfferMade, OfferAt, link, ops, known, sending, receiving
    <3>4. OfferReceived("request")'
      BY <2>1, <2>2, <2>3, <3>1
         DEF OfferMade, OfferAt, OfferReceived, NotAccepted, Untold, link, ops, known,
             sending, receiving
    <3>5. Answered("request")'
      BY <2>1, <2>2, <2>3, <3>1
         DEF OfferMade, OfferAt, OfferReceived, Answered, Answering, link, ops, known,
             sending, receiving
    <3> QED
      BY <3>2, <3>3, <3>4, <3>5 DEF WaitAt, Stage
  <2>4. CASE ~Waits("S")
    <3>1. \A f \in End, l \in Job :
             cmd'[f][l] = IF f = "S" /\ l = "notify" THEN cmd[f][l] - 1 ELSE cmd[f][l]
      BY <1>4, <2>4, JobCounts DEF NotifyRemoteMachine
    <3>2. Steady'
      BY <2>1, <2>2, <2>4, <3>1 DEF Steady, link, ops, known, sending, receiving
    <3>3. OfferMade("received")'
      BY <2>1, <2>2, <2>4, <3>1 DEF OfferMade, OfferAt, link, ops, known, sending, receiving
    <3>4. OfferReceived("received")'
      BY <2>1, <2>2, <2>4, <3>1
         DEF OfferMade, OfferAt, OfferReceived, NotAccepted, Untold, link, ops, known,
             sending, receiving
    <3>5. Answered("received")'
      BY <2>1, <2>2, <2>4, <3>1
         DEF OfferMade, OfferAt, OfferReceived, Answered, Answering, link, ops, known,
             sending, receiving
    <3> QED
      BY <3>2, <3>3, <3>4, <3>5 DEF WaitAt, Stage
  <2> QED
    BY <2>3, <2>4
<1>5. CASE SendTransferOpRequest
  <2>1. /\ cmd["S"]["request"] > 0
        /\ \A f \in End, l \in Job :
             cmd'[f][l] = IF f = "S" /\ l = "request" THEN cmd[f][l] - 1 ELSE cmd[f][l]
    BY <1>5, JobCounts DEF SendTransferOpRequest
  <2>2. \A f \in End, m \in Call :
          net'[f][m] = IF f = "R" /\ m = "Process" THEN net[f][m] + 1 ELSE net[f][m]
    BY <1>5, SendCounts DEF SendTransferOpRequest, Steady
  <2>3. UNCHANGED <<link, ops, sending, receiving>>
    BY <1>5 DEF SendTransferOpRequest
  <2>4. s = "request"
    BY <2>1 DEF OfferMade, OfferAt
  <2>5. Steady'
    BY <2>1, <2>2, <2>3, <2>4 DEF Steady, link, ops, known, sending, receiving
  <2>6. OfferMade("Process")'
    BY <2>1, <2>2, <2>3, <2>4 DEF OfferMade, OfferAt, link, ops, known, sending, receiving
  <2>7. OfferReceived("Process")'
    BY <2>1, <2>2, <2>3, <2>4
       DEF OfferMade, OfferAt, OfferReceived, NotAccepted, Untold, link, ops, known, sending,
           receiving
  <2>8. Answered("Process")'
    BY <2>1, <2>2, <2>3, <2>4
       DEF OfferMade, OfferAt, OfferReceived, Answered, Answering, link, ops, known, sending,
           receiving
  <2> QED
    BY <2>5, <2>6, <2>7, <2>8 DEF WaitAt, Stage
<1>6. CASE RetryTransfer
  BY <1>6 DEF RetryTransfer, Become, BecomeN, Put, Steady
<1> QED
  BY <1>1, <1>2, <1>3, <1>4, <1>5, <1>6 DEF SenderJob

\* A step that is aside from the offer: it ends no wait and answers nothing.
LEMMA WaitAside ==
    ASSUME TypeOK, NEW s \in Stage, WaitAt(s),
           UNCHANGED <<conn, lost, status, thr, gen, cancellable>>,
           listed'["R"] = listed["R"],
           listed["S"] => listed'["S"] \/ OfferOver,
           \A f \in End, k \in Job :
              \/ f = "S" /\ k \in {"cancel", "stop", "lost", "remove"}
              \/ cmd'[f][k] = cmd[f][k],
           cmd'["S"]["remove"] > 0 => cmd["S"]["remove"] > 0 \/ OfferOver,
           \A f \in End, m \in Call :
              (f = "R" /\ m = "Cancel") \/ net'[f][m] = net[f][m]
    PROVE  WaitAt(s)'
<1> USE Ends, JobNames, CallNames, Counts DEF OfferOver, Waits, WaitAt
<1>1. Steady'
  BY DEF Steady
<1>2. OfferMade(s)'
  BY DEF OfferMade, OfferAt
<1>3. OfferReceived(s)'
  BY DEF OfferReceived, NotAccepted, Untold
<1>4. Answered(s)'
  BY DEF Answered, Answering
<1> QED
  BY <1>1, <1>2, <1>3, <1>4

\* A step after R has been told.  It may end the wait of either end, if the other's
\* is then over or an answer is under way.
LEMMA WaitTold ==
    ASSUME TypeOK, NEW s \in Stage, WaitAt(s), ~Untold,
           UNCHANGED <<conn, lost>>,
           \A k \in {"prepare", "gather", "notify", "request", "restart", "add"} :
              cmd'["S"][k] = cmd["S"][k],
           cmd'["R"]["add"] = cmd["R"]["add"],
           net'["R"]["Process"] = net["R"]["Process"],
           cmd'["S"]["remove"] > 0 => cmd["S"]["remove"] > 0 \/ OfferOver',
           listed'["S"] = listed["S"],
           status'["S"] = status["S"] \/ OfferOver',
           status'["R"] # "INIT",
           Waits("R")' => Waits("R") /\ NotAccepted',
           net'["R"]["CancelOk"] > 0 => net["R"]["CancelOk"] > 0 \/ OfferOver',
           \A i \in Stream : gen'[i] # "none" => thr'[i] # "none",
           Waits("S")' /\ (Waits("R") \/ Answering) => Waits("R")' \/ Answering',
           Waits("R")' /\ OfferOver' =>
                    \/ net'["R"]["CancelOk"] > 0
                    \/ OfferOver /\ net'["R"]["CancelOk"] = net["R"]["CancelOk"]
    PROVE  WaitAt(s)'
<1> USE Ends, JobNames, CallNames, Counts DEF OfferOver, Waits, WaitAt
<1>0. s = "received" /\ status["R"] # "INIT" /\ cmd["R"]["add"] = 0
  BY DEF OfferReceived
<1>1. Steady'
  BY DEF Steady
<1>2. OfferAt(s)'
  BY DEF OfferMade, OfferAt
<1>3. OfferMade(s)'
  BY <1>0, <1>2 DEF OfferMade
<1>4. OfferReceived(s)'
  BY <1>0 DEF OfferReceived
<1>5. Answered(s)'
  BY <1>0 DEF Answered
<1> QED
  BY <1>1, <1>3, <1>4, <1>5

\* Adding an op that is not listed queues its autostart, or its refusal.
LEMMA AddAfter ==
    ASSUME TypeOK, AddReceiveOp, ~listed["R"]
    PROVE  /\ cmd["R"]["add"] > 0 /\ cmd'["R"]["add"] = cmd["R"]["add"] - 1
           /\ status["R"] = "FAILED_UNRECOVERABLE" => cmd'["R"]["cancel"] > 0
<1> DEFINE rest == Drop(cmd, "R", "add")
<1>1. cmd["R"]["add"] > 0 /\ handlers' = handlers + 1
  BY DEF AddReceiveOp, AppendReceiveOp, Become, BecomeN, Put
<1>2. rest \in [End -> [Job -> Nat]] /\ rest["R"]["add"] = cmd["R"]["add"] - 1
  BY <1>1, Ends, JobNames, DropBag DEF TypeOK, QueueType, Drop
<1> HIDE DEF rest
<1>3. ASSUME NEW k \in {"cancel", "auto"}, NEW n \in Nat, cmd' = PutN(rest, "R", k, n)
      PROVE  cmd'["R"]["add"] = rest["R"]["add"] /\ cmd'["R"][k] = rest["R"][k] + n
  BY <1>2, <1>3, Ends, JobNames DEF PutN
<1>4. \/ cmd' = PutN(rest, "R", "cancel", handlers')
      \/ cmd' = PutN(rest, "R", "auto", 1) /\ status["R"] # "FAILED_UNRECOVERABLE"
  BY DEF AddReceiveOp, Become, BecomeN, Put, rest
<1>5. handlers' \in Nat /\ handlers' > 0 /\ rest["R"]["cancel"] \in Nat
  BY <1>1, <1>2, Ends, JobNames DEF TypeOK, OpType
<1>6. cmd'["R"]["add"] = cmd["R"]["add"] - 1
  BY <1>2, <1>3, <1>4, <1>5
<1>7. status["R"] = "FAILED_UNRECOVERABLE" => cmd'["R"]["cancel"] > 0
  BY <1>3, <1>4, <1>5
<1> QED
  BY <1>1, <1>6, <1>7

\* R gets the offer, lists it, and may start it.
LEMMA WaitReceiver ==
    ASSUME TypeOK, NEW s \in Stage, WaitAt(s), ReceiverJob
    PROVE  \E t \in Stage : WaitAt(t)'
<1> USE Ends, JobNames, CallNames, Counts DEF OfferOver, Waits, WaitAt
<1>0. s # "received" \/ cmd["R"]["add"] > 0 => Untold
  BY DEF OfferReceived
<1>1. CASE ProcessKnownOp
  <2>1. net["R"]["Process"] > 0 /\ listed["R"]
    BY <1>1 DEF ProcessKnownOp, Deliver
  <2> QED
    BY <1>0, <2>1 DEF OfferMade, OfferAt, Untold
<1>2. CASE ProcessNewOp
  <2>1. /\ net["R"]["Process"] > 0
        /\ \A f \in End, m \in Call :
             net'[f][m] = IF f = "R" /\ m = "Process" THEN net[f][m] - 1 ELSE net[f][m]
    BY <1>2, CallCounts DEF ProcessNewOp
  <2>2. \A f \in End, l \in Job :
           cmd'[f][l] = IF f = "R" /\ l = "add" THEN cmd[f][l] + 1 ELSE cmd[f][l]
    BY <1>2, JobCounts DEF ProcessNewOp
  <2>3. /\ UNCHANGED <<link, listed, sending, thr>>
        /\ status'["R"] \in {"WAITING_PERMISSION", "FAILED_UNRECOVERABLE"}
        /\ status'["S"] = status["S"]
    BY <1>2, StatusAfter DEF ProcessNewOp
  <2>4. s = "Process" /\ Untold /\ cmd["R"]["add"] = 0
    BY <1>0, <2>1 DEF OfferMade, OfferAt, OfferReceived
  <2>5. Steady'
    BY <2>2, <2>3 DEF Steady, link
  <2>6. OfferAt("received")'
    BY <2>1, <2>2, <2>4 DEF OfferMade, OfferAt
  <2>7. OfferMade("received")'
    BY <2>1, <2>2, <2>3, <2>4, <2>6 DEF OfferMade
  <2>8. NotAccepted' /\ Untold'
    BY <2>1, <2>2, <2>3, <2>4 DEF NotAccepted, Untold, sending
  <2>9. OfferReceived("received")'
    BY <2>1, <2>2, <2>3, <2>4, <2>8 DEF OfferReceived, NotAccepted
  <2>10. Answered("received")'
    BY <2>1, <2>2, <2>3, <2>4 DEF OfferMade, Answered, Answering
  <2> QED
    BY <2>5, <2>7, <2>9, <2>10 DEF Stage
<1>3. CASE AddReceiveOp
  <2>1. cmd["R"]["add"] > 0
    BY <1>3 DEF AddReceiveOp, Become, BecomeN, Put
  <2>2. UNCHANGED <<link, status, net, sending, receiving>> /\ listed'["S"] = listed["S"]
    BY <1>3 DEF AddReceiveOp, AppendReceiveOp, TypeOK, OpType
  <2>3. Untold /\ cmd["R"]["add"] = 1 /\ s = "received" /\ status["R"] # "INIT"
    BY <1>0, <2>1 DEF OfferReceived
  <2>4. /\ cmd'["R"]["add"] = 0
        /\ status["R"] = "FAILED_UNRECOVERABLE" => cmd'["R"]["cancel"] > 0
        /\ \A f \in End, l \in Job :
             \/ f = "R" /\ l \in {"add", "auto", "cancel"}
             \/ cmd'[f][l] = cmd[f][l]
    BY <1>3, <2>3, AddCounts, AddAfter DEF Untold
  <2>5. Steady'
    BY <2>2, <2>4 DEF Steady, link
  <2>6. OfferMade(s)'
    BY <2>2, <2>4 DEF OfferMade, OfferAt
  <2>7. NotAccepted'
    BY <2>2, <2>3, <2>4 DEF NotAccepted, Untold, sending, receiving
  <2>8. OfferReceived(s)'
    BY <2>2, <2>3, <2>4, <2>7 DEF OfferReceived, NotAccepted
  <2>9. Answered(s)'
    BY <2>2, <2>3, <2>4 DEF Answered, Answering, Untold, NotAccepted
  <2> QED
    BY <2>5, <2>6, <2>8, <2>9
<1>4. CASE CheckForAutostart
  <2>1. cmd["R"]["auto"] > 0 /\ UNCHANGED <<link, ops, net, sending, receiving>>
    BY <1>4, AutoCounts DEF CheckForAutostart
  <2>2. \A f \in End, l \in Job \ {"auto", "start"} : cmd'[f][l] = cmd[f][l]
    BY <1>4, AutoCounts
  <2>3. ~Untold /\ status["R"] # "INIT"
    BY <2>1 DEF Untold, OfferReceived
  <2>4. NotAccepted' <=> NotAccepted
    BY <2>1, <2>2 DEF NotAccepted, sending, receiving
  <2>5. Answering' <=> Answering
    BY <2>1, <2>2 DEF Answering, ops, sending, receiving
  <2> QED
    BY <2>1, <2>2, <2>3, <2>4, <2>5, WaitTold
       DEF link, ops, known, sending, receiving, OfferReceived
<1> QED
  BY <1>1, <1>2, <1>3, <1>4 DEF ReceiverJob

\* An answered cancel sends its reply.
LEMMA AnswerGiven ==
    ASSUME TypeOK, NEW e \in End, net[e]["Cancel"] > 0,
           net' = Put(Drop(net, e, "Cancel"), Other(e), "CancelOk")
    PROVE  /\ net'[Other(e)]["CancelOk"] > 0
           /\ net'[e]["CancelOk"] = net[e]["CancelOk"]
<1> DEFINE rest == Drop(net, e, "Cancel")
<1>1. rest \in [End -> [Call -> Nat]] /\ Other(e) \in End /\ Other(e) # e
  BY Ends, CallNames, DropBag DEF TypeOK, QueueType, Other, End
<1>2. rest[e]["CancelOk"] = net[e]["CancelOk"]
  BY CallNames DEF TypeOK, QueueType, Drop
<1> HIDE DEF rest
<1>3. /\ Put(rest, Other(e), "CancelOk")[Other(e)]["CancelOk"] = rest[Other(e)]["CancelOk"] + 1
      /\ Put(rest, Other(e), "CancelOk")[e]["CancelOk"] = rest[e]["CancelOk"]
  BY <1>1, CallNames DEF Put, PutN
<1>4. rest[Other(e)]["CancelOk"] \in Nat
  BY <1>1, CallNames
<1> QED
  BY <1>2, <1>3, <1>4 DEF rest

\* Cancels, stops, removals and their calls.
LEMMA WaitAnswers ==
    ASSUME TypeOK, NEW s \in Stage, WaitAt(s), NEW e \in End, Jobs(e) \/ Calls(e)
    PROVE  WaitAt(s)'
<1> USE Ends, JobNames, CallNames, Counts DEF OfferOver, Waits, WaitAt
<1>0. (e = "S" /\ Other(e) = "R") \/ (e = "R" /\ Other(e) = "S")
  BY DEF End, Other
<1>1. CASE CancelTransferOpRequest(e)
  <2>1. /\ cmd[e]["cancel"] > 0
        /\ \A f \in End, k \in Job :
             cmd'[f][k] = IF f = e /\ k = "cancel" THEN cmd[f][k] - 1 ELSE cmd[f][k]
    BY <1>1, JobCounts DEF CancelTransferOpRequest
  <2>2. \A f \in End, m \in Call :
           net'[f][m] = IF f = Other(e) /\ m = "Cancel" THEN net[f][m] + 1 ELSE net[f][m]
    BY <1>1, SendCounts DEF CancelTransferOpRequest, Steady
  <2>3. UNCHANGED <<link, ops, sending, receiving>>
    BY <1>1 DEF CancelTransferOpRequest
  <2>4. CASE e = "S"
    BY <1>0, <2>1, <2>2, <2>3, <2>4, WaitAside DEF link, ops, known, sending, receiving
  <2>5. CASE e = "R"
    <3>1. ~Untold /\ status["R"] # "INIT"
      BY <2>1, <2>5 DEF Untold, OfferReceived
    <3>2. Answering'
      BY <1>0, <2>2, <2>5 DEF Answering
    <3>3. NotAccepted => NotAccepted'
      BY <1>0, <2>1, <2>2, <2>3, <2>5 DEF NotAccepted, sending, receiving
    <3> QED
      BY <1>0, <2>1, <2>2, <2>3, <2>5, <3>1, <3>2, <3>3, WaitTold
         DEF link, ops, known, sending, receiving, OfferReceived
  <2> QED
    BY <1>0, <2>4, <2>5
<1>2. CASE CancelReturned(e)
  <2>1. /\ net[e]["CancelOk"] > 0
        /\ \A f \in End, m \in Call :
             net'[f][m] = IF f = e /\ m = "CancelOk" THEN net[f][m] - 1 ELSE net[f][m]
    BY <1>2, CallCounts DEF CancelReturned
  <2>2. \A f \in End : status'[f] = IF f = e THEN CancelledBy(e) ELSE status[f]
    BY <1>2, StatusAfter DEF CancelReturned
  <2>3. UNCHANGED <<link, known, cmd, sending, receiving>>
    BY <1>2 DEF CancelReturned
  <2>4. ~Untold /\ status["R"] # "INIT" /\ (e = "S" => ~Waits("R"))
    BY <1>0, <2>1 DEF Untold, NotAccepted, OfferReceived
  <2>5. Answering /\ Waits("S")' => Answering'
    BY <1>0, <2>1, <2>2, <2>3, <2>4
       DEF Answering, CancelledBy, OfferReceived, sending, receiving
  <2>6. status'["R"] # "INIT" /\ ~Waits("R")' /\ (e = "S" => OfferOver')
        /\ (e = "R" => OfferOver /\ OfferOver' /\ status'["S"] = status["S"])
    BY <1>0, <2>1, <2>2, <2>4 DEF CancelledBy, OfferReceived
  <2> QED
    BY <1>0, <2>1, <2>2, <2>3, <2>4, <2>5, <2>6, WaitTold
       DEF link, known, sending, receiving, OfferReceived
<1>3. CASE StopTransferOp(e)
  <2>1. /\ cmd[e]["stop"] > 0
        /\ \A f \in End, k \in Job :
             cmd'[f][k] = IF f = e /\ k = "stop" THEN cmd[f][k] - 1 ELSE cmd[f][k]
        /\ UNCHANGED <<link, known>>
    BY <1>3, JobCounts DEF StopTransferOp
  <2>2. CASE NothingToStop(e)
    BY <1>3, <2>1, <2>2, WaitAside
       DEF StopTransferOp, NothingToStop, link, known, sending, receiving
  <2>3. CASE ~NothingToStop(e)
    <3>1. UNCHANGED <<thr, gen, cancellable>>
      BY <1>3, <2>3 DEF StopTransferOp, Interrupt
    <3>2. \A f \in End, m \in Call :
             net'[f][m] = net[f][m] \/ (f = Other(e) /\ m \in {"Stop", "StopError"})
      BY <1>3, <2>3, CallCounts DEF StopTransferOp
    <3>3. \A f \in End : status'[f] =
             IF f = e THEN (IF error[e] THEN "FAILED" ELSE StoppedBy(e)) ELSE status[f]
      BY <1>3, <2>3, StatusAfter DEF StopTransferOp
    <3>4. ~NotAccepted /\ ~Untold /\ status["R"] # "INIT" /\ ~Waits("R")
      BY <1>0, <2>1, <2>3 DEF NothingToStop, NotAccepted, Untold, OfferReceived
    <3>5. status'["R"] # "INIT" /\ ~Waits("R")' /\ (status'["S"] = status["S"] \/ OfferOver')
      BY <1>0, <3>3, <3>4 DEF StoppedBy
    <3>6. Answering /\ Waits("S")' => Answering'
      BY <1>0, <2>1, <3>1, <3>2, <3>3, <3>4 DEF Answering, StoppedBy, OfferReceived
    <3> QED
      BY <1>0, <2>1, <3>1, <3>2, <3>4, <3>5, <3>6, WaitTold
         DEF link, known, OfferReceived
  <2> QED
    BY <2>2, <2>3
<1>4. CASE StopLostTransferOp(e)
  <2>1. /\ cmd[e]["lost"] > 0
        /\ \A f \in End, k \in Job :
             cmd'[f][k] = IF f = e /\ k = "lost" THEN cmd[f][k] - 1 ELSE cmd[f][k]
        /\ UNCHANGED <<link, ops, net, thr, gen, cancellable>>
    BY <1>4, JobCounts DEF StopLostTransferOp, Interrupt
  <2>2. CASE e = "S"
    BY <2>1, <2>2, WaitAside DEF link, ops, known
  <2>3. CASE e = "R"
    <3>1. ~Untold /\ status["R"] # "INIT"
      BY <2>1, <2>3 DEF Untold, OfferReceived
    <3>2. (NotAccepted => NotAccepted') /\ (Answering => Answering')
      BY <2>1, <2>3 DEF NotAccepted, Answering, ops
    <3> QED
      BY <2>1, <2>3, <3>1, <3>2, WaitTold DEF link, ops, known, OfferReceived
  <2> QED
    BY <1>0, <2>2, <2>3
<1>5. CASE RemoveOp(e)
  <2>1. /\ cmd[e]["remove"] > 0
        /\ \A f \in End, k \in Job :
             cmd'[f][k] = IF f = e /\ k = "remove" THEN cmd[f][k] - 1 ELSE cmd[f][k]
        /\ \A f \in End : f # e => listed'[f] = listed[f]
        /\ UNCHANGED <<link, status, net, sending, receiving>>
    BY <1>5, JobCounts DEF RemoveOp, TypeOK, OpType
  <2>2. CASE e = "S"
    BY <1>0, <2>1, <2>2, WaitAside DEF link, sending, receiving, OfferMade
  <2>3. CASE e = "R"
    <3>1. ~Untold /\ status["R"] # "INIT"
      BY <2>1, <2>3 DEF Untold, OfferReceived
    <3>2. (NotAccepted => NotAccepted') /\ (Answering => Answering')
      BY <2>1, <2>3 DEF NotAccepted, Answering, sending, receiving
    <3> QED
      BY <2>1, <2>3, <3>1, <3>2, WaitTold DEF link, sending, receiving, OfferReceived
  <2> QED
    BY <1>0, <2>2, <2>3
<1>6. CASE HandleCancel(e)
  <2>1. net[e]["Cancel"] > 0 /\ UNCHANGED <<link, known, cmd, sending, receiving>>
    BY <1>6 DEF HandleCancel
  <2>2. CASE ~listed[e]
    <3>1. /\ \A f \in End, m \in Call :
               net'[f][m] = IF f = e /\ m = "Cancel" THEN net[f][m] - 1 ELSE net[f][m]
          /\ UNCHANGED status
      BY <1>6, <2>2, CallCounts DEF HandleCancel, Deliver
    <3>2. CASE e = "R"
      BY <2>1, <3>1, <3>2, WaitAside DEF link, known, sending, receiving
    <3>3. CASE e = "S"
      <4>1. ~Untold /\ s = "received" /\ status["R"] # "INIT"
        BY <2>1, <3>3 DEF Untold, OfferReceived
      <4>2. OfferOver
        BY <2>2, <3>3, <4>1 DEF OfferMade
      <4>3. NotAccepted => NotAccepted'
        BY <2>1, <3>1 DEF NotAccepted, sending, receiving
      <4> QED
        BY <2>1, <3>1, <3>3, <4>1, <4>2, <4>3, WaitTold
           DEF link, known, sending, receiving, OfferReceived
    <3> QED
      BY <1>0, <3>2, <3>3
  <2>3. CASE listed[e]
    <3>1. \A f \in End : status'[f] = IF f = e THEN CancelledBy(Other(e)) ELSE status[f]
      BY <1>6, <2>3, StatusAfter DEF HandleCancel
    <3>2. /\ \A f \in End, m \in Call \ {"CancelOk"} :
               net'[f][m] = IF f = e /\ m = "Cancel" THEN net[f][m] - 1 ELSE net[f][m]
          /\ net'[Other(e)]["CancelOk"] > 0
          /\ net'[e]["CancelOk"] = net[e]["CancelOk"]
      BY <1>6, <2>3, AnswerCounts, AnswerGiven DEF HandleCancel
    <3>3. ~Untold /\ status["R"] # "INIT"
      BY <1>0, <2>1, <2>3 DEF Untold, OfferReceived
    <3>4. CASE e = "S"
      <4>1. NotAccepted => NotAccepted'
        BY <1>0, <2>1, <3>2, <3>4 DEF NotAccepted, sending, receiving
      <4>2. OfferOver' /\ status'["R"] = status["R"]
        BY <1>0, <3>1, <3>4 DEF CancelledBy
      <4> QED
        BY <1>0, <2>1, <3>2, <3>3, <3>4, <4>1, <4>2, WaitTold
           DEF link, known, sending, receiving, OfferReceived
    <3>5. CASE e = "R"
      <4>1. status'["R"] # "INIT" /\ ~Waits("R")' /\ status'["S"] = status["S"] /\ Answering'
        BY <1>0, <3>1, <3>2, <3>5 DEF CancelledBy, Answering
      <4> QED
        BY <1>0, <2>1, <3>2, <3>3, <3>5, <4>1, WaitTold
           DEF link, known, sending, receiving, OfferReceived
    <3> QED
      BY <1>0, <3>4, <3>5
  <2> QED
    BY <2>2, <2>3
<1>7. ASSUME NEW m \in {"Stop", "StopError"}, HandleStop(e, m)
      PROVE  WaitAt(s)'
  <2>1. /\ net[e][m] > 0
        /\ \A f \in End, l \in Call :
             net'[f][l] = IF f = e /\ l = m THEN net[f][l] - 1 ELSE net[f][l]
        /\ UNCHANGED <<link, known, cmd>>
    BY <1>7, CallCounts DEF HandleStop
  <2>2. UNCHANGED <<thr, gen, cancellable>>
    BY <1>7 DEF HandleStop, Interrupt, sending, receiving
  <2>3. UNCHANGED status \/ status' = [status EXCEPT ![e] = "FAILED"]
          \/ status' = [status EXCEPT ![e] = StoppedBy(Other(e))]
    BY <1>7 DEF HandleStop, SetStatus
  <2>4. ~NotAccepted /\ ~Untold /\ status["R"] # "INIT" /\ ~Waits("R")
    BY <1>0, <2>1 DEF NotAccepted, Untold, OfferReceived
  <2>5. status'["R"] # "INIT" /\ ~Waits("R")' /\ (status'["S"] = status["S"] \/ OfferOver')
    BY <1>0, <2>3, <2>4 DEF StoppedBy, TypeOK, OpType
  <2>6. Answering /\ Waits("S")' => Answering'
    BY <1>0, <2>1, <2>2, <2>4 DEF Answering, OfferReceived
  <2> QED
    BY <1>0, <2>1, <2>2, <2>4, <2>5, <2>6, WaitTold DEF link, known, OfferReceived
<1> QED
  BY <1>1, <1>2, <1>3, <1>4, <1>5, <1>6, <1>7 DEF Jobs, Calls

\* A thread of R or a generator of S: R has accepted.
LEMMA WaitStreams ==
    ASSUME TypeOK, NEW s \in Stage, WaitAt(s), NEW i \in Stream,
           ReceiverThread(i) \/ WriteError(i) \/ SenderThread(i)
    PROVE  WaitAt(s)'
<1> USE Ends, JobNames, CallNames, Counts DEF OfferOver, Waits, WaitAt
<1>0. /\ thr \in [Stream -> {"none", "calling", "recv", "counting", "done"}]
      /\ \A j \in Stream : gen[j] # "none" => thr[j] # "none"
      /\ gen \in [Stream -> {"none", "requested", "between", "inside", "eof",
                             "cut", "error", "failed", "closed"}]
  BY DEF TypeOK, ReceivingType, SendingType, OfferReceived
<1>1. thr[i] # "none"
  BY <1>0 DEF ReceiverThread, CallStartTransfer, ReceiveFile, ReceiveFinished, CountFiles,
     ReceiveCancelled, ReceiveBroken, WriteError, Receiving, SenderThread, StartTransfer,
     YieldFirstChunk, YieldLastChunk, AllFilesSent, SendStopped, ReadError, TransferDone,
     GeneratorDropped, Unfinished
<1>2. s = "received" /\ ~Untold /\ ~Waits("R") /\ status["R"] # "INIT" /\ cmd["R"]["add"] = 0
  BY <1>1 DEF Untold, NotAccepted, OfferReceived
<1>3. ASSUME UNCHANGED <<link, listed, net>>,
             UNCHANGED cmd \/ Emit("R", "stop"),
             UNCHANGED status \/ (\E t \in {"FAILED", "FINISHED", "FINISHED_WARNING"} :
                                     SetStatus("R", t))
               \/ (\E t \in {"TRANSFERRING", "FINISHED", "FAILED_UNRECOVERABLE"} :
                      SetStatus("S", t)),
             \A j \in Stream : gen'[j] # "none" => thr'[j] # "none",
             \A j \in Stream : thr[j] = "calling" \/ gen[j] = "requested" =>
                thr'[j] = "calling" \/ gen'[j] = "requested" \/ ~Waits("S")'
      PROVE  WaitAt(s)'
  <2>1. \A f \in End, k \in Job : cmd'[f][k] = cmd[f][k] \/ (f = "R" /\ k = "stop")
    BY <1>3, EmitCounts
  <2>2. /\ status'["R"] # "INIT" /\ ~Waits("R")'
        /\ status'["S"] = status["S"] \/ OfferOver'
    BY <1>2, <1>3, StatusAfter
  <2>3. Answering /\ Waits("S")' => Answering'
    BY <1>2, <1>3, <2>1 DEF Answering
  <2> QED
    BY <1>2, <1>3, <2>1, <2>2, <2>3, WaitTold DEF link
<1>4. ASSUME thr[i] \in {"recv", "counting"}, NEW t \in {"counting", "done"},
             thr' = [thr EXCEPT ![i] = t], UNCHANGED gen
      PROVE  /\ \A j \in Stream : gen'[j] # "none" => thr'[j] # "none"
             /\ \A j \in Stream : thr[j] = "calling" \/ gen[j] = "requested" =>
                   thr'[j] = "calling" \/ gen'[j] = "requested"
  BY <1>0, <1>4
<1>5. CASE CallStartTransfer(i)
  <2>1. /\ thr' = [thr EXCEPT ![i] = "recv"] /\ gen' = [gen EXCEPT ![i] = "requested"]
        /\ UNCHANGED <<link, ops, cmd, net>>
    BY <1>5 DEF CallStartTransfer, Steady
  <2>2. /\ \A j \in Stream : gen'[j] # "none" => thr'[j] # "none"
        /\ \A j \in Stream : thr[j] = "calling" \/ gen[j] = "requested" =>
              thr'[j] = "calling" \/ gen'[j] = "requested"
    BY <1>0, <2>1
  <2> QED
    BY <1>3, <2>1, <2>2 DEF ops, known
<1>6. CASE ReceiveFile(i)
  <2>1. UNCHANGED <<link, known, net, sending>> /\ thr[i] = "recv"
    BY <1>6 DEF ReceiveFile, Receiving
  <2>2. CASE UNCHANGED <<status, error, cmd, thr, call, iterator>>
    BY <1>0, <1>3, <2>1, <2>2 DEF known, sending
  <2>3. CASE ReportReceiveError(i)
    BY <1>3, <1>4, <2>1, <2>3 DEF ReportReceiveError, known, sending
  <2> QED
    BY <1>6, <2>2, <2>3 DEF ReceiveFile
<1>7. CASE WriteError(i)
  BY <1>3, <1>4, <1>7 DEF WriteError, Receiving, ReportReceiveError, known, sending
<1>8. CASE ReceiveFinished(i) \/ CountFiles(i)
  <2>1. PICK t \in {"counting", "done"} :
            /\ thr[i] \in {"recv", "counting"} /\ thr' = [thr EXCEPT ![i] = t]
            /\ \E u \in {"FINISHED", "FINISHED_WARNING"} : SetStatus("R", u)
            /\ UNCHANGED <<link, known, cmd, net, sending>>
    BY <1>8 DEF ReceiveFinished, CountFiles, Receiving
  <2> QED
    BY <1>3, <1>4, <2>1 DEF known, sending
<1>9. CASE ReceiveCancelled(i)
  BY <1>3, <1>4, <1>9 DEF ReceiveCancelled, ops, known, sending
<1>10. CASE ReceiveBroken(i)
  BY <1>3, <1>4, <1>10 DEF ReceiveBroken, ReportReceiveError, known, sending
<1>11. CASE StartTransfer(i)
  <2>1. /\ gen[i] = "requested"
        /\ \E g \in {"between", "closed"} : gen' = [gen EXCEPT ![i] = g]
        /\ UNCHANGED <<link, error, known, cmd, net, thr>>
        /\ IF listed["S"] THEN SetStatus("S", "TRANSFERRING") ELSE UNCHANGED status
    BY <1>11 DEF StartTransfer
  <2>2. ~Waits("S")'
    <3>1. CASE listed["S"]
      BY <2>1, <3>1, StatusAfter
    <3>2. CASE ~listed["S"]
      BY <1>2, <2>1, <3>2 DEF OfferMade
    <3> QED
      BY <3>1, <3>2
  <2>3. \A j \in Stream : gen'[j] # "none" => thr'[j] # "none"
    BY <1>0, <1>1, <2>1
  <2> QED
    BY <1>3, <2>1, <2>2, <2>3 DEF known
<1>12. CASE SenderThread(i) /\ ~StartTransfer(i)
  <2>1. /\ gen[i] # "requested"
        /\ \E g \in {"inside", "between", "eof", "cut", "error", "failed", "closed"} :
              gen' = [gen EXCEPT ![i] = g]
        /\ UNCHANGED <<link, known, cmd, net, thr>>
        /\ \/ UNCHANGED status
           \/ SetStatus("S", "FINISHED")
           \/ SetStatus("S", "FAILED_UNRECOVERABLE")
    BY <1>12 DEF SenderThread, YieldFirstChunk, YieldLastChunk, AllFilesSent, SendStopped,
       ReadError, TransferDone, GeneratorDropped, Generate, Unfinished, receiving
  <2>2. \A j \in Stream : gen'[j] # "none" => thr'[j] # "none"
    BY <1>0, <1>1, <2>1
  <2>3. \A j \in Stream : thr[j] = "calling" \/ gen[j] = "requested" =>
                thr'[j] = "calling" \/ gen'[j] = "requested"
    BY <1>0, <2>1
  <2> QED
    BY <1>3, <2>1, <2>2, <2>3 DEF known
<1> QED
  BY <1>5, <1>6, <1>7, <1>8, <1>9, <1>10, <1>11, <1>12 DEF ReceiverThread

\* A stream that is started answers the offer.
LEMMA WaitStart ==
    ASSUME TypeOK, NEW s \in Stage, WaitAt(s), NEW i \in Stream, StartTransferOp(i)
    PROVE  WaitAt(s)'
<1> USE Ends, JobNames, CallNames, Counts DEF OfferOver, Waits, WaitAt
<1>1. /\ cmd["R"]["start"] > 0
      /\ \A f \in End, k \in Job :
           cmd'[f][k] = IF f = "R" /\ k = "start" THEN cmd[f][k] - 1 ELSE cmd[f][k]
      /\ UNCHANGED <<link, known, net, sending>>
  BY JobCounts DEF StartTransferOp
<1>2. /\ thr'[i] = "calling" /\ thr' = [thr EXCEPT ![i] = "calling"]
      /\ \A j \in Stream : gen[j] # "none" => thr[j] # "none"
  BY DEF StartTransferOp, TypeOK, ReceivingType, OfferReceived
<1>3. status'["R"] = "TRANSFERRING" /\ status'["S"] = status["S"]
  BY StatusAfter DEF StartTransferOp
<1>4. ~Untold
  BY <1>1 DEF Untold
<1>5. Answering'
  BY <1>2 DEF Answering
<1>6. \A j \in Stream : gen'[j] # "none" => thr'[j] # "none"
  BY <1>1, <1>2 DEF sending, TypeOK, ReceivingType
<1> QED
  BY <1>1, <1>3, <1>4, <1>5, <1>6, WaitTold DEF link, known

\* While no loss happens, the network does nothing that either end notices.
LEMMA WaitNetwork ==
    ASSUME TypeOK, NEW s \in Stage, WaitAt(s), Network, losses' = 0
    PROVE  WaitAt(s)'
<1>1. ~ConnectionLost
  BY DEF ConnectionLost, TypeOK, LinkType
<1>2. ~ConnectionRestored /\ \A e \in End : ~CancelOpsIfOffline(e)
  BY DEF ConnectionRestored, CancelOpsIfOffline, WaitAt, Steady, End
<1>3. PICK e \in End : RemoteOnline(e)
  BY <1>1, <1>2 DEF Network
<1> QED
  BY <1>3, WaitAside DEF RemoteOnline, ops, known, sending, receiving

\* A button is shown by its op's status, and only for an op that is listed.
LEMMA WaitClick ==
    ASSUME TypeOK, NEW s \in Stage, WaitAt(s), NEW b \in Button, Click(b),
           clicked'["restart"] = 0
    PROVE  WaitAt(s)'
<1> USE Ends, JobNames, CallNames, Counts DEF OfferOver, Waits, WaitAt
<1>1. b # "restart"
  BY DEF Click, TypeOK, QueueType, Button
<1>2. /\ listed[Owner(b)] /\ ButtonShown(b)
      /\ UNCHANGED <<link, ops, net, sending, receiving>>
  BY DEF Click
<1>3. PICK n \in Nat : \A f \in End, k \in Job :
         cmd'[f][k] = IF f = Owner(b) /\ k = Command(b) THEN cmd[f][k] + n ELSE cmd[f][k]
  BY CommandTyped, EmitCounts DEF Click
<1>4. CASE b \in {"cancel", "sendStop", "sendRemove"}
  <2>1. Owner(b) = "S" /\ Command(b) \in {"cancel", "stop", "remove"}
        /\ (Command(b) = "remove" => OfferOver)
    BY <1>2, <1>4 DEF Owner, Command, ButtonShown, Removable
  <2> QED
    BY <1>2, <1>3, <2>1, WaitAside DEF link, ops, known, sending, receiving
<1>5. CASE b \in {"accept", "decline", "receiveStop", "receiveRemove"}
  <2>1. /\ Owner(b) = "R" /\ Command(b) \in {"start", "cancel", "stop", "remove"}
        /\ (Command(b) = "stop" => ~Waits("R"))
    BY <1>2, <1>5 DEF Owner, Command, ButtonShown
  <2>2. ~Untold /\ status["R"] # "INIT"
    BY <1>2, <2>1 DEF Untold, OfferReceived
  <2>3. Waits("R") /\ NotAccepted => NotAccepted'
    BY <1>2, <1>3, <2>1 DEF NotAccepted, sending, receiving
  <2>4. Answering => Answering'
    BY <1>2, <1>3, <2>1 DEF Answering, ops, sending, receiving
  <2> QED
    BY <1>2, <1>3, <2>1, <2>2, <2>3, <2>4, WaitTold
       DEF link, ops, known, sending, receiving, OfferReceived
<1> QED
  BY <1>1, <1>4, <1>5 DEF Button

\* Losses and presses are only ever counted up.
LEMMA HistoryGrows ==
    ASSUME TypeOK, [Next]_vars
    PROVE  losses' >= losses /\ \A b \in Button : clicked'[b] >= clicked[b]
<1>0. losses \in Nat /\ clicked \in [Button -> Nat]
  BY LossAssumption DEF TypeOK, LinkType, QueueType
<1>1. SUFFICES ASSUME ~UNCHANGED <<losses, clicked>>
               PROVE  losses' >= losses /\ \A b \in Button : clicked'[b] >= clicked[b]
  BY <1>0
<1>2. CASE SenderJob
  BY <1>1, <1>2 DEF SenderJob, AddSendOp, PrepareSendInfo, GatherFileInfo, UpdateUiInfo,
     NotifyRemoteMachine, SendTransferOpRequest, RetryTransfer, link
<1>3. CASE ReceiverJob
  BY <1>1, <1>3 DEF ReceiverJob, ProcessKnownOp, ProcessNewOp, AddReceiveOp,
     AppendReceiveOp, CheckForAutostart, link
<1>4. ASSUME NEW e \in End, Jobs(e) \/ Calls(e)
      PROVE  FALSE
  BY <1>1, <1>4 DEF Jobs, Calls, CancelTransferOpRequest, CancelReturned, StopTransferOp,
     StopLostTransferOp, RemoveOp, HandleCancel, HandleStop, link
<1>5. ASSUME NEW i \in Stream,
             StartTransferOp(i) \/ ReceiverThread(i) \/ WriteError(i) \/ SenderThread(i)
      PROVE  FALSE
  BY <1>1, <1>5 DEF StartTransferOp, ReceiverThread, CallStartTransfer, ReceiveFile,
     ReceiveFinished, CountFiles, ReceiveCancelled, ReceiveBroken, WriteError, SenderThread,
     StartTransfer, YieldFirstChunk, YieldLastChunk, AllFilesSent, SendStopped, ReadError,
     TransferDone, GeneratorDropped, Generate, link
<1>6. CASE Network
  BY <1>0, <1>1, <1>6 DEF Network, ConnectionLost, ConnectionRestored, CancelOpsIfOffline,
     RemoteOnline
<1>7. ASSUME NEW b \in Button, Click(b)
      PROVE  losses' >= losses /\ \A c \in Button : clicked'[c] >= clicked[c]
  BY <1>0, <1>7 DEF Click, link
<1> QED
  BY <1>1, <1>2, <1>3, <1>4, <1>5, <1>6, <1>7 DEF Next, vars, link

LEMMA WaitAlways == Spec => []WaitInv
<1>1. Init => WaitInv
  BY WaitInit
<1>2. TypeOK /\ WaitInv /\ [Next]_vars => WaitInv'
  <2> SUFFICES ASSUME TypeOK, WaitInv, [Next]_vars, Unbroken'
               PROVE  \E s \in Stage : WaitAt(s)'
    BY DEF WaitInv
  <2>1. Unbroken
    BY HistoryGrows, LossAssumption DEF Unbroken, TypeOK, LinkType, QueueType, Button
  <2>2. PICK s \in Stage : WaitAt(s)
    BY <2>1 DEF WaitInv
  <2>3. CASE UNCHANGED vars
    <3>1. WaitAt(s)'
      BY <2>2, <2>3, WaitAside DEF vars, link, ops, known, sending, receiving
    <3> QED
      BY <3>1
  <2> QED
    BY <2>2, <2>3, WaitSender, WaitReceiver, WaitAnswers, WaitStreams, WaitStart,
       WaitNetwork, WaitClick DEF Next, Unbroken
<1> QED
  BY <1>1, <1>2, TypeCorrect, PTL DEF Spec

\* An offer waits for an answer at both ends or at neither once nothing is left to
\* happen, whichever of cancel, decline, accept, stop and remove crossed each other,
\* and however often each was pressed.  (remote.cancel_transfer_op_request,
\* server.CancelTransferOpRequest, remote.add_op)
THEOREM BothWait == Spec => []WaitingAgrees
<1>1. TypeOK /\ WaitInv => WaitingAgrees
  <2> SUFFICES ASSUME TypeOK, AtRest, NEW s \in Stage, WaitAt(s)
               PROVE  Waits("S") <=> Waits("R")
    BY DEF WaitInv, WaitingAgrees, Unbroken, Waits
  <2> USE Ends, JobNames, CallNames
  <2>1. /\ \A e \in End : /\ \A k \in Job : cmd[e][k] = 0
                          /\ \A m \in Call : net[e][m] = 0
        /\ \A i \in Stream : thr[i] # "calling" /\ gen[i] # "requested"
    BY DEF AtRest
  <2>2. ~Answering
    BY <2>1 DEF Answering
  <2>3. s = "received"
    BY <2>1 DEF WaitAt, OfferMade, OfferAt, Stage
  <2>4. Waits("S") => Waits("R")
    BY <2>2, <2>3 DEF WaitAt, Answered
  <2>5. Waits("R") => ~OfferOver
    BY <2>1 DEF WaitAt, Answered
  <2> QED
    BY <2>3, <2>4, <2>5 DEF WaitAt, OfferMade, Waits
<1> QED
  BY <1>1, WaitAlways, TypeCorrect, PTL

-----------------------------------------------------------------------------
(***************************************************************************)
(* Both ends agree on the outcome of an op that was started once.  It runs *)
(* its course: not started, streaming, received to its end, or given up by *)
(* R; and in each part the two statuses can be told from where the thread, *)
(* the generator and the last messages are.                                *)
(***************************************************************************)
\* No user has stopped, cancelled or removed anything, at either end.
NobodyInterferes ==
    /\ \A k \in {"cancel", "stop", "remove", "lost"} : cmd["S"][k] = 0
    /\ cmd["R"]["remove"] = 0 /\ cmd["R"]["lost"] = 0
    /\ \A m \in {"Cancel", "Stop", "StopError"} : net["R"][m] = 0
    /\ net["S"]["CancelOk"] = 0 /\ net["S"]["Stop"] = 0

\* No refusal of R's is under way, nor its reply.
NotRefused == cmd["R"]["cancel"] = 0 /\ net["S"]["Cancel"] = 0 /\ net["R"]["CancelOk"] = 0

\* R has not told S of an error.
NoError == cmd["R"]["stop"] = 0 /\ net["S"]["StopError"] = 0

\* R has not started: it waits for its user, or refuses an offer it cannot take.
Unstarted ==
    /\ thr[1] = "none" /\ gen[1] = "none" /\ sent[1] = 0 /\ ~evt[1] /\ NoError
    /\ <<status["S"], status["R"]>> \in
          ({"INIT", "CALCULATING", "WAITING_PERMISSION", "FILE_NOT_FOUND",
            "FAILED_UNRECOVERABLE"} \X {"INIT"})
          \cup {<<"WAITING_PERMISSION", "WAITING_PERMISSION">>,
                <<"WAITING_PERMISSION", "FAILED_UNRECOVERABLE">>,
                <<"CANCELLED_PERMISSION_BY_RECEIVER", "FAILED_UNRECOVERABLE">>,
                <<"CANCELLED_PERMISSION_BY_RECEIVER", "CANCELLED_PERMISSION_BY_RECEIVER">>}
    /\ status["R"] \in {"INIT", "WAITING_PERMISSION"} => NotRefused
    /\ cmd["R"]["start"] > 0 => Waits("R")
    /\ status["S"] = "CANCELLED_PERMISSION_BY_RECEIVER" =>
          /\ listed["S"]
          /\ status["R"] = "FAILED_UNRECOVERABLE" => net["R"]["CancelOk"] > 0

\* What S shows of its generator, while nobody has told it of an error.
SenderShows ==
    /\ gen[1] \in {"none", "requested"} => Waits("S") /\ sent[1] = 0
    /\ gen[1] \in {"between", "inside", "error"} => status["S"] = "TRANSFERRING"
    /\ gen[1] = "eof" => status["S"] = "FINISHED" /\ sent[1] = N
    /\ gen[1] = "failed" => status["S"] = "FAILED_UNRECOVERABLE"

\* The one stream runs, and neither end has seen an error.
Streaming ==
    /\ thr[1] \in {"calling", "recv"} /\ NoError /\ ~evt[1] /\ SenderShows
    /\ status["R"] = "TRANSFERRING"
    /\ thr[1] = "calling" => gen[1] = "none"
    /\ thr[1] = "recv" =>
          /\ call[1] = "open"
          /\ gen[1] \in {"requested", "between", "inside", "eof", "error", "failed"}
          /\ got[1] <= sent[1]

\* R has seen the stream end, and may have yet to count.
Received ==
    /\ thr[1] \in {"counting", "done"} /\ NoError /\ SenderShows
    /\ call[1] = "complete"
    /\ gen[1] \in {"eof", "error", "failed"}
    /\ status["R"] \in {"FINISHED", "FINISHED_WARNING"}
    /\ gen[1] = "eof" => status["R"] = "FINISHED" /\ got[1] = N

\* R has failed, and tells S if that can still change what S shows.
GaveUp ==
    /\ thr[1] = "done"
    /\ call[1] = "cancelled"
    /\ gen[1] \notin {"none", "requested"}
    /\ status["R"] = "FAILED" /\ error["R"]
    /\ \/ cmd["R"]["stop"] > 0
       \/ net["S"]["StopError"] > 0
       \/ status["S"] \in {"FAILED", "FINISHED", "FAILED_UNRECOVERABLE"}

\* R has started its stream, so S has the op listed, and nobody has refused.
Started ==
    /\ listed["S"] /\ listed["R"] /\ NotRefused
    /\ Streaming \/ Received \/ GaveUp

Course ==
    /\ NobodyInterferes
    /\ listed["R"] => handlers > 0
    /\ cmd["R"]["auto"] > 0 \/ cmd["R"]["start"] > 0 => listed["R"]
    /\ Unstarted \/ Started

CourseInv == Undisturbed /\ OneStream => Course

LEMMA CourseInit == Init => Course
<1> SUFFICES ASSUME Init PROVE Course
  OBVIOUS
<1>1. /\ \A e \in End, k \in Job :
            cmd[e][k] = IF e = "S" /\ k \in {"add", "prepare"} THEN 1 ELSE 0
      /\ \A e \in End, m \in Call : net[e][m] = 0
      /\ \A e \in End : status[e] = "INIT" /\ ~listed[e]
  BY DEF Init, None
<1>2. NobodyInterferes /\ NotRefused /\ NoError
  BY <1>1, Ends, JobNames, CallNames DEF NobodyInterferes, NotRefused, NoError
<1>3. Unstarted
  BY <1>1, <1>2, Ends, JobNames, FirstStream DEF Unstarted, Waits, Init
<1> QED
  BY <1>1, <1>2, <1>3, Ends, JobNames DEF Course

\* Before R has the offer it has not started.
LEMMA CourseUntold ==
    ASSUME Course, status["R"] = "INIT" \/ Untold
    PROVE  Unstarted
BY FirstStream DEF Course, Started, Streaming, Received, GaveUp, Untold, NotAccepted

\* What is aside from the course: the jobs of S's offer, and the place in S's list.
LEMMA CourseAside ==
    ASSUME TypeOK, Course,
           UNCHANGED <<status, error, handlers, sending, thr, call, got>>,
           listed["S"] => listed'["S"], listed'["R"] = listed["R"],
           \A k \in {"cancel", "stop", "remove", "lost"} : cmd'["S"][k] = cmd["S"][k],
           \A k \in Job : cmd'["R"][k] = cmd["R"][k],
           \A f \in End, m \in Call \ {"Process"} : net'[f][m] = net[f][m]
    PROVE  Course'
<1> USE Ends, JobNames, CallNames
<1>1. NobodyInterferes' /\ (NotRefused' <=> NotRefused) /\ (NoError' <=> NoError)
  BY DEF Course, NobodyInterferes, NotRefused, NoError
<1>2. Unstarted => Unstarted'
  BY <1>1 DEF Unstarted, Waits, sending
<1>3. Started => Started'
  BY <1>1 DEF Started, Streaming, Received, GaveUp, SenderShows, Waits, sending
<1> QED
  BY <1>1, <1>2, <1>3 DEF Course

LEMMA CourseSender ==
    ASSUME TypeOK, NEW s \in Stage, WaitAt(s), Course, SenderJob
    PROVE  Course'
<1> USE Ends, JobNames, CallNames
<1>1. CASE AddSendOp
  <2>1. listed'["S"] /\ listed'["R"] = listed["R"]
    BY <1>1 DEF AddSendOp, TypeOK, OpType
  <2> QED
    BY <1>1, <2>1, JobCounts, CourseAside DEF AddSendOp, receiving
<1>2. ASSUME NEW t \in {"CALCULATING", "WAITING_PERMISSION", "FILE_NOT_FOUND",
                        "FAILED_UNRECOVERABLE"}, SetStatus("S", t),
             s # "received", UNCHANGED <<known, net, sending, receiving>>,
             \A k \in {"cancel", "stop", "remove", "lost"} : cmd'["S"][k] = cmd["S"][k],
             \A k \in Job : cmd'["R"][k] = cmd["R"][k]
      PROVE  Course'
  <2>1. Unstarted /\ status["R"] = "INIT"
    BY <1>2, CourseUntold DEF WaitAt, OfferReceived
  <2>2. status'["S"] = t /\ status'["R"] = "INIT"
    BY <1>2, <2>1, StatusAfter
  <2>3. NobodyInterferes' /\ NotRefused' /\ NoError'
    BY <1>2, <2>1 DEF Course, NobodyInterferes, Unstarted, NotRefused, NoError
  <2>4. Unstarted'
    BY <1>2, <2>1, <2>2, <2>3 DEF Unstarted, Waits, sending, receiving
  <2> QED
    BY <1>2, <2>3, <2>4 DEF Course, known
<1>3. CASE PrepareSendInfo
  <2>1. s = "prepare"
    BY <1>3 DEF PrepareSendInfo, Become, BecomeN, Put, WaitAt, OfferMade, OfferAt
  <2> QED
    BY <1>2, <1>3, <2>1, MoveCounts DEF PrepareSendInfo
<1>4. CASE GatherFileInfo
  <2>1. PICK o \in {"WAITING_PERMISSION", "FILE_NOT_FOUND", "FAILED_UNRECOVERABLE"} :
           UpdateUiInfo(o)
    BY <1>4 DEF GatherFileInfo
  <2>2. s = "gather"
    BY <2>1 DEF UpdateUiInfo, Become, BecomeN, Put, WaitAt, OfferMade, OfferAt
  <2> QED
    BY <1>2, <2>1, <2>2, MoveCounts DEF UpdateUiInfo
<1>5. CASE NotifyRemoteMachine
  <2>1. /\ \A k \in {"cancel", "stop", "remove", "lost"} : cmd'["S"][k] = cmd["S"][k]
        /\ \A k \in Job : cmd'["R"][k] = cmd["R"][k]
    BY <1>5, JobCounts, MoveCounts DEF NotifyRemoteMachine
  <2> QED
    BY <1>5, <2>1, CourseAside DEF NotifyRemoteMachine, ops, known, receiving
<1>6. CASE SendTransferOpRequest
  <2>1. /\ \A k \in {"cancel", "stop", "remove", "lost"} : cmd'["S"][k] = cmd["S"][k]
        /\ \A k \in Job : cmd'["R"][k] = cmd["R"][k]
    BY <1>6, JobCounts DEF SendTransferOpRequest
  <2>2. \A f \in End, m \in Call \ {"Process"} : net'[f][m] = net[f][m]
    BY <1>6, CallCounts DEF SendTransferOpRequest
  <2> QED
    BY <1>6, <2>1, <2>2, CourseAside DEF SendTransferOpRequest, ops, known, receiving
<1>7. CASE RetryTransfer
  BY <1>7 DEF RetryTransfer, Become, BecomeN, Put, WaitAt, Steady
<1> QED
  BY <1>1, <1>3, <1>4, <1>5, <1>6, <1>7 DEF SenderJob

LEMMA CourseReceiver ==
    ASSUME TypeOK, NEW s \in Stage, WaitAt(s), Course, ReceiverJob
    PROVE  Course'
<1> USE Ends, JobNames, CallNames, Counts
<1>1. CASE ProcessKnownOp
  BY <1>1 DEF ProcessKnownOp, Deliver, WaitAt, OfferMade, OfferAt, OfferReceived, Untold
<1>2. CASE ProcessNewOp
  <2>1. /\ \A f \in End, m \in Call \ {"Process"} : net'[f][m] = net[f][m]
        /\ \A f \in End, k \in Job \ {"add"} : cmd'[f][k] = cmd[f][k]
        /\ UNCHANGED <<listed, sending, thr>>
    BY <1>2, JobCounts, CallCounts DEF ProcessNewOp
  <2>2. s = "Process"
    BY <1>2 DEF ProcessNewOp, Deliver, WaitAt, OfferMade, OfferAt
  <2>3. Unstarted /\ Untold /\ status["R"] = "INIT" /\ Waits("S")
    BY <2>2, CourseUntold DEF WaitAt, OfferMade, OfferReceived
  <2>4. /\ status'["R"] \in {"WAITING_PERMISSION", "FAILED_UNRECOVERABLE"}
        /\ status'["S"] = "WAITING_PERMISSION"
    BY <1>2, <2>3, StatusAfter DEF ProcessNewOp, Waits
  <2>5. NobodyInterferes' /\ NotRefused' /\ NoError'
    BY <2>1, <2>3 DEF Course, NobodyInterferes, Unstarted, NotRefused, NoError
  <2>6. cmd'["R"]["start"] = 0 /\ cmd'["R"]["auto"] = 0 /\ ~listed'["R"]
    BY <2>1, <2>3 DEF Untold
  <2>7. Unstarted'
    BY <2>1, <2>3, <2>4, <2>5, <2>6 DEF Unstarted, Waits, sending
  <2> QED
    BY <2>5, <2>6, <2>7 DEF Course
<1>3. CASE AddReceiveOp
  <2>1. UNCHANGED <<status, net, sending, receiving>> /\ cmd["R"]["add"] > 0
    BY <1>3 DEF AddReceiveOp, AppendReceiveOp, Become, BecomeN, Put
  <2>2. Untold /\ Unstarted
    BY <2>1, CourseUntold DEF WaitAt, OfferReceived
  <2>3. listed'["R"] /\ listed'["S"] = listed["S"] /\ handlers' > 0
    BY <1>3, <2>2 DEF AddReceiveOp, AppendReceiveOp, TypeOK, OpType, Untold
  <2>4. /\ \A f \in End, l \in Job :
             \/ f = "R" /\ l \in {"add", "auto", "cancel"}
             \/ cmd'[f][l] = cmd[f][l]
        /\ status["R"] # "FAILED_UNRECOVERABLE" => cmd'["R"]["cancel"] = cmd["R"]["cancel"]
    BY <1>3, AddCounts, MoveCounts DEF AddReceiveOp
  <2>5. NobodyInterferes' /\ (NoError' <=> NoError)
    BY <2>1, <2>4 DEF Course, NobodyInterferes, NoError
  <2>6. status'["R"] \in {"INIT", "WAITING_PERMISSION"} => NotRefused'
    BY <2>1, <2>2, <2>4 DEF Unstarted, NotRefused
  <2>7. Unstarted'
    BY <2>1, <2>2, <2>3, <2>4, <2>5, <2>6 DEF Unstarted, Waits, sending, receiving
  <2> QED
    BY <2>3, <2>5, <2>7 DEF Course
<1>4. CASE CheckForAutostart
  <2>1. UNCHANGED <<link, ops, net, sending, receiving>> /\ cmd["R"]["auto"] > 0
    BY <1>4, AutoCounts DEF CheckForAutostart
  <2>2. /\ \A f \in End, l \in Job \ {"auto", "start"} : cmd'[f][l] = cmd[f][l]
        /\ cmd'["R"]["start"] = cmd["R"]["start"] \/ Waits("R")
    BY <1>4, AutoCounts DEF Waits
  <2>3. listed["R"]
    BY <2>1 DEF Course
  <2>4. NobodyInterferes' /\ (NotRefused' <=> NotRefused) /\ (NoError' <=> NoError)
    BY <2>1, <2>2 DEF Course, NobodyInterferes, NotRefused, NoError
  <2>5. Unstarted => Unstarted'
    BY <2>1, <2>2, <2>4 DEF Unstarted, Waits, ops, known, sending, receiving
  <2>6. Started => Started'
    <3>1. SenderShows => SenderShows'
      BY <2>1 DEF SenderShows, Waits, ops, sending
    <3>2. GaveUp => GaveUp'
      BY <2>1, <2>2 DEF GaveUp, ops, sending, receiving
    <3> QED
      BY <2>1, <2>4, <3>1, <3>2
         DEF Started, Streaming, Received, ops, known, sending, receiving
  <2> QED
    BY <2>1, <2>3, <2>4, <2>5, <2>6 DEF Course, ops, known
<1> QED
  BY <1>1, <1>2, <1>3, <1>4 DEF ReceiverJob

\* With nobody who interferes, what is left of cancels and stops is R's refusal and
\* R's error.
LEMMA CourseAnswers ==
    ASSUME TypeOK, NEW s \in Stage, WaitAt(s), Course, NEW e \in End, Jobs(e) \/ Calls(e)
    PROVE  Course'
<1> USE Ends, JobNames, CallNames, Counts
<1>0. NobodyInterferes /\ (e = "S" \/ e = "R") /\ Other("S") = "R" /\ Other("R") = "S"
  BY DEF Course, End, Other
<1>1. ASSUME ~NotRefused
      PROVE  /\ Unstarted
             /\ status["R"] \in {"FAILED_UNRECOVERABLE", "CANCELLED_PERMISSION_BY_RECEIVER"}
             /\ listed["S"]
  <2>1. /\ Unstarted
        /\ status["R"] \in {"FAILED_UNRECOVERABLE", "CANCELLED_PERMISSION_BY_RECEIVER"}
    BY <1>1 DEF Course, Started, Unstarted
  <2>2. s = "received"
    BY <2>1 DEF WaitAt, OfferReceived
  <2> QED
    BY <2>1, <2>2 DEF WaitAt, OfferMade, Unstarted, OfferOver
<1>2. CASE CancelTransferOpRequest(e)
  <2>1. /\ e = "R" /\ cmd["R"]["cancel"] > 0
        /\ \A f \in End, k \in Job :
             cmd'[f][k] = IF f = "R" /\ k = "cancel" THEN cmd[f][k] - 1 ELSE cmd[f][k]
        /\ UNCHANGED <<ops, sending, receiving>>
    BY <1>0, <1>2, JobCounts DEF CancelTransferOpRequest, NobodyInterferes
  <2>2. \A f \in End, m \in Call : net'[f][m] = net[f][m] \/ (f = "S" /\ m = "Cancel")
    BY <1>0, <1>2, <2>1, CallCounts DEF CancelTransferOpRequest
  <2>3. NobodyInterferes' /\ (NoError' <=> NoError)
    BY <2>1, <2>2 DEF Course, NobodyInterferes, NoError
  <2>4. Unstarted'
    BY <1>1, <2>1, <2>2, <2>3
       DEF NotRefused, Unstarted, Waits, ops, known, sending, receiving
  <2> QED
    BY <2>1, <2>3, <2>4 DEF Course, ops, known
<1>3. CASE CancelReturned(e)
  <2>1. /\ e = "R" /\ net["R"]["CancelOk"] > 0
        /\ \A f \in End, m \in Call :
             net'[f][m] = IF f = "R" /\ m = "CancelOk" THEN net[f][m] - 1 ELSE net[f][m]
        /\ UNCHANGED <<known, cmd, sending, receiving>>
    BY <1>0, <1>3, CallCounts DEF CancelReturned, NobodyInterferes, Deliver
  <2>2. Unstarted /\ status["S"] = "CANCELLED_PERMISSION_BY_RECEIVER"
    BY <1>1, <2>1 DEF NotRefused, Unstarted, WaitAt, OfferReceived, OfferOver
  <2>3. status'["R"] = "CANCELLED_PERMISSION_BY_RECEIVER" /\ status'["S"] = status["S"]
    BY <1>3, <2>1, StatusAfter DEF CancelReturned, CancelledBy
  <2>4. NobodyInterferes' /\ (NoError' <=> NoError)
    BY <2>1 DEF Course, NobodyInterferes, NoError
  <2>5. cmd["R"]["start"] = 0
    BY <1>1, <2>1 DEF NotRefused, Unstarted, Waits
  <2>6. Unstarted'
    BY <2>1, <2>2, <2>3, <2>4, <2>5 DEF Unstarted, known, sending, receiving
  <2> QED
    BY <2>1, <2>4, <2>6 DEF Course, known
<1>4. CASE StopTransferOp(e)
  <2>1. /\ e = "R" /\ cmd["R"]["stop"] > 0
        /\ \A f \in End, k \in Job :
             cmd'[f][k] = IF f = "R" /\ k = "stop" THEN cmd[f][k] - 1 ELSE cmd[f][k]
    BY <1>0, <1>4, JobCounts DEF StopTransferOp, NobodyInterferes
  <2>2. Started /\ GaveUp
    BY <2>1 DEF Course, Started, Unstarted, Streaming, Received, NoError
  <2>3. /\ SetStatus("R", "FAILED") /\ Send("S", "StopError") /\ CancelIterator
        /\ UNCHANGED <<link, error, known, gen, evt, sent, thr, got>>
    BY <1>0, <1>4, <2>1, <2>2 DEF StopTransferOp, NothingToStop, Interrupt, GaveUp
  <2>4. /\ status'["R"] = "FAILED" /\ status'["S"] = status["S"]
        /\ \A f \in End, m \in Call :
              net'[f][m] = IF f = "S" /\ m = "StopError" THEN net[f][m] + 1 ELSE net[f][m]
    BY <2>3, StatusAfter, SendCounts DEF WaitAt, Steady
  <2>5. call'[1] = "cancelled"
    BY <2>2, <2>3 DEF GaveUp, CancelIterator, TypeOK, ReceivingType
  <2>6. NobodyInterferes' /\ NotRefused'
    BY <2>1, <2>2, <2>4 DEF Course, NobodyInterferes, NotRefused, Started
  <2>7. GaveUp'
    BY <2>2, <2>3, <2>4, <2>5 DEF GaveUp
  <2> QED
    BY <2>1, <2>2, <2>3, <2>6, <2>7 DEF Course, Started, known
<1>5. CASE HandleCancel(e)
  <2>1. e = "S" /\ net["S"]["Cancel"] > 0 /\ UNCHANGED <<error, known, cmd, sending, receiving>>
    BY <1>0, <1>5 DEF HandleCancel, NobodyInterferes
  <2>2. Unstarted /\ listed["S"]
        /\ status["R"] \in {"FAILED_UNRECOVERABLE", "CANCELLED_PERMISSION_BY_RECEIVER"}
    BY <1>1, <2>1 DEF NotRefused
  <2>3. /\ SetStatus("S", "CANCELLED_PERMISSION_BY_RECEIVER")
        /\ net' = Put(Drop(net, "S", "Cancel"), Other("S"), "CancelOk")
    BY <1>0, <1>5, <2>1, <2>2 DEF HandleCancel, CancelledBy
  <2>4. /\ status'["S"] = "CANCELLED_PERMISSION_BY_RECEIVER" /\ status'["R"] = status["R"]
        /\ net'["R"]["CancelOk"] > 0 /\ net'["S"]["CancelOk"] = net["S"]["CancelOk"]
        /\ \A f \in End, m \in Call \ {"CancelOk"} :
             net'[f][m] = net[f][m] \/ (f = "S" /\ m = "Cancel")
    BY <1>0, <2>1, <2>3, StatusAfter, AnswerCounts, AnswerGiven
  <2>5. NobodyInterferes' /\ (NoError' <=> NoError)
    BY <2>1, <2>4 DEF Course, NobodyInterferes, NoError
  <2>6. Unstarted'
    BY <2>1, <2>2, <2>4, <2>5 DEF Unstarted, Waits, known, sending, receiving
  <2> QED
    BY <2>1, <2>5, <2>6 DEF Course, known
<1>6. CASE HandleStop(e, "StopError")
  <2>1. e = "S" /\ net["S"]["StopError"] > 0
        /\ UNCHANGED <<known, cmd, gen, sent, thr, call, got>>
    BY <1>0, <1>6 DEF HandleStop, Deliver, NobodyInterferes, Interrupt, sending, receiving
  <2>2. Started /\ GaveUp
    BY <2>1 DEF Course, Started, Unstarted, Streaming, Received, NoError
  <2>3. SetStatus("S", "FAILED") /\ error'["R"] = error["R"]
    BY <1>6, <2>1, <2>2 DEF Started, HandleStop, TypeOK, OpType
  <2>4. /\ status'["S"] = "FAILED" /\ status'["R"] = status["R"]
        /\ \A f \in End, m \in Call \ {"StopError"} : net'[f][m] = net[f][m]
        /\ net'["R"]["StopError"] = net["R"]["StopError"]
    BY <1>6, <2>1, <2>3, StatusAfter, CallCounts DEF HandleStop
  <2>5. NobodyInterferes' /\ NotRefused'
    BY <2>1, <2>2, <2>4 DEF Course, NobodyInterferes, NotRefused, Started
  <2>6. GaveUp'
    BY <2>1, <2>2, <2>3, <2>4 DEF GaveUp
  <2> QED
    BY <2>1, <2>2, <2>5, <2>6 DEF Course, Started, known
<1>7. ~StopLostTransferOp(e) /\ ~RemoveOp(e) /\ ~HandleStop(e, "Stop")
  BY <1>0 DEF StopLostTransferOp, RemoveOp, HandleStop, Take, Deliver, NobodyInterferes
<1> QED
  BY <1>2, <1>3, <1>4, <1>5, <1>6, <1>7 DEF Jobs, Calls

\* The thread of R calls, receives, sees the end, or gives up.
LEMMA CourseThread ==
    ASSUME TypeOK, NEW s \in Stage, WaitAt(s), CountInv, OneStream, Course,
           NEW i \in Stream, ReceiverThread(i) \/ WriteError(i), ~CountFiles(i)
    PROVE  Course'
<1> USE Ends, JobNames, CallNames, Counts, FirstStream
<1>0. /\ thr \in [Stream -> {"none", "calling", "recv", "counting", "done"}]
      /\ call \in [Stream -> {"none", "open", "cancelled", "broken", "complete"}]
      /\ gen \in [Stream -> {"none", "requested", "between", "inside", "eof",
                             "cut", "error", "failed", "closed"}]
      /\ got \in [Stream -> 0 .. N] /\ sent \in [Stream -> 0 .. N]
      /\ remaining \in Int /\ N \in Nat /\ handlers \in Nat
  BY NAssumption DEF TypeOK, ReceivingType, SendingType, OpType
<1>1. i = 1 /\ Started /\ Streaming
  <2>1. thr[i] \in {"calling", "recv"}
    BY DEF ReceiverThread, CallStartTransfer, ReceiveFile, ReceiveFinished,
       ReceiveCancelled, ReceiveBroken, WriteError, Receiving
  <2> QED
    BY <2>1 DEF OneStream, Course, Started, Unstarted, Received, GaveUp
<1>2. NobodyInterferes /\ NotRefused /\ NoError /\ handlers > 0
  BY <1>1 DEF Course, Started, Streaming
<1>3. ASSUME UNCHANGED <<cmd, net>>
      PROVE  NobodyInterferes' /\ NotRefused' /\ NoError'
  BY <1>2, <1>3 DEF NobodyInterferes, NotRefused, NoError
<1>4. ASSUME ReportReceiveError(1), thr[1] = "recv", got[1] > 0 \/ got[1] < sent[1],
             UNCHANGED <<known, net, sending>>
      PROVE  Course'
  <2>0. status'["R"] = "FAILED" /\ error'["R"]
    BY <1>4, StatusAfter, ErrorAfter DEF ReportReceiveError
  <2>1. thr'[1] = "done" /\ call'[1] = "cancelled"
    BY <1>0, <1>1, <1>4 DEF ReportReceiveError, Streaming
  <2>2. \A f \in End, k \in Job :
           cmd'[f][k] = IF f = "R" /\ k = "stop" THEN cmd[f][k] + handlers ELSE cmd[f][k]
    BY <1>4, EmitCounts DEF ReportReceiveError
  <2>3. gen[1] \notin {"none", "requested"}
    BY <1>0, <1>1, <1>4 DEF Streaming, SenderShows
  <2>4. NobodyInterferes' /\ NotRefused'
    BY <1>2, <1>4, <2>2 DEF NobodyInterferes, NotRefused
  <2>5. cmd'["R"]["stop"] > 0
    BY <1>0, <1>2, <2>2 DEF NoError
  <2>6. GaveUp'
    BY <1>4, <2>0, <2>1, <2>3, <2>5 DEF GaveUp, sending
  <2> QED
    BY <1>1, <1>2, <1>4, <2>2, <2>4, <2>6 DEF Course, Started, known
<1>5. CASE CallStartTransfer(i)
  <2>1. /\ thr[1] = "calling" /\ thr'[1] = "recv"
        /\ call'[1] = "open" /\ gen'[1] = "requested"
        /\ UNCHANGED <<ops, cmd, net, evt, sent, got>>
    BY <1>0, <1>1, <1>5 DEF CallStartTransfer, WaitAt, Steady
  <2>2. gen[1] = "none" /\ got[1] = 0
    BY <1>1, <2>1 DEF Streaming, CountInv
  <2>3. Waits("S") /\ sent[1] = 0
    BY <1>1, <2>2 DEF Streaming, SenderShows
  <2>4. Streaming'
    BY <1>1, <1>3, <2>1, <2>2, <2>3 DEF Streaming, SenderShows, Waits, ops
  <2> QED
    BY <1>1, <1>2, <1>3, <2>1, <2>4 DEF Course, Started, ops, known
<1>6. CASE ReceiveFile(i)
  <2>1. /\ thr[1] = "recv" /\ got[1] < sent[1]
        /\ UNCHANGED <<known, net, sending>>
    BY <1>1, <1>6 DEF ReceiveFile, Receiving
  <2>2. CASE /\ got' = [got EXCEPT ![1] = @ + 1]
             /\ UNCHANGED <<status, error, cmd, thr, call, iterator>>
    <3>1. got'[1] <= sent[1]
      BY <1>0, <2>1, <2>2
    <3>2. SenderShows'
      BY <1>1, <2>1, <2>2 DEF Streaming, SenderShows, Waits, sending
    <3>3. Streaming'
      BY <1>1, <1>3, <2>1, <2>2, <3>1, <3>2 DEF Streaming, sending
    <3> QED
      BY <1>1, <1>2, <1>3, <2>1, <2>2, <3>3 DEF Course, Started, known
  <2> QED
    BY <1>1, <1>4, <1>6, <2>1, <2>2 DEF ReceiveFile
<1>7. CASE WriteError(i)
  BY <1>1, <1>4, <1>7 DEF WriteError, Receiving
<1>8. CASE ReceiveFinished(i)
  <2>1. /\ thr[1] = "recv" /\ got[1] = sent[1]
        /\ gen[1] \in {"eof", "cut", "error", "failed"}
        /\ thr'[1] = "counting" /\ call'[1] = "complete"
        /\ UNCHANGED <<known, cmd, net, sending, got>>
    BY <1>0, <1>1, <1>8 DEF ReceiveFinished, Receiving
  <2>2. gen[1] # "cut"
    BY <1>1, <2>1 DEF Streaming
  <2>3. gen[1] = "eof" => got[1] = N
    BY <1>1, <2>1 DEF Streaming, SenderShows
  <2>4. status'["S"] = status["S"] /\ status'["R"] = "FINISHED"
    BY <1>8, StatusAfter DEF ReceiveFinished
  <2>5. SenderShows'
    BY <1>1, <2>1, <2>4 DEF Streaming, SenderShows, Waits, sending
  <2>6. Received'
    BY <1>3, <2>1, <2>2, <2>3, <2>4, <2>5 DEF Received, sending
  <2> QED
    BY <1>1, <1>2, <1>3, <2>1, <2>6 DEF Course, Started, known
<1>9. ~ReceiveCancelled(i) /\ ~ReceiveBroken(i)
  BY <1>1 DEF ReceiveCancelled, ReceiveBroken, Streaming
<1> QED
  BY <1>5, <1>6, <1>7, <1>8, <1>9 DEF ReceiverThread

\* The thread of R counts the files, and ends.
LEMMA CourseCounted ==
    ASSUME TypeOK, CountInv, OneStream, Course, NEW i \in Stream, CountFiles(i)
    PROVE  Course'
<1> USE Ends, JobNames, CallNames, Counts, FirstStream
<1>1. i = 1 /\ Started /\ Received /\ thr[1] = "counting"
  BY DEF CountFiles, OneStream, Course, Started, Unstarted, Streaming, GaveUp
<1>2. thr'[1] = "done" /\ UNCHANGED <<known, cmd, net, sending, call, got>>
  BY <1>1 DEF CountFiles, TypeOK, ReceivingType
<1>3. gen[1] = "eof" => ~(remaining > 0)
  BY <1>1, NAssumption DEF Received, CountInv
<1>4. /\ status'["S"] = status["S"]
      /\ status'["R"] \in {"FINISHED", "FINISHED_WARNING"}
      /\ ~(remaining > 0) => status'["R"] = "FINISHED"
  <2>1. CASE remaining > 0
    BY <2>1, StatusAfter DEF CountFiles
  <2>2. CASE ~(remaining > 0)
    BY <2>2, StatusAfter DEF CountFiles
  <2> QED
    BY <2>1, <2>2
<1>5. NobodyInterferes' /\ NotRefused' /\ NoError'
  BY <1>1, <1>2 DEF Course, Started, Received, NobodyInterferes, NotRefused, NoError
<1>6. SenderShows'
  BY <1>1, <1>2, <1>4 DEF Received, SenderShows, Waits, sending
<1>7. Received'
  BY <1>1, <1>2, <1>3, <1>4, <1>5, <1>6 DEF Received, sending
<1> QED
  BY <1>1, <1>2, <1>5, <1>7 DEF Course, Started, known

\* The generator of S goes on; what it shows follows it.
LEMMA CourseGenerator ==
    ASSUME TypeOK, NEW s \in Stage, WaitAt(s), OneStream, Course,
           NEW i \in Stream, SenderThread(i)
    PROVE  Course'
<1> USE Ends, JobNames, CallNames, Counts, FirstStream
<1>0. /\ gen \in [Stream -> {"none", "requested", "between", "inside", "eof",
                             "cut", "error", "failed", "closed"}]
      /\ got \in [Stream -> 0 .. N] /\ sent \in [Stream -> 0 .. N] /\ N \in Nat
      /\ \A j \in Stream : gen[j] # "none" => thr[j] # "none"
  BY NAssumption DEF TypeOK, ReceivingType, SendingType, WaitAt, OfferReceived
<1>1. gen[i] # "none" /\ i = 1 /\ Started
  <2>1. gen[i] # "none"
    BY DEF SenderThread, StartTransfer, YieldFirstChunk, YieldLastChunk, AllFilesSent,
       SendStopped, ReadError, TransferDone, GeneratorDropped, Unfinished
  <2> QED
    BY <1>0, <2>1 DEF OneStream, Course, Unstarted
<1>2. ASSUME NEW g \in {"between", "inside", "eof", "cut", "error", "failed", "closed"},
             gen' = [gen EXCEPT ![1] = g],
             UNCHANGED <<known, cmd, net, evt, thr, call, got>>,
             error'["R"] = error["R"],
             status'["R"] = status["R"],
             sent'[1] \in Nat, sent'[1] >= sent[1],
             GaveUp => status'["S"] = status["S"]
                         \/ status'["S"] \in {"FINISHED", "FAILED_UNRECOVERABLE"},
             Streaming \/ Received => g \notin {"cut", "closed"} /\ SenderShows',
             Received => g = "failed"
      PROVE  Course'
  <2>1. NobodyInterferes' /\ NotRefused' /\ (NoError => NoError')
    BY <1>1, <1>2 DEF Course, Started, NobodyInterferes, NotRefused, NoError
  <2>2. gen'[1] = g
    BY <1>0, <1>2
  <2>3. Streaming => Streaming'
    BY <1>0, <1>1, <1>2, <2>1, <2>2 DEF Streaming
  <2>4. Received => Received'
    BY <1>2, <2>1, <2>2 DEF Received
  <2>5. GaveUp => GaveUp'
    BY <1>2, <2>2 DEF GaveUp
  <2> QED
    BY <1>1, <1>2, <2>1, <2>3, <2>4, <2>5 DEF Course, Started, known
<1>3. CASE StartTransfer(i)
  <2>1. gen[1] = "requested" /\ listed["S"] /\ Streaming
    BY <1>1, <1>3 DEF StartTransfer, Started, Streaming, Received, GaveUp
  <2>2. /\ gen' = [gen EXCEPT ![1] = "between"] /\ SetStatus("S", "TRANSFERRING")
        /\ UNCHANGED <<error, known, cmd, net, evt, sent, thr, call, got>>
    BY <1>1, <1>3, <2>1 DEF StartTransfer
  <2>3. status'["S"] = "TRANSFERRING" /\ status'["R"] = status["R"]
    BY <2>2, StatusAfter
  <2>4. SenderShows'
    BY <1>0, <2>2, <2>3 DEF SenderShows
  <2> QED
    BY <1>0, <1>2, <2>1, <2>2, <2>3, <2>4 DEF Streaming, Received, GaveUp
<1>4. ASSUME NEW g \in {"inside", "between", "error"}, gen[1] \in {"between", "inside"},
             UNCHANGED status, Generate(1, g), sent'[1] \in Nat, sent'[1] >= sent[1]
      PROVE  Course'
  <2>1. ~Received /\ gen'[1] = g
    BY <1>0, <1>4 DEF Received, Generate
  <2>2. Streaming => SenderShows'
    BY <1>4, <2>1 DEF Streaming, SenderShows
  <2> QED
    BY <1>2, <1>4, <2>1, <2>2 DEF Generate, receiving
<1>5. CASE YieldFirstChunk(i) \/ YieldLastChunk(i) \/ ReadError(i)
  <2>1. UNCHANGED status /\ gen[1] \in {"between", "inside"}
    BY <1>1, <1>5 DEF YieldFirstChunk, YieldLastChunk, ReadError, Unfinished
  <2>2. sent'[1] \in Nat /\ sent'[1] >= sent[1]
    BY <1>0, <1>1, <1>5 DEF YieldFirstChunk, YieldLastChunk, ReadError
  <2> QED
    BY <1>1, <1>4, <1>5, <2>1, <2>2 DEF YieldFirstChunk, YieldLastChunk, ReadError
<1>6. CASE AllFilesSent(i)
  <2>1. /\ gen[1] = "between" /\ sent[1] = N /\ SetStatus("S", "FINISHED")
        /\ Generate(1, "eof") /\ UNCHANGED sent
    BY <1>1, <1>6 DEF AllFilesSent
  <2>2. status'["S"] = "FINISHED" /\ status'["R"] = status["R"]
    BY <2>1, StatusAfter
  <2>3. SenderShows' /\ ~Received
    BY <1>0, <2>1, <2>2 DEF SenderShows, Generate, Received
  <2> QED
    BY <1>0, <1>2, <2>1, <2>2, <2>3 DEF Generate, receiving
<1>7. CASE SendStopped(i) \/ GeneratorDropped(i)
  <2>1. /\ gen[1] \in {"between", "inside"}
        /\ evt[1] \/ call[1] \in {"cancelled", "broken"}
        /\ \E g \in {"cut", "closed"} : Generate(1, g)
        /\ UNCHANGED <<status, sent>>
    BY <1>1, <1>7 DEF SendStopped, GeneratorDropped, Unfinished
  <2>2. ~Received /\ ~Streaming
    <3>1. Streaming => thr[1] = "recv"
      BY <2>1 DEF Streaming
    <3> QED
      BY <2>1, <3>1 DEF Received, Streaming
  <2>3. PICK g \in {"cut", "closed"} : Generate(1, g)
    BY <2>1
  <2>4. sent'[1] \in Nat /\ sent'[1] >= sent[1]
    BY <1>0, <2>1
  <2> QED
    BY <1>2, <2>1, <2>2, <2>3, <2>4 DEF Generate, receiving
<1>8. CASE TransferDone(i)
  <2>1. /\ gen[1] = "error" /\ gen' = [gen EXCEPT ![1] = "failed"]
        /\ SetStatus("S", "FAILED_UNRECOVERABLE") /\ SetError("S")
        /\ UNCHANGED <<known, cmd, net, evt, sent, thr, call, got>>
    BY <1>1, <1>8 DEF TransferDone, receiving
  <2>2. status'["S"] = "FAILED_UNRECOVERABLE" /\ status'["R"] = status["R"]
    BY <2>1, StatusAfter
  <2>3. error'["R"] = error["R"]
    BY <2>1 DEF SetError, TypeOK, OpType
  <2>4. SenderShows'
    BY <1>0, <2>1, <2>2 DEF SenderShows
  <2>5. sent'[1] \in Nat /\ sent'[1] >= sent[1]
    BY <1>0, <2>1
  <2> QED
    BY <1>2, <2>1, <2>2, <2>3, <2>4, <2>5
<1> QED
  BY <1>3, <1>5, <1>6, <1>7, <1>8 DEF SenderThread

\* A thread that was started is never unmade.
LEMMA ThreadsStay ==
    ASSUME TypeOK, [Next]_vars
    PROVE  \A i \in Stream : thr'[i] = "none" => thr[i] = "none"
<1> SUFFICES ASSUME ~UNCHANGED thr
             PROVE  \A i \in Stream : thr'[i] = "none" => thr[i] = "none"
  OBVIOUS
<1>0. thr \in [Stream -> {"none", "calling", "recv", "counting", "done"}]
  BY DEF TypeOK, ReceivingType
<1>1. ~SenderJob /\ ~ReceiverJob
  BY DEF SenderJob, AddSendOp, PrepareSendInfo, GatherFileInfo, UpdateUiInfo,
     NotifyRemoteMachine, SendTransferOpRequest, RetryTransfer, ReceiverJob,
     ProcessKnownOp, ProcessNewOp, AddReceiveOp, AppendReceiveOp, CheckForAutostart,
     receiving
<1>2. \A e \in End : ~Jobs(e) /\ ~Calls(e)
  BY DEF Jobs, Calls, CancelTransferOpRequest, CancelReturned, StopTransferOp,
     StopLostTransferOp, RemoveOp, HandleCancel, HandleStop, Interrupt, receiving
<1>3. ASSUME NEW i \in Stream,
             StartTransferOp(i) \/ ReceiverThread(i) \/ WriteError(i) \/ SenderThread(i)
      PROVE  \E t \in {"calling", "recv", "counting", "done"} : thr' = [thr EXCEPT ![i] = t]
  BY <1>3 DEF StartTransferOp, ReceiverThread, CallStartTransfer, ReceiveFile,
     ReceiveFinished, CountFiles, ReceiveCancelled, ReceiveBroken, ReportReceiveError, WriteError,
     SenderThread, StartTransfer, YieldFirstChunk, YieldLastChunk, AllFilesSent,
     SendStopped, ReadError, TransferDone, GeneratorDropped, Generate, receiving
<1>4. ~Network /\ \A b \in Button : ~Click(b)
  BY DEF Network, ConnectionLost, ConnectionRestored, CancelOpsIfOffline, RemoteOnline,
     Click, receiving
<1> QED
  BY <1>0, <1>1, <1>2, <1>3, <1>4 DEF Next, vars, receiving

\* The one stream is started from an offer that both ends wait for.
LEMMA CourseStart ==
    ASSUME TypeOK, NEW s \in Stage, WaitAt(s), CountInv, OneStream', Course,
           NEW i \in Stream, StartTransferOp(i)
    PROVE  Course'
<1> USE Ends, JobNames, CallNames, Counts, FirstStream
<1>1. /\ thr[i] = "none" /\ thr' = [thr EXCEPT ![i] = "calling"]
      /\ cmd["R"]["start"] > 0
      /\ \A f \in End, k \in Job :
           cmd'[f][k] = IF f = "R" /\ k = "start" THEN cmd[f][k] - 1 ELSE cmd[f][k]
      /\ UNCHANGED <<error, known, net, sending, call, got>>
  BY JobCounts DEF StartTransferOp
<1>2. i = 1 /\ thr[1] = "none" /\ thr'[1] = "calling"
  BY <1>1 DEF OneStream, TypeOK, ReceivingType
<1>3. Unstarted /\ Waits("R") /\ Waits("S") /\ listed["R"] /\ NotRefused
  BY <1>1, <1>2 DEF Course, Started, Streaming, Received, GaveUp, Unstarted, Waits
<1>4. listed["S"]
  <2>1. s = "received"
    BY <1>3 DEF WaitAt, OfferReceived, Waits
  <2> QED
    BY <1>3, <2>1 DEF WaitAt, OfferMade, OfferOver, Waits
<1>5. status'["R"] = "TRANSFERRING" /\ status'["S"] = status["S"]
  BY StatusAfter DEF StartTransferOp
<1>6. NobodyInterferes' /\ NotRefused' /\ NoError'
  BY <1>1, <1>3 DEF Course, Unstarted, NobodyInterferes, NotRefused, NoError
<1>7. SenderShows'
  BY <1>1, <1>3, <1>5 DEF Unstarted, SenderShows, Waits, sending
<1>8. Streaming'
  BY <1>1, <1>2, <1>3, <1>5, <1>6, <1>7 DEF Unstarted, Streaming, sending
<1> QED
  BY <1>1, <1>3, <1>4, <1>6, <1>8 DEF Course, Started, known

\* The only button that leaves a transfer undisturbed is accept.
LEMMA CourseClick ==
    ASSUME TypeOK, Course, NEW b \in Button, Click(b),
           \A c \in Button \ {"accept"} : clicked'[c] = 0
    PROVE  Course'
<1> USE Ends, JobNames, CallNames, Counts
<1>1. b = "accept"
  BY DEF Click, TypeOK, QueueType
<1>2. /\ listed["R"] /\ Waits("R") /\ UNCHANGED <<ops, net, sending, receiving>>
      /\ Emit("R", "start")
  BY <1>1 DEF Click, Owner, Command, ButtonShown, Waits
<1>3. \A f \in End, k \in Job : cmd'[f][k] = cmd[f][k] \/ (f = "R" /\ k = "start")
  BY <1>2, EmitCounts
<1>4. Unstarted
  BY <1>2 DEF Course, Started, Streaming, Received, GaveUp, Waits
<1>5. NobodyInterferes' /\ (NotRefused' <=> NotRefused) /\ (NoError' <=> NoError)
  BY <1>2, <1>3 DEF Course, NobodyInterferes, NotRefused, NoError
<1>6. Unstarted'
  BY <1>2, <1>4, <1>5 DEF Unstarted, Waits, ops, known, sending, receiving
<1> QED
  BY <1>2, <1>5, <1>6 DEF Course, ops, known

\* A transfer that is started once and that nobody disturbs ends at both ends, with
\* statuses that agree up to what the protocol does not tell, for any number of files
\* and any faults.  (remote.start_transfer_op, report_receive_error, stop_transfer_op;
\* server.StartTransfer, StopTransfer; transfers.FileSender.read_chunks)
THEOREM OutcomeAgrees == Spec => []AgreedOutcome
<1>1. Init => CourseInv
  BY CourseInit DEF CourseInv
<1>2. TypeOK /\ CountInv /\ WaitInv /\ CourseInv /\ [Next]_vars => CourseInv'
  <2> SUFFICES ASSUME TypeOK, CountInv, WaitInv, CourseInv, [Next]_vars,
                      Undisturbed', OneStream'
               PROVE  Course'
    BY DEF CourseInv
  <2>1. Undisturbed
    BY HistoryGrows, LossAssumption DEF Undisturbed, TypeOK, LinkType, QueueType
  <2>2. OneStream
    BY ThreadsStay DEF OneStream
  <2>3. Course
    BY <2>1, <2>2 DEF CourseInv
  <2>4. PICK s \in Stage : WaitAt(s)
    BY <2>1 DEF Undisturbed, WaitInv, Unbroken, Button
  <2>5. CASE UNCHANGED vars
    BY <2>3, <2>5, CourseAside DEF vars, link, ops, known, sending, receiving
  <2>6. CASE Network
    <3>1. ~ConnectionLost
      BY DEF Undisturbed, ConnectionLost, TypeOK, LinkType
    <3>2. ~ConnectionRestored /\ \A e \in End : ~CancelOpsIfOffline(e)
      BY <2>4 DEF ConnectionRestored, CancelOpsIfOffline, WaitAt, Steady, End
    <3>3. PICK e \in End : RemoteOnline(e)
      BY <2>6, <3>1, <3>2 DEF Network
    <3> QED
      BY <2>3, <3>3, CourseAside DEF RemoteOnline, ops, known, sending, receiving
  <2>7. CASE \E i \in Stream : CountFiles(i)
    BY <2>2, <2>3, <2>7, CourseCounted
  <2> QED
    BY <2>2, <2>3, <2>4, <2>5, <2>6, <2>7, CourseSender, CourseReceiver, CourseAnswers,
       CourseThread, CourseGenerator, CourseStart, CourseClick DEF Next, Undisturbed
<1>3. TypeOK /\ CountInv /\ WaitInv /\ CourseInv => AgreedOutcome
  <2> SUFFICES ASSUME TypeOK, AtRest, Undisturbed, Course, NEW s \in Stage, WaitAt(s)
               PROVE  AgreedOutcome
    BY DEF CourseInv, WaitInv, Unbroken, Undisturbed, Button, AgreedOutcome
  <2> USE Ends, JobNames, CallNames, FirstStream
  <2>1. /\ \A e \in End : /\ \A k \in Job : cmd[e][k] = 0
                          /\ \A m \in Call : net[e][m] = 0
        /\ thr[1] \in {"none", "done"}
        /\ gen[1] \in {"none", "eof", "cut", "failed", "closed"}
        /\ \A i \in Stream : thr[i] # "calling" /\ gen[i] # "requested"
    BY DEF AtRest
  <2>2. s = "received" /\ ~Answering
    BY <2>1 DEF WaitAt, OfferMade, OfferAt, Stage, Answering
  <2>3. CASE Unstarted
    <3>1. status["R"] = "INIT" => status["S"] \in {"FILE_NOT_FOUND", "FAILED_UNRECOVERABLE"}
      BY <2>2, <2>3 DEF WaitAt, OfferReceived, OfferOver, Unstarted
    <3>2. Waits("S") => Waits("R")
      BY <2>2 DEF WaitAt, Answered
    <3>3. status["S"] = "CANCELLED_PERMISSION_BY_RECEIVER" => status["R"] # "FAILED_UNRECOVERABLE"
      BY <2>1, <2>3 DEF Unstarted
    <3> QED
      BY <2>3, <3>1, <3>2, <3>3 DEF Unstarted, Waits, AgreedOutcome
  <2>4. CASE Received
    BY <2>1, <2>4 DEF Received, SenderShows, AgreedOutcome
  <2>5. CASE GaveUp
    BY <2>1, <2>5 DEF GaveUp, AgreedOutcome
  <2>6. ~Streaming
    BY <2>1 DEF Streaming
  <2> QED
    BY <2>3, <2>4, <2>5, <2>6 DEF Course, Started
<1> QED
  BY <1>1, <1>2, <1>3, CountAlways, WaitAlways, TypeCorrect, PTL DEF Spec
=============================================================================
