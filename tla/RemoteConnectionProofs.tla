------------------------ MODULE RemoteConnectionProofs ------------------------
(***************************************************************************)
(* Theorems about RemoteConnection, for any number of threads,             *)
(* announcements, registrations and changes of the peer.                   *)
(***************************************************************************)
EXTENDS RemoteConnection, TLAPS

LEMMA ThreadsAreNumbers ==
    /\ NoThread \notin Thread
    /\ \A i \in Thread : i \in Nat /\ i # 0
  BY BoundsAssumption DEF Thread, NoThread

\* The callers that are named are callers, and so are the channels'.
LEMMA Callers ==
    /\ Zeroconf \in Caller
    /\ Manual \in Caller
    /\ Server \in Caller
    /\ \A i \in Thread : Channel(i) \in Caller
  BY DEF Caller, Starter

-----------------------------------------------------------------------------
(***************************************************************************)
(* Type correctness.                                                       *)
(***************************************************************************)
LEMMA TypeInit == Init => TypeOK
<1> SUFFICES ASSUME Init PROVE TypeOK
  OBVIOUS
<1>1. /\ 0 \in 0 .. MaxChanges
      /\ 0 \in 0 .. MaxAnnounced
      /\ 0 \in 0 .. MaxManual
      /\ theirs \in Nat \ {0}
  BY BoundsAssumption DEF Init
<1> QED
  BY <1>1 DEF Init, TypeOK, RemoteStatus

\* What Crossed and Forgotten add to mishaps is a mishap.
LEMMA MishapTypes ==
    ASSUME NEW c
    PROVE  /\ (IF Crossed(c) THEN {"crossed"} ELSE {}) \subseteq Mishap
           /\ Forgotten(c) \subseteq Mishap
  BY DEF Mishap, Forgotten

LEMMA TypeEnvironment ==
    ASSUME TypeOK,
           \/ PeerChanges \/ AddService \/ RemoveService \/ ServiceRegistered
           \/ ManualRegistration \/ ManualRegistered \/ CloseServer
    PROVE  TypeOK'
<1>1. CASE PeerChanges
  <2>1. changes' \in 0 .. MaxChanges /\ theirs' \in Nat \ {0}
    BY <1>1, BoundsAssumption DEF PeerChanges, TypeOK
  <2>2. chan' \in [Thread -> {"none", "ready", "broken"}]
    <3> DEFINE Broken(i) == chan[i] = "ready" /\ (~up' \/ theirs' # theirs)
    <3>1. chan' = [i \in Thread |-> IF Broken(i) THEN "broken" ELSE chan[i]]
      BY <1>1 DEF PeerChanges
    <3> HIDE DEF Broken
    <3> QED
      BY <3>1 DEF TypeOK
  <2>3. up' \in BOOLEAN /\ ready' \in BOOLEAN
    BY <1>1, Zenon DEF PeerChanges, TypeOK
  <2> QED
    BY <1>1, <2>1, <2>2, <2>3
       DEF PeerChanges, TypeOK, events, known, callers, shown
<1>2. CASE AddService
  BY <1>2, Callers, BoundsAssumption
     DEF AddService, Goto, TypeOK, peer, threads, shown
<1>3. CASE ServiceRegistered
  <2>1. cert' \in Nat /\ listed' \in BOOLEAN /\ present' \in BOOLEAN
    BY <1>3 DEF ServiceRegistered, Register, RegisterV1, RegisterV2, TypeOK
  <2>2. pc' \in [Caller -> {"idle", "register", "set", "join", "clear"}]
    BY <1>3, Callers DEF ServiceRegistered, Goto, TypeOK
  <2> QED
    BY <1>3, <2>1, <2>2 DEF ServiceRegistered, TypeOK, peer, events, threads, shown
<1>4. CASE ManualRegistration
  BY <1>4, Callers, BoundsAssumption
     DEF ManualRegistration, Goto, TypeOK, peer, known, threads, shown
<1>5. CASE ManualRegistered
  <2>1. cert' \in Nat /\ listed' \in BOOLEAN
    BY <1>5 DEF ManualRegistered, Register, RegisterV1, RegisterV2, TypeOK
  <2>2. pc' \in [Caller -> {"idle", "register", "set", "join", "clear"}]
    BY <1>5, Callers DEF ManualRegistered, Goto, TypeOK
  <2> QED
    BY <1>5, <2>1, <2>2 DEF ManualRegistered, TypeOK, peer, events, threads, shown
<1>6. CASE CloseServer
  BY <1>6, Callers
     DEF CloseServer, Goto, TypeOK, peer, events, known, threads, shown
<1>7. CASE RemoveService
  BY <1>7 DEF RemoveService, TypeOK, peer, events, callers, threads, shown
<1> QED
  BY <1>1, <1>2, <1>3, <1>4, <1>5, <1>6, <1>7

LEMMA TypeRestart ==
    ASSUME TypeOK, NEW c \in Caller, Restart(c)
    PROVE  TypeOK'
<1>1. CASE Shutdown(c)
  BY <1>1, MishapTypes
     DEF Shutdown, Goto, TypeOK, peer, events, known, shown
<1>2. CASE Join(c)
  <2>1. pc' \in [Caller -> {"idle", "register", "set", "join", "clear"}]
    BY <1>2 DEF Join, Goto, TypeOK
  <2>2. mishaps' \subseteq Mishap
    BY <1>2 DEF Join, TypeOK, Mishap
  <2> QED
    BY <1>2, <2>1, <2>2 DEF Join, TypeOK, peer, events, known, threads, shown
<1>3. CASE ForgetThread(c)
  BY <1>3, MishapTypes
     DEF ForgetThread, Goto, TypeOK, peer, events, known, shown
<1>4. ASSUME NEW i \in Thread, StartRemoteThread(c, i)
      PROVE  TypeOK'
  BY <1>4, MishapTypes
     DEF StartRemoteThread, Goto, TypeOK, peer, events, known, shown
<1> QED
  BY <1>1, <1>2, <1>3, <1>4 DEF Restart

LEMMA TypeThread ==
    ASSUME TypeOK, NEW i \in Thread,
           \/ ChannelStateChanged(i) \/ RemoteThread(i) \/ InfoFinished(i)
           \/ TransferBegins(i)
    PROVE  TypeOK'
<1> USE DEF TypeOK, Step, LeaveChannel, SetRemoteStatus, RemoteStatus, peer,
            events, known, callers, threads, shown
<1>1. CASE ChannelStateChanged(i)
  <2>1. pc' \in [Caller -> {"idle", "register", "set", "join", "clear"}]
    BY <1>1, Callers DEF ChannelStateChanged, Goto
  <2>2. chan' \in [Thread -> {"none", "ready", "broken"}]
    BY <1>1 DEF ChannelStateChanged
  <2> QED
    BY <1>1, <2>1, <2>2 DEF ChannelStateChanged
<1>2. CASE Begin(i)
  <2>1. used' \in [Thread -> Nat] /\ pending' \in RemoteStatus \cup {"none"}
    BY <1>2 DEF Begin
  <2>2. UNCHANGED <<peer, events, known, callers, closing, mishaps>>
    BY <1>2 DEF Begin
  <2>3. /\ thr' \in [Thread -> {"none", "starting", "channel", "ping", "duplex",
                                "online", "backoff", "leaving", "ended"}]
        /\ keepalive' = FALSE
        /\ status' \in RemoteStatus
        /\ UNCHANGED <<chan, asked, current, op>>
    BY <1>2 DEF Begin
  <2> QED
    BY <2>1, <2>2, <2>3
<1>3. CASE ChannelReady(i)
  BY <1>3 DEF ChannelReady
<1>4. CASE ChannelTimeout(i)
  BY <1>4 DEF ChannelTimeout
<1>5. CASE DuplexAnswered(i)
  BY <1>5 DEF DuplexAnswered
<1>6. CASE DuplexFailed(i)
  BY <1>6 DEF DuplexFailed
<1>7. CASE Retry(i)
  BY <1>7 DEF Retry
<1>8. CASE EndThread(i)
  BY <1>8 DEF EndThread
<1>9. CASE TransferBegins(i)
  BY <1>9 DEF TransferBegins
<1>10. CASE InfoFinished(i)
  <2>1. mishaps' \subseteq Mishap
    <3>1. mishaps' = mishaps \/ mishaps' = mishaps \cup {"late"}
      BY <1>10 DEF InfoFinished
    <3> QED
      BY <3>1 DEF Mishap
  <2>2. asked' \subseteq Thread /\ pending' \in RemoteStatus \cup {"none"}
    BY <1>10 DEF InfoFinished
  <2> QED
    BY <1>10, <2>1, <2>2 DEF InfoFinished
<1>11. CASE Connected(i)
  BY <1>11 DEF Connected
<1>12. CASE Ping(i)
  BY <1>12 DEF Ping
<1>13. CASE NoDuplex(i)
  BY <1>13 DEF NoDuplex
<1>14. CASE RetryV1(i)
  BY <1>14 DEF RetryV1, Reconnect
<1>15. CASE PingFailed(i)
  BY <1>15 DEF PingFailed
<1>16. CASE Leave(i)
  BY <1>16 DEF Leave
<1> HIDE DEF TypeOK
<1>17. ASSUME RemoteThread(i)
       PROVE  TypeOK'
  BY <1>17, <1>2, <1>3, <1>4, <1>5, <1>6, <1>7, <1>8, <1>11, <1>12, <1>13, <1>14,
     <1>15, <1>16 DEF RemoteThread
<1> QED
  BY <1>1, <1>9, <1>10, <1>17

LEMMA TypeMainLoop ==
    ASSUME TypeOK, SetStatusCb \/ TransferEnds
    PROVE  TypeOK'
<1> USE DEF TypeOK, peer, events, known, callers, threads
<1>1. CASE SetStatusCb
  BY <1>1 DEF SetStatusCb
<1>2. CASE TransferEnds
  BY <1>2 DEF TransferEnds
<1> QED
  BY <1>1, <1>2

LEMMA TypeStep == TypeOK /\ [Next]_vars => TypeOK'
<1> SUFFICES ASSUME TypeOK, [Next]_vars PROVE TypeOK'
  OBVIOUS
<1>1. CASE UNCHANGED vars
  BY <1>1 DEF TypeOK, vars, peer, events, known, callers, threads, shown
<1>2. CASE Next
  BY <1>2, TypeEnvironment, TypeRestart, TypeThread, TypeMainLoop DEF Next
<1> QED
  BY <1>1, <1>2

\* Every reachable state is well typed: a caller is always at a step of shutdown,
\* a thread at a step of remote_thread_v1 or v2, and what waits for the main loop is a
\* status.
THEOREM TypeCorrect == Spec => []TypeOK
<1> QED
  BY TypeInit, TypeStep, PTL DEF Spec

-----------------------------------------------------------------------------
(***************************************************************************)
(* One thread at a time.  As long as there was no mishap, a thread that is *)
(* alive is remote_thread (AliveIsCurrent), and a caller that has joined   *)
(* has joined a thread that ended (JoinedEnded).  So a caller that starts  *)
(* a thread finds none alive: it would be remote_thread, which is the one  *)
(* that was joined, or there was a mishap.                                 *)
(***************************************************************************)
CurrentStarted == current # NoThread => thr[current] # "none"

TargetStarted == \A c \in Caller : target[c] # NoThread => thr[target[c]] # "none"

JoinedEnded ==
    mishaps = {} => \A c \in Caller :
        pc[c] = "clear" /\ target[c] # NoThread => thr[target[c]] = "ended"

AliveIsCurrent == mishaps = {} => \A i \in Thread : Alive(i) => current = i

ThreadInv == TypeOK /\ CurrentStarted /\ TargetStarted /\ JoinedEnded /\ AliveIsCurrent

\* What a step that leaves remote_thread, the callers' targets and mishaps alone
\* must keep: no thread is born, none comes back to life, none begins to clear.
LEMMA ThreadsGoOn ==
    ASSUME ThreadInv, TypeOK',
           current' = current, target' = target, mishaps \subseteq mishaps',
           \A i \in Thread : /\ thr[i] # "none" => thr'[i] # "none"
                             /\ thr[i] = "ended" => thr'[i] = "ended"
                             /\ thr[i] = "none" => thr'[i] = "none",
           \A c \in Caller : pc'[c] = "clear" => pc[c] = "clear"
    PROVE  ThreadInv'
<1>1. CurrentStarted'
  BY DEF ThreadInv, CurrentStarted, TypeOK
<1>2. TargetStarted'
  BY DEF ThreadInv, TargetStarted, TypeOK
<1>3. JoinedEnded'
  BY DEF ThreadInv, JoinedEnded, TypeOK
<1>4. AliveIsCurrent'
  BY DEF ThreadInv, AliveIsCurrent, Alive
<1> QED
  BY <1>1, <1>2, <1>3, <1>4 DEF ThreadInv

LEMMA ThreadInvInit == Init => ThreadInv
  BY TypeInit DEF Init, ThreadInv, CurrentStarted, TargetStarted, JoinedEnded,
                  AliveIsCurrent, Alive

LEMMA ThreadInvShutdown ==
    ASSUME ThreadInv, TypeOK', NEW c \in Caller, Shutdown(c)
    PROVE  ThreadInv'
<1>1. mishaps' = {} => mishaps = {}
  BY DEF Shutdown
<1>2. CurrentStarted'
  BY DEF ThreadInv, CurrentStarted, Shutdown
<1>3. TargetStarted'
  BY DEF ThreadInv, TargetStarted, CurrentStarted, Shutdown, TypeOK
<1>4. JoinedEnded'
  BY <1>1 DEF ThreadInv, JoinedEnded, Shutdown, Goto, TypeOK
<1>5. AliveIsCurrent'
  BY <1>1 DEF ThreadInv, AliveIsCurrent, Alive, Shutdown
<1> QED
  BY <1>2, <1>3, <1>4, <1>5 DEF ThreadInv

LEMMA ThreadInvJoin ==
    ASSUME ThreadInv, TypeOK', NEW c \in Caller, Join(c)
    PROVE  ThreadInv'
<1>1. mishaps' = {} => mishaps = {} /\ ~Alive(target[c])
  BY DEF Join
<1>2. CurrentStarted'
  BY DEF ThreadInv, CurrentStarted, Join, threads
<1>3. TargetStarted'
  BY DEF ThreadInv, TargetStarted, Join, threads
<1>4. JoinedEnded'
  BY <1>1 DEF ThreadInv, JoinedEnded, TargetStarted, Alive, Join, Goto, TypeOK, threads
<1>5. AliveIsCurrent'
  BY <1>1 DEF ThreadInv, AliveIsCurrent, Alive, Join, threads
<1> QED
  BY <1>2, <1>3, <1>4, <1>5 DEF ThreadInv

\* The caller at the end of shutdown: no thread is alive.
LEMMA NobodyAlive ==
    ASSUME ThreadInv, NEW c \in Caller, pc[c] = "clear",
           mishaps = {}, Forgotten(c) = {}, NEW i \in Thread
    PROVE  ~Alive(i)
<1>1. current \in {NoThread, target[c]}
  BY DEF Forgotten
<1>2. target[c] # NoThread => ~Alive(target[c])
  BY DEF ThreadInv, JoinedEnded, Alive
<1>3. Alive(i) => current = i
  BY DEF ThreadInv, AliveIsCurrent
<1> QED
  BY <1>1, <1>2, <1>3, ThreadsAreNumbers

LEMMA ThreadInvForget ==
    ASSUME ThreadInv, TypeOK', NEW c \in Caller, ForgetThread(c)
    PROVE  ThreadInv'
<1>1. mishaps' = {} => mishaps = {} /\ Forgotten(c) = {}
  BY DEF ForgetThread
<1>2. CurrentStarted'
  BY DEF CurrentStarted, ForgetThread
<1>3. TargetStarted'
  BY DEF ThreadInv, TargetStarted, ForgetThread, TypeOK
<1>4. JoinedEnded'
  BY <1>1 DEF ThreadInv, JoinedEnded, ForgetThread, Goto, TypeOK
<1>5. AliveIsCurrent'
  <2> SUFFICES ASSUME mishaps' = {}, NEW i \in Thread, Alive(i)' PROVE FALSE
    BY DEF AliveIsCurrent
  <2>1. Alive(i) /\ pc[c] = "clear"
    BY DEF ForgetThread, Alive
  <2> QED
    BY <2>1, <1>1, NobodyAlive
<1> QED
  BY <1>2, <1>3, <1>4, <1>5 DEF ThreadInv

LEMMA ThreadInvStart ==
    ASSUME ThreadInv, TypeOK', NEW c \in Caller, NEW i \in Thread,
           StartRemoteThread(c, i)
    PROVE  ThreadInv'
<1>1. mishaps' = {} => mishaps = {} /\ Forgotten(c) = {}
  BY DEF StartRemoteThread
<1>2. CurrentStarted'
  BY DEF CurrentStarted, StartRemoteThread, TypeOK, ThreadInv
<1>3. TargetStarted'
  BY DEF ThreadInv, TargetStarted, StartRemoteThread, TypeOK
<1>4. JoinedEnded'
  BY <1>1 DEF ThreadInv, JoinedEnded, StartRemoteThread, Goto, TypeOK
<1>5. AliveIsCurrent'
  <2> SUFFICES ASSUME mishaps' = {}, NEW j \in Thread, Alive(j)', j # i PROVE FALSE
    BY DEF AliveIsCurrent, StartRemoteThread
  <2>1. Alive(j) /\ pc[c] = "clear"
    BY DEF StartRemoteThread, Alive, ThreadInv, TypeOK
  <2> QED
    BY <2>1, <1>1, NobodyAlive
<1> QED
  BY <1>2, <1>3, <1>4, <1>5 DEF ThreadInv

\* What every step of a thread does: it takes itself further, and only itself.
LEMMA ThreadSteps ==
    ASSUME NEW i \in Thread, RemoteThread(i)
    PROVE  /\ thr[i] \notin {"none", "ended"}
           /\ \E to : to # "none" /\ thr' = [thr EXCEPT ![i] = to]
           /\ UNCHANGED <<current, pc, target, mishaps>>
<1> USE DEF Step, LeaveChannel, callers
<1>1. CASE \/ Begin(i) \/ ChannelReady(i) \/ ChannelTimeout(i)
           \/ DuplexAnswered(i) \/ DuplexFailed(i)
           \/ Retry(i) \/ EndThread(i)
  BY <1>1 DEF Begin, ChannelReady, ChannelTimeout, DuplexAnswered, DuplexFailed,
              Retry, EndThread
<1>2. CASE Connected(i) \/ Ping(i) \/ NoDuplex(i) \/ RetryV1(i)
  BY <1>2 DEF Connected, Ping, NoDuplex, RetryV1, Reconnect
<1>3. CASE PingFailed(i) \/ Leave(i)
  BY <1>3 DEF PingFailed, Leave
<1> QED
  BY <1>1, <1>2, <1>3 DEF RemoteThread

LEMMA ThreadInvThread ==
    ASSUME ThreadInv, TypeOK', NEW i \in Thread,
           \/ ChannelStateChanged(i) \/ RemoteThread(i) \/ InfoFinished(i)
           \/ TransferBegins(i)
    PROVE  ThreadInv'
<1>1. CASE ChannelStateChanged(i)
  BY <1>1, ThreadsGoOn DEF ChannelStateChanged, Goto, ThreadInv, TypeOK
<1>2. CASE RemoteThread(i)
  <2>1. /\ thr[i] \notin {"none", "ended"}
        /\ \E to : to # "none" /\ thr' = [thr EXCEPT ![i] = to]
    BY <1>2, ThreadSteps
  <2>2. current' = current /\ target' = target /\ mishaps' = mishaps /\ pc' = pc
    BY <1>2, ThreadSteps
  <2> QED
    BY <2>1, <2>2, ThreadsGoOn DEF ThreadInv, TypeOK
<1>3. CASE TransferBegins(i)
  BY <1>3, ThreadsGoOn DEF TransferBegins, callers, threads
<1>4. CASE InfoFinished(i)
  BY <1>4, ThreadsGoOn DEF InfoFinished, callers, threads
<1> QED
  BY <1>1, <1>2, <1>3, <1>4

LEMMA ThreadInvOthers ==
    ASSUME ThreadInv, TypeOK',
           \/ PeerChanges \/ AddService \/ RemoveService \/ ServiceRegistered
           \/ ManualRegistration \/ ManualRegistered \/ CloseServer
           \/ SetStatusCb \/ TransferEnds \/ UNCHANGED vars
    PROVE  ThreadInv'
<1>1. /\ current' = current /\ target' = target
      /\ mishaps' = mishaps /\ thr' = thr
  BY DEF PeerChanges, AddService, ServiceRegistered, ManualRegistration,
         ManualRegistered, CloseServer, RemoveService, SetStatusCb, TransferEnds, vars,
         callers, threads
<1>2. ASSUME NEW c \in Caller, pc'[c] = "clear"
      PROVE  pc[c] = "clear"
  BY <1>2 DEF PeerChanges, AddService, ServiceRegistered, ManualRegistration,
              ManualRegistered, CloseServer, RemoveService, SetStatusCb, TransferEnds,
              vars, callers, Goto, ThreadInv, TypeOK
<1> QED
  BY <1>1, <1>2, ThreadsGoOn

LEMMA ThreadInvStep == ThreadInv /\ [Next]_vars => ThreadInv'
<1> SUFFICES ASSUME ThreadInv, [Next]_vars PROVE ThreadInv'
  OBVIOUS
<1>1. TypeOK'
  BY TypeStep DEF ThreadInv
<1>2. ASSUME NEW c \in Caller, Restart(c)
      PROVE  ThreadInv'
  BY <1>1, <1>2, ThreadInvShutdown, ThreadInvJoin, ThreadInvForget, ThreadInvStart
     DEF Restart
<1>3. ASSUME NEW i \in Thread,
             \/ ChannelStateChanged(i) \/ RemoteThread(i) \/ InfoFinished(i)
             \/ TransferBegins(i)
      PROVE  ThreadInv'
  BY <1>1, <1>3, ThreadInvThread
<1> QED
  BY <1>1, <1>2, <1>3, ThreadInvOthers DEF Next

LEMMA ThreadInvOneThread == ThreadInv => OneThread
  BY DEF ThreadInv, AliveIsCurrent, OneThread

\* Without a mishap between the callers of shutdown a machine has one thread at
\* most: whoever starts one has joined the one before.
THEOREM NeverTwoThreads == Spec => []OneThread
<1> QED
  BY ThreadInvInit, ThreadInvStep, ThreadInvOneThread, PTL DEF Spec

-----------------------------------------------------------------------------
(***************************************************************************)
(* The status that is shown.  The thread that is alive is alone, and with  *)
(* every step at which StatusIsTrue says something new it sets the status. *)
(***************************************************************************)
LEMMA StatusInit == Init => StatusIsTrue
  BY DEF Init, StatusIsTrue

\* Steps that neither set a status nor take a thread further.
LEMMA StatusKept ==
    ASSUME StatusIsTrue, Shown' = Shown, version' = version, mishaps \subseteq mishaps',
           \A i \in Thread :
               thr'[i] = thr[i] \/ (thr[i] = "none" /\ thr'[i] = "starting")
    PROVE  StatusIsTrue'
  BY DEF StatusIsTrue

LEMMA StatusSet ==
    ASSUME ThreadInv, NEW i \in Thread, RemoteThread(i), StatusIsTrue
    PROVE  StatusIsTrue'
<1> SUFFICES ASSUME mishaps' = {} PROVE StatusIsTrue'
  BY DEF StatusIsTrue
<1>1. mishaps = {} /\ Alive(i)
  BY ThreadSteps DEF Alive
<1>2. \A j \in Thread \ {i} : thr[j] \in {"none", "ended"} /\ thr'[j] = thr[j]
  <2>1. \A j \in Thread \ {i} : thr'[j] = thr[j]
    BY ThreadSteps DEF ThreadInv, TypeOK
  <2>2. \A j \in Thread \ {i} : ~Alive(j)
    BY <1>1 DEF ThreadInv, AliveIsCurrent
  <2> QED
    BY <2>1, <2>2 DEF Alive
<1>3. \/ thr'[i] \in {"channel", "ping"}
      \/ thr'[i] = "duplex" /\ Shown' = "AWAITING_DUPLEX"
      \/ thr'[i] \in {"backoff", "leaving"} /\ Shown' = "UNREACHABLE"
      \/ thr'[i] = "online" /\ Shown' = "ONLINE"
      \/ thr'[i] = "ended" /\ Shown' = "OFFLINE"
      \/ /\ thr'[i] = "backoff"
         /\ version' = 1
         /\ Shown' = "AWAITING_DUPLEX"
  <2> USE DEF Step, LeaveChannel, SetRemoteStatus, Shown, ThreadInv, TypeOK
  <2>1. CASE \/ Begin(i) \/ ChannelReady(i) \/ ChannelTimeout(i)
             \/ DuplexAnswered(i) \/ DuplexFailed(i)
             \/ Retry(i) \/ EndThread(i)
    BY <2>1 DEF Begin, ChannelReady, ChannelTimeout, DuplexAnswered, DuplexFailed,
                Retry, EndThread
  <2>2. CASE Connected(i) \/ Ping(i) \/ RetryV1(i)
    BY <2>2 DEF Connected, Ping, RetryV1, Reconnect
  <2>3. CASE NoDuplex(i)
    <3>1. thr[i] = "duplex" => Shown = "AWAITING_DUPLEX"
      BY <1>1 DEF StatusIsTrue
    <3> QED
      BY <3>1, <2>3 DEF NoDuplex, peer
  <2>4. CASE PingFailed(i) \/ Leave(i)
    BY <2>4 DEF PingFailed, Leave
  <2> QED
    BY <2>1, <2>2, <2>3, <2>4 DEF RemoteThread
<1> QED
  BY <1>2, <1>3 DEF StatusIsTrue

LEMMA StatusStep == ThreadInv /\ StatusIsTrue /\ [Next]_vars => StatusIsTrue'
<1> SUFFICES ASSUME ThreadInv, StatusIsTrue, [Next]_vars PROVE StatusIsTrue'
  OBVIOUS
<1>1. CASE \/ PeerChanges \/ AddService \/ RemoveService \/ ServiceRegistered
           \/ ManualRegistration \/ ManualRegistered \/ CloseServer
           \/ TransferEnds \/ UNCHANGED vars
  <2>1. Shown' = Shown /\ mishaps' = mishaps /\ thr' = thr /\ version' = version
    BY <1>1 DEF PeerChanges, AddService, ServiceRegistered, ManualRegistration,
                ManualRegistered, CloseServer, RemoveService, TransferEnds, vars, shown,
                threads, peer, Shown
  <2> QED
    BY <2>1, StatusKept
<1>2. ASSUME NEW c \in Caller, Restart(c)
      PROVE  StatusIsTrue'
  <2>1. Shown' = Shown /\ mishaps \subseteq mishaps' /\ version' = version
    BY <1>2 DEF Restart, Shutdown, Join, ForgetThread, StartRemoteThread, shown, Shown,
                peer
  <2>2. \A i \in Thread :
            thr'[i] = thr[i] \/ (thr[i] = "none" /\ thr'[i] = "starting")
    BY <1>2 DEF Restart, Shutdown, Join, ForgetThread, StartRemoteThread, threads,
                ThreadInv, TypeOK
  <2> QED
    BY <2>1, <2>2, StatusKept
<1>3. ASSUME NEW i \in Thread, ChannelStateChanged(i) \/ TransferBegins(i)
      PROVE  StatusIsTrue'
  <2>1. Shown' = Shown /\ mishaps' = mishaps /\ thr' = thr /\ version' = version
    BY <1>3 DEF ChannelStateChanged, TransferBegins, shown, threads, peer, Shown
  <2> QED
    BY <2>1, StatusKept
<1>4. ASSUME NEW i \in Thread, RemoteThread(i)
      PROVE  StatusIsTrue'
  BY <1>4, StatusSet
<1>5. CASE SetStatusCb
  <2>1. Shown' = Shown /\ mishaps' = mishaps /\ thr' = thr /\ version' = version
    BY <1>5 DEF SetStatusCb, Shown, threads, peer
  <2> QED
    BY <2>1, StatusKept
<1>6. ASSUME NEW i \in Thread, InfoFinished(i)
      PROVE  StatusIsTrue'
  <2> SUFFICES ASSUME mishaps' = {} PROVE StatusIsTrue'
    BY DEF StatusIsTrue
  <2>1. thr' = thr /\ mishaps = {} /\ version' = version
    BY <1>6 DEF InfoFinished, threads, peer
  <2>2. CASE Shown' = Shown
    BY <2>1, <2>2, StatusKept
  <2>3. CASE Shown' # Shown
    <3>1. thr[i] = "online" /\ Shown' = "ONLINE"
      BY <1>6, <2>3 DEF InfoFinished, SetRemoteStatus, Shown
    <3>2. \A j \in Thread \ {i} : thr[j] \in {"none", "ended"}
      BY <2>1, <3>1 DEF ThreadInv, AliveIsCurrent, Alive
    <3> QED
      BY <2>1, <3>1, <3>2 DEF StatusIsTrue
  <2> QED
    BY <2>2, <2>3
<1> QED
  BY <1>1, <1>2, <1>3, <1>4, <1>5, <1>6 DEF Next

\* Without a mishap the status the main loop shows, or will show when its callback
\* has run, is the one of the thread: those that were replaced are not missed.
THEOREM StatusStaysTrue == Spec => []StatusIsTrue
<1> QED
  BY ThreadInvInit, ThreadInvStep, StatusInit, StatusStep, PTL DEF Spec
=============================================================================
