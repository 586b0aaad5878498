------------------------ MODULE ServerLifecycleProofs ------------------------
(***************************************************************************)
(* One server at a time, with its own pool, for any number of requests and *)
(* whatever fails.                                                         *)
(***************************************************************************)
EXTENDS ServerLifecycle, TLAPS

\* The program's server is the only one that can be up, and the only one whose
\* signals can be queued.
OnlyCurrent ==
    \A i \in Server : (Up(i) \/ started[i] = "queued" \/ complete[i] = "queued")
                        => i = current

\* While the next server is being waited for, none is up and no signal is queued.
Replacing ==
    (timer \/ cont > 0) =>
        /\ starting
        /\ \A i \in Server : /\ ~Up(i)
                             /\ started[i] # "queued"
                             /\ complete[i] # "queued"

OneWait == ~(timer /\ cont > 0)

\* A server that has not been seen to start is not asked to stop.
NotHookedYet ==
    \A i \in Server : (phase[i] \in {"starting", "advertising"} \/ started[i] = "queued")
                        => starting /\ i \notin hooked

\* One that was asked to stop will be replaced.
HookedIsReplaced ==
    \A i \in hooked : i = current /\ complete[i] # "handled" => starting

Signals ==
    /\ \A i \in Server : started[i] = "queued"
            => phase[i] \notin {"none", "starting", "advertising"}
    /\ \A i \in Server : complete[i] # "none"
            => phase[i] \in {"closed", "joining", "ended"}
    /\ \A i \in hooked : phase[i] # "none"
    /\ current # NoServer => phase[current] # "none"

\* A server that has made its pool keeps it until it shuts it down.
OwnPool ==
    /\ \A i \in Server : phase[i] \in {"advertising", "running", "stopping", "closed"}
            => pool = i
    /\ \A i \in shut : phase[i] \in {"joining", "ended"}
    /\ (cont > 0 \/ \E i \in Server : Up(i)) => Prompt

Inv == /\ TypeOK /\ OnlyCurrent /\ Replacing /\ OneWait /\ NotHookedYet
       /\ HookedIsReplaced /\ Signals /\ OwnPool

-----------------------------------------------------------------------------
LEMMA NoServerOutside == NoServer \notin Server
BY ChangesAssumption, LowAssumption DEF Server, NoServer

LEMMA InitInv == Init => Inv
<1> SUFFICES ASSUME Init PROVE Inv
    OBVIOUS
<1>1. TypeOK
    <2>1. want \in 1 .. 1 + MaxChanges /\ lows \in 0 .. MaxLow
        BY ChangesAssumption, LowAssumption DEF Init
    <2>2. made \in [Server -> 0 .. 1 + MaxChanges]
        <3>1. 0 \in 0 .. 1 + MaxChanges
            BY ChangesAssumption
        <3> QED
            BY <3>1 DEF Init
    <2> QED
        BY <2>1, <2>2 DEF Init, TypeOK, Phase
<1>2. OnlyCurrent /\ Replacing /\ OneWait /\ NotHookedYet /\ HookedIsReplaced
    BY DEF Init, OnlyCurrent, Replacing, OneWait, NotHookedYet, HookedIsReplaced, Up
<1>3. Signals /\ OwnPool
    BY DEF Init, Signals, OwnPool, Up
<1> QED
    BY <1>1, <1>2, <1>3 DEF Inv

\* new_server either leaves the servers and the wait for one alone, or asks the
\* program's server to stop, or begins to wait.
LEMMA NewServerInv ==
    ASSUME Inv, NewServer,
           UNCHANGED <<restarting, current, cont, quit, phase, made, signals, pools>>,
           want' \in 1 .. 1 + MaxChanges, lows' \in 0 .. MaxLow, online' \in BOOLEAN,
           settled' \in BOOLEAN
    PROVE  Inv'
<1> USE NoServerOutside DEF Inv
<1>1. CASE UNCHANGED <<starting, timer, hooked, keepalive>> /\ dirty' \in BOOLEAN
    <2>1. TypeOK'
        BY <1>1 DEF TypeOK, signals, pools
    <2>2. (OnlyCurrent /\ Replacing /\ OneWait /\ NotHookedYet /\ HookedIsReplaced)'
        BY <1>1 DEF OnlyCurrent, Replacing, OneWait, NotHookedYet, HookedIsReplaced,
                    Up, signals
    <2>3. (Signals /\ OwnPool)'
        BY <1>1 DEF Signals, OwnPool, Up, Prompt, signals, pools
    <2> QED
        BY <2>1, <2>2, <2>3
<1>2. CASE ~starting /\ StopAndStart /\ UNCHANGED dirty
    <2>1. TypeOK'
        BY <1>2 DEF StopAndStart, TypeOK, signals, pools
    <2>2. OnlyCurrent'
        BY <1>2 DEF OnlyCurrent, Up, signals
    <2>3. Replacing' /\ OneWait'
        BY <1>2 DEF StopAndStart, OnlyCurrent, Replacing, OneWait, Up, signals, TypeOK
    <2>4. NotHookedYet' /\ HookedIsReplaced'
        BY <1>2 DEF StopAndStart, NotHookedYet, HookedIsReplaced, signals
    <2>5. (Signals /\ OwnPool)'
        BY <1>2 DEF StopAndStart, Signals, OwnPool, Up, Prompt, signals, pools, TypeOK
    <2> QED
        BY <2>1, <2>2, <2>3, <2>4, <2>5
<1> QED
    BY <1>1, <1>2 DEF NewServer, TypeOK

\* The requests.
LEMMA RequestInv ==
    ASSUME Inv, SettingsChanged \/ LowDiskSpace \/ ReceivingFolderChanged
    PROVE  Inv'
<1>1. CASE SettingsChanged
    <2>1. /\ want' \in 1 .. 1 + MaxChanges /\ lows' \in 0 .. MaxLow /\ online' \in BOOLEAN
          /\ settled' \in BOOLEAN
        BY <1>1, ChangesAssumption DEF SettingsChanged, Inv, TypeOK
    <2> QED
        BY <1>1, <2>1, NewServerInv DEF SettingsChanged
<1>2. CASE LowDiskSpace
    <2>1. want' \in 1 .. 1 + MaxChanges /\ lows' \in 0 .. MaxLow /\ online' \in BOOLEAN
        BY <1>2, LowAssumption DEF LowDiskSpace, Inv, TypeOK
    <2>2. settled' \in BOOLEAN
        BY <1>2, Zenon DEF LowDiskSpace
    <2> QED
        BY <1>2, <2>1, <2>2, NewServerInv DEF LowDiskSpace
<1>3. CASE ReceivingFolderChanged
    BY <1>3 DEF ReceivingFolderChanged, wishes, signals, pools, Inv, TypeOK,
        OnlyCurrent, Replacing, OneWait, NotHookedYet, HookedIsReplaced, Signals,
        OwnPool, Up, Prompt
<1> QED
    BY <1>1, <1>2, <1>3

LEMMA CheckSaveFolderInv == ASSUME Inv, CheckSaveFolder PROVE Inv'
<1> USE DEF Inv, CheckSaveFolder
<1>0. cont = 0 /\ cont' = 1
    BY DEF TypeOK, OneWait
<1>1. TypeOK'
    <2>1. UNCHANGED <<online, want, lows, starting, dirty, restarting, current, hooked, quit,
                      settled, phase, made, keepalive, started, complete, failed, pool, shut>>
        BY DEF wishes, signals, pools
    <2>2. timer' = FALSE
        OBVIOUS
    <2> QED
        BY <1>0, <2>1, <2>2 DEF TypeOK
<1>2. (OnlyCurrent /\ Replacing /\ OneWait /\ NotHookedYet /\ HookedIsReplaced)'
    BY DEF OnlyCurrent, Replacing, OneWait, NotHookedYet, HookedIsReplaced, Up,
           signals, TypeOK
<1>3. (Signals /\ OwnPool)'
    BY DEF Signals, OwnPool, Up, Prompt, signals, pools
<1> QED
    BY <1>1, <1>2, <1>3

LEMMA NewServerContinueInv == ASSUME Inv, NewServerContinue PROVE Inv'
<1> USE NoServerOutside DEF Inv
<1>0. /\ cont = 1 /\ cont' = 0 /\ ~timer /\ ~timer' /\ starting
      /\ \A i \in Server : ~Up(i) /\ started[i] # "queued" /\ complete[i] # "queued"
      /\ Prompt
      /\ UNCHANGED <<wishes, restarting, timer, hooked, quit, settled, keepalive,
                     signals, pools>>
    BY DEF NewServerContinue, TypeOK, OneWait, Replacing, OwnPool
<1>1. CASE current' = NoServer /\ starting' = FALSE /\ UNCHANGED <<phase, made>>
    <2>1. TypeOK'
        BY <1>0, <1>1 DEF NewServerContinue, TypeOK, wishes, signals, pools
    <2>2. OnlyCurrent' /\ Replacing' /\ OneWait' /\ NotHookedYet'
        BY <1>0, <1>1 DEF OnlyCurrent, Replacing, OneWait, NotHookedYet, Up, signals
    <2>3. HookedIsReplaced'
        BY <1>0, <1>1 DEF HookedIsReplaced, TypeOK
    <2>4. (Signals /\ OwnPool)'
        BY <1>0, <1>1 DEF Signals, OwnPool, Up, Prompt, signals, pools
    <2> QED
        BY <2>1, <2>2, <2>3, <2>4
<1>2. ASSUME NEW i \in Server, MakeServer(i), UNCHANGED starting
      PROVE  Inv'
    <2>1. /\ phase[i] = "none" /\ current' = i
          /\ phase' = [phase EXCEPT ![i] = "starting"]
          /\ made' = [made EXCEPT ![i] = want]
        BY <1>2 DEF MakeServer
    <2>2. TypeOK'
        <3>1. want \in 0 .. 1 + MaxChanges
            BY ChangesAssumption DEF TypeOK
        <3>2. phase' \in [Server -> Phase] /\ made' \in [Server -> 0 .. 1 + MaxChanges]
            BY <2>1, <3>1 DEF TypeOK, Phase
        <3>3. cont' \in {0, 1} /\ dirty' \in BOOLEAN /\ current' \in Server
            BY <1>0, <2>1 DEF NewServerContinue
        <3> QED
            BY <1>0, <1>2, <3>2, <3>3 DEF TypeOK, wishes, signals, pools
    <2>3. OnlyCurrent'
        BY <1>0, <2>1 DEF OnlyCurrent, Up, signals, TypeOK
    <2>4. Replacing' /\ OneWait'
        BY <1>0 DEF Replacing, OneWait
    <2>5. i \notin hooked
        BY <2>1 DEF Signals
    <2>6. NotHookedYet'
        BY <1>0, <1>2, <2>1, <2>5 DEF NotHookedYet, Up, signals, TypeOK
    <2>7. HookedIsReplaced'
        BY <1>0, <1>2 DEF HookedIsReplaced
    <2>8. Signals'
        BY <1>0, <2>1 DEF Signals, signals, TypeOK
    <2>9. OwnPool'
        BY <1>0, <2>1 DEF OwnPool, Prompt, Up, pools, TypeOK
    <2> QED
        BY <2>2, <2>3, <2>4, <2>6, <2>7, <2>8, <2>9
<1> QED
    BY <1>1, <1>2 DEF NewServerContinue

LEMMA ServerStartedInv == ASSUME Inv, NEW i \in Server, ServerStarted(i) PROVE Inv'
<1> USE NoServerOutside DEF Inv
<1>1. /\ i = current /\ starting /\ i \notin hooked /\ ~timer /\ ~(cont > 0)
      /\ phase[i] \notin {"none", "starting", "advertising"}
    BY DEF ServerStarted, OnlyCurrent, NotHookedYet, Replacing, Signals
<1>2. /\ UNCHANGED <<wishes, dirty, restarting, current, timer, cont, quit, settled,
                     phase, made, complete, failed, pools>>
      /\ started' = [started EXCEPT ![i] = "handled"]
      /\ \/ starting' = FALSE /\ UNCHANGED <<hooked, keepalive>>
         \/ /\ starting' = TRUE
            /\ hooked' = hooked \cup {i} /\ keepalive' = keepalive \cup {i}
    BY <1>1 DEF ServerStarted, StopAndStart
<1>3. TypeOK'
    <2>1. UNCHANGED <<online, want, lows, dirty, restarting, current, timer, cont, quit,
                      settled, phase, made, complete, failed, pool, shut>>
        BY <1>2 DEF wishes, pools
    <2>2. started' \in [Server -> {"none", "queued", "handled"}]
        BY <1>2 DEF TypeOK
    <2>3. starting' \in BOOLEAN /\ hooked' \subseteq Server /\ keepalive' \subseteq Server
        BY <1>2 DEF TypeOK
    <2> QED
        BY <2>1, <2>2, <2>3 DEF TypeOK
<1>4. OnlyCurrent' /\ Replacing' /\ OneWait'
    BY <1>1, <1>2 DEF OnlyCurrent, Replacing, OneWait, Up, TypeOK
<1>5. NotHookedYet'
    BY <1>1, <1>2 DEF OnlyCurrent, NotHookedYet, Up, TypeOK
<1>6. HookedIsReplaced'
    BY <1>1, <1>2 DEF HookedIsReplaced
<1>7. (Signals /\ OwnPool)'
    BY <1>1, <1>2 DEF Signals, OwnPool, Up, Prompt, pools, TypeOK
<1> QED
    BY <1>3, <1>4, <1>5, <1>6, <1>7

LEMMA ShutdownCompleteInv == ASSUME Inv, NEW i \in Server, ShutdownComplete(i) PROVE Inv'
<1> USE NoServerOutside DEF Inv, ShutdownComplete
<1>1. /\ i = current /\ ~Up(i) /\ ~timer /\ ~(cont > 0)
      /\ i \in hooked => starting
    BY DEF OnlyCurrent, Replacing, Signals, HookedIsReplaced, Up
<1>2. \A j \in Server : ~Up(j) /\ started[j] # "queued" /\ (complete[j] = "queued" => j = i)
    BY <1>1 DEF OnlyCurrent
<1>3. TypeOK'
    BY DEF TypeOK, wishes, pools
<1>4. OnlyCurrent' /\ Replacing' /\ OneWait'
    BY <1>1, <1>2 DEF OnlyCurrent, Replacing, OneWait, Up, TypeOK
<1>5. NotHookedYet' /\ HookedIsReplaced'
    BY <1>1 DEF NotHookedYet, HookedIsReplaced, TypeOK
<1>6. (Signals /\ OwnPool)'
    BY DEF Signals, OwnPool, Up, Prompt, pools, TypeOK
<1> QED
    BY <1>3, <1>4, <1>5, <1>6

LEMMA QuitInv == ASSUME Inv, Quit \/ QuitLoopEnds PROVE Inv'
<1> USE DEF Inv
<1>1. /\ UNCHANGED <<wishes, starting, dirty, restarting, current, cont, hooked,
                     phase, made, signals, pools>>
      /\ timer' => timer
    BY DEF Quit, QuitLoopEnds
<1>2. TypeOK'
    <2>1. UNCHANGED <<online, want, lows, starting, dirty, restarting, current, cont, hooked,
                      phase, made, started, complete, failed, pool, shut>>
        BY <1>1 DEF Quit, QuitLoopEnds, wishes, signals, pools
    <2>2. timer' \in BOOLEAN /\ quit' \in {"no", "waiting", "gone", "failed"}
          /\ settled' \in BOOLEAN /\ keepalive' \subseteq Server
        BY DEF Quit, QuitLoopEnds, TypeOK
    <2> QED
        BY <2>1, <2>2 DEF TypeOK
<1>3. (OnlyCurrent /\ Replacing /\ OneWait /\ NotHookedYet /\ HookedIsReplaced)'
    BY <1>1 DEF OnlyCurrent, Replacing, OneWait, NotHookedYet, HookedIsReplaced, Up, signals
<1>4. (Signals /\ OwnPool)'
    BY <1>1 DEF Signals, OwnPool, Up, Prompt, signals, pools
<1> QED
    BY <1>2, <1>3, <1>4

\* What the steps of a server's thread have in common: the phase of i moves.
LEMMA ThreadMoves ==
    ASSUME Inv, NEW i \in Server, NEW p \in Phase, NEW q \in Phase, Thread(i, p, q)
    PROVE  /\ phase[i] = p /\ phase'[i] = q
           /\ \A j \in Server : j # i => phase'[j] = phase[j]
           /\ phase' \in [Server -> Phase]
           /\ UNCHANGED <<wishes, app, made>>
BY DEF Thread, Inv, TypeOK

LEMMA BindInv == ASSUME Inv, NEW i \in Server, Bind(i) \/ BindFails(i) PROVE Inv'
<1> USE DEF Inv
<1>1. /\ phase[i] = "starting" /\ phase'[i] \in {"advertising", "dead"}
      /\ \A j \in Server : j # i => phase'[j] = phase[j]
      /\ phase' \in [Server -> Phase]
      /\ UNCHANGED <<wishes, app, made>>
    BY ThreadMoves DEF Bind, BindFails, Phase
<1>2. /\ pool' = i /\ UNCHANGED <<started, complete, shut>>
      /\ keepalive' \subseteq keepalive /\ failed' \in BOOLEAN
    BY DEF Bind, BindFails, signals, TypeOK
<1>3. TypeOK'
    BY <1>1, <1>2 DEF TypeOK, wishes, app
<1>4. Up(i) /\ i = current /\ \A j \in Server : j # i => ~Up(j)
    BY <1>1 DEF Up, OnlyCurrent
<1>5. OnlyCurrent' /\ Replacing' /\ OneWait'
    BY <1>1, <1>2, <1>4 DEF OnlyCurrent, Replacing, OneWait, Up, app, signals
<1>6. NotHookedYet' /\ HookedIsReplaced'
    BY <1>1, <1>2 DEF NotHookedYet, HookedIsReplaced, app, signals
<1>7. Signals'
    BY <1>1, <1>2, <1>4 DEF Signals, app, signals, TypeOK
<1>8. OwnPool'
    BY <1>1, <1>2, <1>4 DEF OwnPool, Prompt, Up, app, TypeOK
<1> QED
    BY <1>3, <1>5, <1>6, <1>7, <1>8

LEMMA AdvertiseInv == ASSUME Inv, NEW i \in Server, Advertise(i) PROVE Inv'
<1> USE DEF Inv
<1>1. /\ phase[i] = "advertising" /\ phase'[i] = "running"
      /\ \A j \in Server : j # i => phase'[j] = phase[j]
      /\ phase' \in [Server -> Phase]
      /\ UNCHANGED <<wishes, app, made>>
    BY ThreadMoves DEF Advertise, Phase
<1>2. /\ started' = [started EXCEPT ![i] = "queued"]
      /\ UNCHANGED <<complete, pools>> /\ keepalive' \subseteq Server
      /\ failed' \in BOOLEAN
    BY DEF Advertise, TypeOK
<1>3. TypeOK'
    BY <1>1, <1>2 DEF TypeOK, wishes, app, pools
<1>4. Up(i) /\ i = current /\ starting /\ i \notin hooked
    BY <1>1 DEF Up, OnlyCurrent, NotHookedYet
<1>5. OnlyCurrent' /\ Replacing' /\ OneWait'
    BY <1>1, <1>2, <1>4 DEF OnlyCurrent, Replacing, OneWait, Up, app, TypeOK
<1>6. NotHookedYet' /\ HookedIsReplaced'
    BY <1>1, <1>2, <1>4 DEF NotHookedYet, HookedIsReplaced, app, TypeOK
<1>7. Signals'
    BY <1>1, <1>2, <1>4 DEF Signals, app, TypeOK
<1>8. OwnPool'
    BY <1>1, <1>2 DEF OwnPool, Prompt, Up, app, pools, TypeOK
<1> QED
    BY <1>3, <1>5, <1>6, <1>7, <1>8

LEMMA LeaveLoopInv == ASSUME Inv, NEW i \in Server, LeaveLoop(i) PROVE Inv'
<1> USE DEF Inv
<1>1. /\ phase[i] = "running" /\ phase'[i] = "stopping"
      /\ \A j \in Server : j # i => phase'[j] = phase[j]
      /\ phase' \in [Server -> Phase]
      /\ UNCHANGED <<wishes, app, made>>
    BY ThreadMoves DEF LeaveLoop, Phase
<1>2. UNCHANGED <<keepalive, signals, pools>>
    BY DEF LeaveLoop
<1>3. TypeOK'
    BY <1>1, <1>2 DEF TypeOK, wishes, app, signals, pools
<1>4. OnlyCurrent' /\ Replacing' /\ OneWait' /\ NotHookedYet' /\ HookedIsReplaced'
    BY <1>1, <1>2 DEF OnlyCurrent, Replacing, OneWait, NotHookedYet,
                      HookedIsReplaced, Up, app, signals
<1>5. Signals'
    BY <1>1, <1>2 DEF Signals, app, signals, TypeOK
<1>6. OwnPool'
    BY <1>1, <1>2 DEF OwnPool, Prompt, Up, app, pools, TypeOK
<1> QED
    BY <1>3, <1>4, <1>5, <1>6

LEMMA ServerStoppedInv == ASSUME Inv, NEW i \in Server, ServerStopped(i) PROVE Inv'
<1> USE DEF Inv
<1>1. /\ phase[i] = "stopping" /\ phase'[i] = "closed"
      /\ \A j \in Server : j # i => phase'[j] = phase[j]
      /\ phase' \in [Server -> Phase]
      /\ UNCHANGED <<wishes, app, made>>
    BY ThreadMoves DEF ServerStopped, Phase
<1>2. /\ complete' = [complete EXCEPT ![i] = "queued"]
      /\ UNCHANGED <<keepalive, started, failed, pools>>
    BY DEF ServerStopped
<1>3. TypeOK'
    BY <1>1, <1>2 DEF TypeOK, wishes, app, pools
<1>4. /\ Up(i) /\ i = current /\ \A j \in Server : j # i => ~Up(j)
      /\ complete[i] = "none" /\ ~timer /\ ~(cont > 0)
    BY <1>1 DEF Up, OnlyCurrent, Signals, Replacing
<1>5. OnlyCurrent' /\ Replacing' /\ OneWait'
    BY <1>1, <1>2, <1>4 DEF OnlyCurrent, Replacing, OneWait, Up, app, TypeOK
<1>6. NotHookedYet' /\ HookedIsReplaced'
    BY <1>1, <1>2, <1>4 DEF NotHookedYet, HookedIsReplaced, app, TypeOK
<1>7. Signals'
    BY <1>1, <1>2 DEF Signals, app, TypeOK
<1>8. OwnPool'
    BY <1>1, <1>2, <1>4 DEF OwnPool, Prompt, Up, app, pools, TypeOK
<1> QED
    BY <1>3, <1>5, <1>6, <1>7, <1>8

LEMMA PoolInv == ASSUME Inv, NEW i \in Server, ShutDownPool(i) \/ PoolJoined(i) PROVE Inv'
<1> USE DEF Inv
<1>1. /\ \/ phase[i] = "closed" /\ phase'[i] = "joining" /\ shut' = shut \cup {pool}
         \/ phase[i] = "joining" /\ phase'[i] = "ended" /\ shut' = shut
      /\ \A j \in Server : j # i => phase'[j] = phase[j]
      /\ phase' \in [Server -> Phase]
      /\ UNCHANGED <<wishes, app, made>>
    BY ThreadMoves DEF ShutDownPool, PoolJoined, Phase, pools
<1>2. UNCHANGED <<keepalive, signals, pool>>
    BY DEF ShutDownPool, PoolJoined, pools
<1>3. phase[i] = "closed" => pool = i
    BY DEF OwnPool
<1>4. TypeOK'
    BY <1>1, <1>2, <1>3 DEF TypeOK, wishes, app, signals
<1>5. OnlyCurrent' /\ Replacing' /\ OneWait' /\ NotHookedYet' /\ HookedIsReplaced'
    BY <1>1, <1>2 DEF OnlyCurrent, Replacing, OneWait, NotHookedYet,
                      HookedIsReplaced, Up, app, signals
<1>6. Signals'
    BY <1>1, <1>2 DEF Signals, app, signals, TypeOK
<1>7. OwnPool'
    BY <1>1, <1>2, <1>3 DEF OwnPool, Prompt, Up, app, TypeOK
<1> QED
    BY <1>4, <1>5, <1>6, <1>7

LEMMA StepInv == Inv /\ [Next]_vars => Inv'
<1> SUFFICES ASSUME Inv, [Next]_vars PROVE Inv'
    OBVIOUS
<1>1. CASE UNCHANGED vars
    BY <1>1 DEF vars, wishes, app, signals, pools, Inv, TypeOK, OnlyCurrent,
        Replacing, OneWait, NotHookedYet, HookedIsReplaced, Signals, OwnPool, Up, Prompt
<1>2. CASE Next
    BY <1>2, RequestInv, CheckSaveFolderInv, NewServerContinueInv, QuitInv,
       ServerStartedInv, ShutdownCompleteInv, BindInv, AdvertiseInv, LeaveLoopInv,
       ServerStoppedInv, PoolInv
    DEF Next, Run
<1> QED
    BY <1>1, <1>2

LEMMA SpecInv == Spec => []Inv
BY InitInv, StepInv, PTL DEF Spec

\* The state stays in its types; new_server_continue is never queued twice.
THEOREM TypeCorrect == Spec => []TypeOK
BY SpecInv, PTL DEF Inv

\* Two servers are never up at once, however requests, failures and quitting fall.
\* (WarpApplication.new_server, new_server_continue; Server.run)
THEOREM NeverTwoServers == Spec => []OneServer
<1>1. Inv => OneServer
    BY DEF Inv, OnlyCurrent, OneServer
<1> QED
    BY <1>1, SpecInv, PTL

\* A server that answers has the pool it made, open.
\* (Server.run, util.initialize_rpc_threadpool)
THEOREM PoolStaysOpen == Spec => []ServerHasPool
<1>1. Inv => ServerHasPool
    BY DEF Inv, OwnPool, ServerHasPool
<1> QED
    BY <1>1, SpecInv, PTL
=============================================================================
