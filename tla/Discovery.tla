------------------------------- MODULE Discovery -------------------------------
(***************************************************************************)
(* How Server comes to know other machines.  remote_machines maps the      *)
(* ident of a service to its RemoteMachine, and is filled by               *)
(*   - add_service, in the threads of the zeroconf browsers (one for IPv4, *)
(*     one for IPv6), which hold browser_mutex;                            *)
(*   - handle_manual_service_registration, in the thread of                *)
(*     register_with_host or in a worker of the registration server, which *)
(*     hold nothing.                                                       *)
(* Both look the ident up, search a display name that no other machine     *)
(* has, register (which waits for the peer), and only then list what they  *)
(* made.  Server.run cancels the registrations when it stops, and then     *)
(* shuts down the machines it finds in remote_machines.                    *)
(*                                                                         *)
(* An object is a RemoteMachine, numbered in the order of making; pairs    *)
(* that are made at the same time are recorded in beside.  A connection    *)
(* thread is only seen to be started (RemoteConnection has its life), and  *)
(* a registration is that of version 2.                                    *)
(*                                                                         *)
(* A definition whose comment begins with (slip) is a plausible mistake in *)
(* the definition that follows it; no action uses it.                      *)
(***************************************************************************)
EXTENDS Integers, Sequences, FiniteSets

CONSTANTS
    Ident,      \* idents of services
    Hostname,   \* Hostname[p]: the host name that p announces, a sequence
    Browser,    \* zeroconf's threads
    Manual,     \* threads with a manual registration
    MaxCalls    \* bound: how many calls make or renew a machine

Caller == Browser \cup Manual

ASSUME HostnameAssumption == Hostname \in [Ident -> Seq(Nat)]
ASSUME CallersAssumption == Browser \cap Manual = {}
ASSUME CallsAssumption == MaxCalls \in Nat

Object == 1 .. MaxCalls

NoObject == 0
NoName == <<>>

VARIABLES
    machines,   \* remote_machines: the object of an ident, or NoObject
    entered,    \* objects that were ever put into it
    ident,      \* ident[k]: the ident of object k, a sequence
    maker,      \* history: who made object k, a sequence
    name,       \* name[k]: display_hostname of object k, a sequence
    beside,     \* history: pairs of objects that were made at the same time
    started,    \* objects whose thread was started
    stopped,    \* objects that the end of the server shut down
    pc,         \* where a caller is
    renewed,    \* how often a known machine was registered anew
    machine,    \* machine[c]: the object that c makes or knows, or NoObject
    tries,      \* tries[c]: how many names ensure_unique_hostname found taken
    seen,       \* seen[c]: the keys of remote_machines when its scan began
    active,     \* callers whose request is in active_registrations
    cancelled,  \* callers whose request is cancelled
    got,        \* callers whose certificate is stored
    run,        \* Server.run: "on", "closing", "cancelled", "deaf" or "over"
    doubled,    \* history: callers whose request was beside one for its ident
    doomed,     \* history: callers whose peer was asked when all were cancelled
    overtaken   \* history: objects about to be listed when the server closed

objects == <<ident, maker, name, beside>>
lists == <<machines, entered, started>>
search == <<tries, seen>>
requests == <<active, cancelled, got, doubled, doomed>>
ending == <<run, stopped, overtaken>>
vars == <<lists, objects, pc, machine, renewed, search, requests, ending>>

Listed == {p \in Ident : machines[p] # NoObject}

\* The keepalive event of the server is set.
Closing == run # "on"

\* c is in register.
Asking(c) == pc[c] \in {"asking", "storing", "checking"}

\* The service that c deals with.
About(c) == ident[machine[c]]

\* c has not listed its machine yet: it makes a new one.
Makes(c) == machine[c] # NoObject /\ machine[c] \notin entered

TypeOK ==
    /\ machines \in [Ident -> Object \cup {NoObject}]
    /\ entered \subseteq 1 .. Len(ident)
    /\ ident \in Seq(Ident) /\ Len(ident) + renewed <= MaxCalls
    /\ maker \in Seq(Caller) /\ Len(maker) = Len(ident)
    /\ name \in Seq(Seq(Nat)) /\ Len(name) = Len(ident)
    /\ beside \subseteq SUBSET Object
    /\ started \subseteq entered
    /\ stopped \subseteq entered
    /\ pc \in [Caller -> {"idle", "scan", "register", "asking", "storing",
                         "checking", "listing", "dead"}]
    /\ renewed \in 0 .. MaxCalls
    /\ machine \in [Caller -> 0 .. Len(ident)]
    /\ \A c \in Caller : machine[c] = NoObject <=> pc[c] \in {"idle", "dead"}
    /\ tries \in [Caller -> Nat]
    /\ seen \in [Caller -> SUBSET Ident]
    /\ active \subseteq {c \in Caller : Asking(c)}
    /\ cancelled \subseteq Caller
    /\ got \subseteq Caller
    /\ run \in {"on", "closing", "cancelled", "deaf", "over"}
    /\ doubled \subseteq Caller
    /\ doomed \subseteq Caller
    /\ overtaken \subseteq Object

Init ==
    /\ machines = [p \in Ident |-> NoObject]
    /\ entered = {}
    /\ ident = <<>>
    /\ maker = <<>>
    /\ name = <<>>
    /\ beside = {}
    /\ started = {}
    /\ stopped = {}
    /\ pc = [c \in Caller |-> "idle"]
    /\ renewed = 0
    /\ machine = [c \in Caller |-> NoObject]
    /\ tries = [c \in Caller |-> 0]
    /\ seen = [c \in Caller |-> {}]
    /\ active = {}
    /\ cancelled = {}
    /\ got = {}
    /\ run = "on"
    /\ doubled = {}
    /\ doomed = {}
    /\ overtaken = {}

-----------------------------------------------------------------------------
(***************************************************************************)
(* A caller.                                                               *)
(***************************************************************************)
Goto(c, l) == pc' = [pc EXCEPT ![c] = l]

\* The call of c is over: its locals and its request are gone.
Return(c, l) ==
    /\ Goto(c, l)
    /\ machine' = [machine EXCEPT ![c] = NoObject]
    /\ tries' = [tries EXCEPT ![c] = 0]
    /\ seen' = [seen EXCEPT ![c] = {}]
    /\ cancelled' = cancelled \ {c}
    /\ got' = got \ {c}
    /\ doubled' = doubled \ {c}
    /\ doomed' = doomed \ {c}

\* An exception: a browser's thread ends with it (zeroconf does not catch it);
\* register_with_host, or gRPC, catches the one of a manual registration.
Raise(c) == Return(c, IF c \in Browser THEN "dead" ELSE "idle")

\* remote_machines has no such ident: ensure_unique_hostname begins.  (The object
\* itself is made once it has its name.)
BeginNew(c, p) ==
    LET k == Len(ident) + 1
    IN  /\ machines[p] = NoObject
        /\ k + renewed <= MaxCalls
        /\ ident' = Append(ident, p)
        /\ maker' = Append(maker, c)
        /\ name' = Append(name, NoName)
        /\ beside' = beside \cup {{machine[d], k} : d \in {e \in Caller : Makes(e)}}
        /\ machine' = [machine EXCEPT ![c] = k]
        /\ seen' = [seen EXCEPT ![c] = Listed]
        /\ Goto(c, "scan")
        /\ UNCHANGED <<renewed, tries>>

\* A known machine is registered anew: by a browser unless it is connecting or was
\* registered a moment ago, by hand unless it is ONLINE.
BeginKnown(c, p) ==
    /\ machines[p] # NoObject
    /\ Len(ident) + renewed < MaxCalls
    /\ renewed' = renewed + 1
    /\ machine' = [machine EXCEPT ![c] = machines[p]]
    /\ Goto(c, "register")
    /\ UNCHANGED <<objects, search>>

Begin(c, p) ==
    /\ pc[c] = "idle"
    /\ BeginNew(c, p) \/ BeginKnown(c, p)
    /\ UNCHANGED <<lists, requests, ending>>

\* (slip) without browser_mutex
AddServiceUnlocked(c, p) ==
    /\ c \in Browser
    /\ run # "over"
    /\ Begin(c, p)

\* Zeroconf announces p.  A browser waits for the other one.  (What zeroconf has
\* queued when it is closed finds no registrar, as before.)
AddService(c, p) ==
    /\ c \in Browser
    /\ run # "over"
    /\ \A d \in Browser : pc[d] \in {"idle", "dead"}
    /\ Begin(c, p)

\* register_with_host has its answer, or the registration server, which stops when
\* the registrations are cancelled, is called.
ManualRegistration(c, p) ==
    /\ c \in Manual
    /\ run \in {"on", "closing"}
    /\ Begin(c, p)

\* (slip) the number stays what it was
SameAgain(h, n) == IF n = 0 THEN h ELSE Append(h, 1)

\* The name that ensure_unique_hostname tries after n were taken: "%s[%d]".
Candidate(h, n) == IF n = 0 THEN h ELSE Append(h, n)

Wanted(c) == Candidate(Hostname[About(c)], tries[c])

\* None of the machines that c iterates over has the name.
Free(c) == \A p \in seen[c] : name[machines[p]] # Wanted(c)

\* The name is taken: the next pass begins.
NameTaken(c) ==
    /\ ~Free(c)
    /\ tries' = [tries EXCEPT ![c] = @ + 1]
    /\ seen' = [seen EXCEPT ![c] = Listed]
    /\ UNCHANGED <<pc, machine, name, requests>>

\* (slip) the next name is not looked up
NameOnce(c) ==
    /\ name' = [name EXCEPT ![machine[c]] =
                    Candidate(Hostname[About(c)], IF Free(c) THEN 0 ELSE 1)]
    /\ Goto(c, "register")
    /\ UNCHANGED <<machine, search, requests>>

\* The pass has come to its end: the machine gets the name.
NameFree(c) ==
    /\ Free(c)
    /\ seen[c] = Listed
    /\ name' = [name EXCEPT ![machine[c]] = Wanted(c)]
    /\ Goto(c, "register")
    /\ UNCHANGED <<machine, search, requests>>

\* "dictionary changed size during iteration"
ListChanged(c) ==
    /\ seen[c] # Listed
    /\ Raise(c)
    /\ UNCHANGED <<name, active>>

EnsureUniqueHostname(c) ==
    /\ pc[c] = "scan"
    /\ NameTaken(c) \/ NameFree(c) \/ ListChanged(c)
    /\ UNCHANGED <<lists, ident, maker, beside, renewed, ending>>

-----------------------------------------------------------------------------
(***************************************************************************)
(* Registrar.register.                                                     *)
(***************************************************************************)
Rivals(c) == {d \in Caller \ {c} : Asking(d) /\ About(d) = About(c)}

Requested(c) ==
    /\ Goto(c, "asking")
    /\ active' = (active \ Rivals(c)) \cup {c}
    /\ doubled' = IF Rivals(c) = {} THEN doubled ELSE doubled \cup Rivals(c) \cup {c}
    /\ UNCHANGED <<machine, search, cancelled, got, doomed>>

\* There may be no registrar any more.
Register(c) ==
    /\ pc[c] = "register"
    /\ IF run \in {"deaf", "over"} THEN Raise(c) /\ UNCHANGED active
                                   ELSE Requested(c)
    /\ UNCHANGED <<lists, objects, renewed, ending>>

\* register_v2's thread has ended, with a certificate or without one.
Answered(c) ==
    /\ pc[c] = "asking"
    /\ \/ c \notin cancelled /\ Goto(c, "storing")
       \/ Goto(c, "checking")
    /\ UNCHANGED <<lists, objects, renewed, machine, search, requests, ending>>

\* (slip) the entry stays in active_registrations
KeepEntry(c) == active' = active

\* Whatever active_registrations holds for the ident of c is deleted.
EndRequest(c) ==
    active' = {d \in active : About(d) # About(c)}

\* process_remote_cert stores the certificate,
CertStored(c) ==
    /\ got' = got \cup {c}
    /\ Goto(c, "checking")
    /\ UNCHANGED <<machine, search, active, cancelled, doubled, doomed>>

\* or fails to decrypt it: the registration failed.
CertRefused(c) ==
    /\ EndRequest(c)
    /\ Return(c, "idle")

ProcessRemoteCert(c) ==
    /\ pc[c] = "storing"
    /\ CertStored(c) \/ CertRefused(c)
    /\ UNCHANGED <<lists, objects, renewed, ending>>

\* (slip) the machine is listed whatever the server does meanwhile
CheckNothing(c) ==
    /\ pc[c] = "checking"
    /\ EndRequest(c)
    /\ Goto(c, "listing")
    /\ UNCHANGED <<lists, objects, renewed, machine, search, cancelled, got, doubled,
                   doomed, ending>>

\* register returns; nothing is done when "the server was shutting down".
Check(c) ==
    /\ pc[c] = "checking"
    /\ EndRequest(c)
    /\ IF Closing THEN Return(c, "idle")
                  ELSE /\ Goto(c, "listing")
                       /\ UNCHANGED <<machine, search, cancelled, got, doubled, doomed>>
    /\ UNCHANGED <<lists, objects, renewed, ending>>

\* A new machine is listed.  By hand its thread is started; a browser starts it, or
\* starts it again, if there is a certificate (of a known one, if it is a new one
\* or the machine is OFFLINE).
List(c) ==
    LET k == machine[c]
        p == About(c)
    IN  /\ pc[c] = "listing"
        /\ machines' = IF Makes(c) THEN [machines EXCEPT ![p] = k] ELSE machines
        /\ entered' = entered \cup {k}
        /\ \/ c \in Manual \cup got /\ started' = started \cup {k}
           \/ c \in Browser /\ (Makes(c) => c \notin got) /\ UNCHANGED started
        /\ Return(c, "idle")
        /\ UNCHANGED <<objects, renewed, active, ending>>

-----------------------------------------------------------------------------
(***************************************************************************)
(* The end of Server.run.                                                  *)
(***************************************************************************)
callers == <<lists, objects, renewed, pc, machine, search>>

\* Server.shutdown, or a start that failed
Shutdown ==
    /\ run = "on"
    /\ run' = "closing"
    /\ overtaken' = {machine[c] : c \in {d \in Caller : pc[d] = "listing"}}
    /\ UNCHANGED <<callers, requests, stopped>>

\* (slip) the requests are forgotten and not cancelled
ForgetRegistrations ==
    /\ run = "closing"
    /\ run' = "cancelled"
    /\ active' = {}
    /\ doomed' = {c \in Caller : pc[c] = "asking"}
    /\ UNCHANGED <<callers, cancelled, got, doubled, stopped, overtaken>>

\* shutdown_registration_servers: what is in active_registrations is cancelled.
ShutdownRegistrations ==
    /\ run = "closing"
    /\ run' = "cancelled"
    /\ cancelled' = cancelled \cup active
    /\ active' = {}
    /\ doomed' = {c \in Caller : pc[c] = "asking"}
    /\ UNCHANGED <<callers, got, doubled, stopped, overtaken>>

\* remote_registrar = None
DropRegistrar ==
    /\ run = "cancelled"
    /\ run' = "deaf"
    /\ UNCHANGED <<callers, requests, stopped, overtaken>>

\* Those that are in remote_machines by now are shut down.
CloseMachines ==
    /\ run = "deaf"
    /\ run' = "over"
    /\ stopped' = {machines[p] : p \in Listed}
    /\ UNCHANGED <<callers, requests, overtaken>>

-----------------------------------------------------------------------------
Call(c) ==
    \/ EnsureUniqueHostname(c)
    \/ Register(c)
    \/ Answered(c)
    \/ ProcessRemoteCert(c)
    \/ Check(c)
    \/ List(c)

ServerEnds == Shutdown \/ ShutdownRegistrations \/ DropRegistrar \/ CloseMachines

Next ==
    \/ \E c \in Caller, p \in Ident : AddService(c, p) \/ ManualRegistration(c, p)
    \/ \E c \in Caller : Call(c)
    \/ ServerEnds

Spec == Init /\ [][Next]_vars

-----------------------------------------------------------------------------
(***************************************************************************)
(* Properties.                                                             *)
(***************************************************************************)

\* A service gets one RemoteMachine with one connection thread, though both
\* browsers announce it and whatever else is announced meanwhile: a second one is
\* made only at the same time as the first, and then not by two browsers.
\* (server.add_service, handle_manual_service_registration)
OneMachine ==
    \A j, k \in started :
        j # k /\ ident[j] = ident[k] =>
            {j, k} \in beside /\ {maker[j], maker[k]} \cap Manual # {}

\* No two machines are listed under one name, unless they were made at the same
\* time.  (server.ensure_unique_hostname)
UniqueNames ==
    \A p, q \in Listed :
        p # q /\ name[machines[p]] = name[machines[q]] =>
            {machines[p], machines[q]} \in beside

\* The thread of a browser ends only when the server does, or when a machine that was
\* registered by hand was listed while it searched a name.  (server.add_service,
\* ensure_unique_hostname)
BrowsersGoOn ==
    \A b \in Browser :
        pc[b] = "dead" =>
            run \in {"deaf", "over"} \/ \E k \in entered : maker[k] \in Manual

\* A registration that waits for its peer when the server cancels those that wait
\* stores no certificate afterwards, unless there was another one for the same
\* ident.  (remote_registration.register_v2, Registrar)
CancelledStoresNothing ==
    \A c \in doomed : pc[c] = "storing" => c \in doubled

\* When the server has ended, every machine whose thread was started has been shut
\* down, except one whose place in remote_machines was taken by another that was
\* made at the same time, and one that had passed the check for the end of the
\* server before it came.  (server.Server.run, add_service,
\* handle_manual_service_registration)
EndStopsAll ==
    run = "over" =>
        \A j \in started \ (stopped \cup overtaken) :
            \E k \in stopped \cup overtaken :
                ident[k] = ident[j] /\ {j, k} \in beside

\* A search for a name comes to its end: it finds no more names taken than there
\* are machines, though the names "host[1]", "host[2]" ... may be the host names of
\* others.  (server.ensure_unique_hostname)
SearchEnds == \A c \in Caller : tries[c] <= Cardinality(entered)
=============================================================================
