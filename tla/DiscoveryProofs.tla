---------------------------- MODULE DiscoveryProofs ----------------------------
(***************************************************************************)
(* Proofs about Discovery, for any services, host names, threads and calls.*)
(*   - A service has one machine, and a name one machine, unless two were  *)
(*     made at the same time; a search for a name ends; browsers go on.    *)
(*   - When the server ends, what was started is shut down, and what was   *)
(*     cancelled stores nothing.                                           *)
(*                                                                         *)
(* All of it rests on what the objects that are not listed yet are to each *)
(* other and to those that are: whoever makes one is alone with it, and any*)
(* two that were unlisted at one moment are in beside.                     *)
(***************************************************************************)
EXTENDS Discovery, SequenceTheorems, FiniteSetTheorems, TLAPS

\* An object that is not listed yet belongs to the caller that makes it.
OwnObject == \A c \in Caller : Makes(c) => maker[machine[c]] = c

\* Only an object that is not listed yet is given a name.
ScanMakes == \A c \in Caller : pc[c] = "scan" => Makes(c)

\* What is listed for an ident was entered, and is of that ident.
ListedEntered ==
    \A p \in Ident : machines[p] # NoObject =>
                         machines[p] \in entered /\ ident[machines[p]] = p

\* An ident that was ever listed stays listed.
EnteredListed == \A k \in entered : machines[ident[k]] # NoObject

\* Two objects that are being made are beside each other.
MakersBeside ==
    \A c, d \in Caller :
        c # d /\ Makes(c) /\ Makes(d) => {machine[c], machine[d]} \in beside

\* The types, and whose the objects are.
Inv ==
    /\ TypeOK
    /\ OwnObject
    /\ ScanMakes
    /\ ListedEntered
    /\ EnteredListed
    /\ MakersBeside

\* A step that makes no object and lists none: some callers go on, return, or deal
\* with what is listed.
Calm ==
    /\ UNCHANGED <<machines, entered, ident, maker, beside>>
    /\ \A c \in Caller :
          \/ machine'[c] = machine[c] /\ (pc'[c] = "scan" => pc[c] = "scan")
          \/ machine'[c] \in entered \cup {NoObject} /\ pc'[c] # "scan"

\* A calm step that gives no name.
Quiet ==
    /\ UNCHANGED <<machines, entered, ident, maker, beside, name>>
    /\ \A c \in Caller :
          \/ machine'[c] = machine[c] /\ (pc'[c] = "scan" <=> pc[c] = "scan")
          \/ machine'[c] \in entered \cup {NoObject} /\ pc'[c] # "scan"

Places == {"idle", "scan", "register", "asking", "storing", "checking", "listing", "dead"}

-----------------------------------------------------------------------------
(***************************************************************************)
(* Types.                                                                  *)
(***************************************************************************)

\* The sequences have an entry for every object.
LEMMA ObjectFacts ==
    ASSUME TypeOK
    PROVE  /\ Len(ident) \in Nat /\ MaxCalls \in Nat /\ renewed \in Nat
           /\ Len(ident) <= MaxCalls
           /\ \A k \in 1 .. Len(ident) :
                 k \in Object /\ ident[k] \in Ident /\ maker[k] \in Caller
                              /\ name[k] \in Seq(Nat)
           /\ \A c \in Caller : machine[c] # NoObject => machine[c] \in 1 .. Len(ident)
           /\ \A c \in Caller :
                 pc[c] \in Places \ {"idle", "dead"} <=> machine[c] # NoObject
  <1>1. Len(ident) \in Nat /\ MaxCalls \in Nat /\ renewed \in Nat
    BY CallsAssumption DEF TypeOK
  <1>2. Len(ident) <= MaxCalls
    BY <1>1 DEF TypeOK
  <1>3. ASSUME NEW k \in 1 .. Len(ident)
        PROVE  k \in Object /\ ident[k] \in Ident /\ maker[k] \in Caller
                            /\ name[k] \in Seq(Nat)
    BY <1>1, <1>2 DEF TypeOK, Object
  <1>4. ASSUME NEW c \in Caller
        PROVE  /\ machine[c] # NoObject => machine[c] \in 1 .. Len(ident)
               /\ pc[c] \in Places \ {"idle", "dead"} <=> machine[c] # NoObject
    BY <1>1 DEF TypeOK, NoObject, Places
  <1> QED
    BY <1>1, <1>2, <1>3, <1>4

\* A caller leaves its call.
LEMMA ReturnType ==
    ASSUME TypeOK, NEW c \in Caller, NEW l \in {"idle", "dead"}, Return(c, l)
    PROVE  /\ pc' \in [Caller -> Places]
           /\ machine' \in [Caller -> 0 .. Len(ident)]
           /\ \A d \in Caller : machine'[d] = NoObject <=> pc'[d] \in {"idle", "dead"}
           /\ tries' \in [Caller -> Nat]
           /\ seen' \in [Caller -> SUBSET Ident]
           /\ cancelled' \subseteq Caller
           /\ got' \subseteq Caller
           /\ doubled' \subseteq Caller
           /\ doomed' \subseteq Caller
           /\ \A d \in Caller \ {c} : pc'[d] = pc[d] /\ machine'[d] = machine[d]
           /\ pc'[c] = l /\ machine'[c] = NoObject
  <1>1. /\ pc' \in [Caller -> Places]
        /\ \A d \in Caller \ {c} : pc'[d] = pc[d]
        /\ pc'[c] = l
    BY DEF Return, Goto, TypeOK, Places
  <1>2. Len(ident) \in Nat
    BY DEF TypeOK
  <1>3. /\ machine' \in [Caller -> 0 .. Len(ident)]
        /\ \A d \in Caller \ {c} : machine'[d] = machine[d]
        /\ machine'[c] = NoObject
    BY <1>2 DEF Return, TypeOK, NoObject
  <1>4. tries' \in [Caller -> Nat] /\ seen' \in [Caller -> SUBSET Ident]
    BY DEF Return, TypeOK
  <1>5. /\ cancelled' \subseteq Caller /\ got' \subseteq Caller
        /\ doubled' \subseteq Caller /\ doomed' \subseteq Caller
    BY DEF Return, TypeOK
  <1>6. ASSUME NEW d \in Caller
        PROVE  machine'[d] = NoObject <=> pc'[d] \in {"idle", "dead"}
    BY <1>1, <1>3 DEF TypeOK
  <1> QED
    BY <1>1, <1>3, <1>4, <1>5, <1>6

\* A caller goes on with its call.
LEMMA GotoType ==
    ASSUME TypeOK, NEW c \in Caller, NEW l \in Places \ {"idle", "dead"}, Goto(c, l),
           machine' = machine, machine[c] # NoObject
    PROVE  /\ pc' \in [Caller -> Places]
           /\ \A d \in Caller : machine'[d] = NoObject <=> pc'[d] \in {"idle", "dead"}
           /\ \A d \in Caller \ {c} : pc'[d] = pc[d]
           /\ pc'[c] = l
  <1>1. /\ pc' \in [Caller -> Places]
        /\ \A d \in Caller \ {c} : pc'[d] = pc[d]
        /\ pc'[c] = l
    BY DEF Goto, TypeOK, Places
  <1>2. ASSUME NEW d \in Caller
        PROVE  machine'[d] = NoObject <=> pc'[d] \in {"idle", "dead"}
    BY <1>1 DEF TypeOK
  <1> QED
    BY <1>1, <1>2

LEMMA InitInv == Init => Inv
  <1> SUFFICES ASSUME Init PROVE Inv
    OBVIOUS
  <1>1. TypeOK
    <2>1. /\ ident \in Seq(Ident) /\ maker \in Seq(Caller) /\ name \in Seq(Seq(Nat))
          /\ Len(ident) = 0 /\ Len(maker) = 0 /\ Len(name) = 0
      BY DEF Init
    <2>2. MaxCalls \in Nat
      BY CallsAssumption
    <2> QED
      BY <2>1, <2>2 DEF Init, TypeOK, NoObject
  <1>2. \A c \in Caller : machine[c] = NoObject /\ pc[c] # "scan"
    BY DEF Init
  <1>3. OwnObject /\ ScanMakes /\ MakersBeside
    BY <1>2 DEF OwnObject, ScanMakes, MakersBeside, Makes
  <1>4. ListedEntered /\ EnteredListed
    BY DEF Init, ListedEntered, EnteredListed
  <1> QED
    BY <1>1, <1>3, <1>4 DEF Inv

-----------------------------------------------------------------------------
(***************************************************************************)
(* Steps that make no object and list none.                                *)
(***************************************************************************)
LEMMA CalmInv == ASSUME Inv, TypeOK', Calm PROVE Inv'
  <1>1. ASSUME NEW c \in Caller, Makes(c)'
        PROVE  machine'[c] = machine[c] /\ Makes(c)
    BY <1>1 DEF Calm, Makes
  <1>2. OwnObject'
    BY <1>1 DEF Inv, OwnObject, Calm
  <1>3. ScanMakes'
    <2> SUFFICES ASSUME NEW c \in Caller, pc'[c] = "scan"
                 PROVE  Makes(c)'
      BY DEF ScanMakes
    <2>1. machine'[c] = machine[c] /\ pc[c] = "scan"
      BY DEF Calm
    <2> QED
      BY <2>1 DEF Inv, ScanMakes, Makes, Calm
  <1>4. ListedEntered' /\ EnteredListed'
    BY DEF Inv, ListedEntered, EnteredListed, Calm
  <1>5. MakersBeside'
    BY <1>1 DEF Inv, MakersBeside, Calm
  <1> QED
    BY <1>2, <1>3, <1>4, <1>5 DEF Inv

\* The variables that the callers' steps leave alone
LEMMA ReturnInv ==
    ASSUME Inv, NEW c \in Caller, NEW l \in {"idle", "dead"}, Return(c, l),
           UNCHANGED <<lists, ident, maker, beside, name, renewed, ending>>,
           active' \subseteq active, pc[c] \in {"scan", "register"} \/ c \notin active'
    PROVE  TypeOK' /\ Quiet
  <1>1. /\ pc' \in [Caller -> Places]
        /\ machine' \in [Caller -> 0 .. Len(ident)]
        /\ \A d \in Caller : machine'[d] = NoObject <=> pc'[d] \in {"idle", "dead"}
        /\ tries' \in [Caller -> Nat]
        /\ seen' \in [Caller -> SUBSET Ident]
        /\ cancelled' \subseteq Caller
        /\ got' \subseteq Caller
        /\ doubled' \subseteq Caller
        /\ doomed' \subseteq Caller
        /\ \A d \in Caller \ {c} : pc'[d] = pc[d] /\ machine'[d] = machine[d]
        /\ pc'[c] = l /\ machine'[c] = NoObject
    BY ReturnType DEF Inv
  <1>2. active' \subseteq {d \in Caller : Asking(d)'}
    <2>1. ASSUME NEW d \in active'
          PROVE  d \in Caller /\ pc'[d] = pc[d] /\ Asking(d)
      BY <1>1, <2>1 DEF Inv, TypeOK, Asking
    <2> QED
      BY <2>1 DEF Asking
  <1>3. UNCHANGED <<machines, entered, started, ident, maker, beside, name, renewed, run,
                    stopped, overtaken>>
    BY DEF lists, ending
  <1>4. TypeOK'
    BY <1>1, <1>2, <1>3 DEF Inv, TypeOK, Places
  <1>5. Quiet
    BY <1>1, <1>3 DEF Quiet
  <1> QED
    BY <1>4, <1>5

\* A call goes on.
LEMMA GoOnInv ==
    ASSUME Inv, NEW c \in Caller, NEW l \in Places \ {"idle", "dead", "scan"}, Goto(c, l),
           machine' = machine, machine[c] # NoObject,
           name' \in Seq(Seq(Nat)), Len(name') = Len(ident),
           UNCHANGED <<lists, ident, maker, beside, renewed, search, ending>>,
           active' \subseteq {d \in Caller : Asking(d)'},
           cancelled' \subseteq Caller, got' \subseteq Caller,
           doubled' \subseteq Caller, doomed' \subseteq Caller
    PROVE  /\ TypeOK' /\ Calm
           /\ pc[c] # "scan" /\ name' = name => Quiet
  <1>1. /\ pc' \in [Caller -> Places]
        /\ \A d \in Caller : machine'[d] = NoObject <=> pc'[d] \in {"idle", "dead"}
        /\ \A d \in Caller \ {c} : pc'[d] = pc[d]
        /\ pc'[c] = l
    BY GotoType DEF Inv
  <1>2. UNCHANGED <<machines, entered, started, ident, maker, beside, renewed, tries, seen,
                    run, stopped, overtaken>>
    BY DEF lists, search, ending
  <1>3. TypeOK'
    BY <1>1, <1>2 DEF Inv, TypeOK, Places
  <1>4. Calm
    BY <1>1, <1>2 DEF Calm
  <1>5. ASSUME pc[c] # "scan", name' = name PROVE Quiet
    BY <1>1, <1>2, <1>5 DEF Quiet, Places
  <1> QED
    BY <1>3, <1>4, <1>5

\* The name that a caller gives is a name.
LEMMA WantedType ==
    ASSUME Inv, NEW c \in Caller, machine[c] # NoObject
    PROVE  Wanted(c) \in Seq(Nat)
  <1>1. machine[c] \in 1 .. Len(ident) /\ About(c) \in Ident
    BY ObjectFacts DEF Inv, About
  <1>2. Hostname[About(c)] \in Seq(Nat) /\ tries[c] \in Nat
    BY <1>1, HostnameAssumption DEF Inv, TypeOK
  <1> QED
    BY <1>2 DEF Wanted, Candidate

LEMMA NameTakenInv ==
    ASSUME Inv, NEW c \in Caller, pc[c] = "scan", NameTaken(c),
           UNCHANGED <<lists, ident, maker, beside, renewed, ending>>
    PROVE  TypeOK' /\ Quiet
  <1>1. tries' \in [Caller -> Nat]
    BY DEF NameTaken, Inv, TypeOK
  <1>2. seen' \in [Caller -> SUBSET Ident]
    BY DEF NameTaken, Inv, TypeOK, Listed
  <1>3. UNCHANGED <<machines, entered, started, ident, maker, beside, renewed, run,
                    stopped, overtaken, pc, machine, name, active, cancelled, got,
                    doubled, doomed>>
    BY DEF NameTaken, lists, ending, requests
  <1>4. TypeOK'
    BY <1>1, <1>2, <1>3 DEF Inv, TypeOK, Asking
  <1> QED
    BY <1>3, <1>4 DEF Quiet

LEMMA NameFreeInv ==
    ASSUME Inv, NEW c \in Caller, pc[c] = "scan", NameFree(c),
           UNCHANGED <<lists, ident, maker, beside, renewed, ending>>
    PROVE  /\ TypeOK' /\ Calm
           /\ name'[machine[c]] = Wanted(c)
           /\ \A k \in 1 .. Len(ident) : k # machine[c] => name'[k] = name[k]
  <1>1. machine[c] # NoObject /\ machine[c] \in 1 .. Len(ident)
    BY ObjectFacts DEF Inv, ScanMakes, Makes
  <1>2. Wanted(c) \in Seq(Nat)
    BY <1>1, WantedType
  <1>3. name \in Seq(Seq(Nat)) /\ Len(name) = Len(ident) /\ Len(ident) \in Nat
    BY DEF Inv, TypeOK
  <1>4. name' = [name EXCEPT ![machine[c]] = Wanted(c)]
    BY DEF NameFree
  <1>5. name' \in Seq(Seq(Nat)) /\ Len(name') = Len(ident)
    BY <1>1, <1>2, <1>3, <1>4, ExceptSeq
  <1>6. /\ name'[machine[c]] = Wanted(c)
        /\ \A k \in 1 .. Len(ident) : k # machine[c] => name'[k] = name[k]
    BY <1>1, <1>3, <1>4
  <1>7. /\ Goto(c, "register")
        /\ UNCHANGED <<machine, search, active, cancelled, got, doubled, doomed>>
    BY DEF NameFree, requests
  <1>8. "register" \in Places \ {"idle", "dead", "scan"}
    BY DEF Places
  <1>9. active' \subseteq {d \in Caller : Asking(d)'}
    BY <1>7 DEF Inv, TypeOK, Asking, Goto
  <1>10. /\ cancelled' \subseteq Caller /\ got' \subseteq Caller
         /\ doubled' \subseteq Caller /\ doomed' \subseteq Caller
    BY <1>7 DEF Inv, TypeOK
  <1> QED
    BY <1>1, <1>5, <1>6, <1>7, <1>8, <1>9, <1>10, GoOnInv

LEMMA EnsureInv ==
    ASSUME Inv, NEW c \in Caller, EnsureUniqueHostname(c)
    PROVE  TypeOK' /\ (Quiet \/ (Calm /\ NameFree(c)))
  <1>1. /\ pc[c] = "scan"
        /\ UNCHANGED <<lists, ident, maker, beside, renewed, ending>>
    BY DEF EnsureUniqueHostname
  <1>2. CASE NameTaken(c)
    BY <1>1, <1>2, NameTakenInv
  <1>3. CASE NameFree(c)
    BY <1>1, <1>3, NameFreeInv
  <1>4. CASE ListChanged(c)
    <2>1. PICK l \in {"idle", "dead"} : Return(c, l)
      BY <1>4 DEF ListChanged, Raise
    <2>2. UNCHANGED <<name, active>>
      BY <1>4 DEF ListChanged
    <2> QED
      BY <1>1, <2>1, <2>2, ReturnInv
  <1> QED
    BY <1>2, <1>3, <1>4 DEF EnsureUniqueHostname

\* A known machine is registered anew.
LEMMA BeginKnownInv ==
    ASSUME Inv, NEW c \in Caller, NEW p \in Ident, pc[c] = "idle", BeginKnown(c, p),
           UNCHANGED <<lists, requests, ending>>
    PROVE  TypeOK' /\ Quiet
  <1>1. UNCHANGED <<machines, entered, started, ident, maker, name, beside, tries, seen,
                    active, cancelled, got, doubled, doomed, run, stopped, overtaken>>
    BY DEF BeginKnown, lists, requests, ending, objects, search
  <1>2. machines[p] \in entered /\ machines[p] \in 1 .. Len(ident) /\ machines[p] # NoObject
    BY DEF BeginKnown, Inv, ListedEntered, TypeOK
  <1>3. Len(ident) \in Nat /\ MaxCalls \in Nat /\ renewed \in Nat
    BY ObjectFacts DEF Inv
  <1>4. renewed' \in 0 .. MaxCalls /\ Len(ident) + renewed' <= MaxCalls
    BY <1>3 DEF BeginKnown
  <1>5. /\ machine' \in [Caller -> 0 .. Len(ident)]
        /\ \A d \in Caller \ {c} : machine'[d] = machine[d]
        /\ machine'[c] = machines[p]
    BY <1>2, <1>3 DEF BeginKnown, Inv, TypeOK
  <1>6. /\ pc' \in [Caller -> Places]
        /\ \A d \in Caller \ {c} : pc'[d] = pc[d]
        /\ pc'[c] = "register"
    BY DEF BeginKnown, Goto, Inv, TypeOK, Places
  <1>7. ASSUME NEW d \in Caller
        PROVE  machine'[d] = NoObject <=> pc'[d] \in {"idle", "dead"}
    BY <1>2, <1>5, <1>6 DEF Inv, TypeOK
  <1>8. active' \subseteq {d \in Caller : Asking(d)'}
    <2>1. ASSUME NEW d \in active
          PROVE  d \in Caller /\ Asking(d) /\ pc'[d] = pc[d]
      BY <1>6, <2>1 DEF Inv, TypeOK, Asking
    <2> QED
      BY <1>1, <2>1 DEF Asking
  <1>9. TypeOK'
    BY <1>1, <1>4, <1>5, <1>6, <1>7, <1>8 DEF Inv, TypeOK, Places
  <1>10. Quiet
    BY <1>1, <1>2, <1>5, <1>6 DEF Quiet
  <1> QED
    BY <1>9, <1>10

LEMMA RegisterInv ==
    ASSUME Inv, NEW c \in Caller, Register(c)
    PROVE  TypeOK' /\ Quiet
  <1>1. /\ pc[c] = "register"
        /\ UNCHANGED <<lists, ident, maker, beside, name, renewed, ending>>
    BY DEF Register, objects
  <1>2. CASE Raise(c) /\ UNCHANGED active
    <2>1. PICK l \in {"idle", "dead"} : Return(c, l)
      BY <1>2 DEF Raise
    <2> QED
      BY <1>1, <1>2, <2>1, ReturnInv
  <1>3. CASE Requested(c)
    <2>1. /\ Goto(c, "asking")
          /\ UNCHANGED <<machine, search, cancelled, got, doomed>>
      BY <1>3 DEF Requested
    <2>2. machine[c] # NoObject
      BY <1>1 DEF Inv, TypeOK
    <2>3. name' \in Seq(Seq(Nat)) /\ Len(name') = Len(ident)
      BY <1>1 DEF Inv, TypeOK
    <2>4. active' \subseteq {d \in Caller : Asking(d)'}
      <3>1. pc' = [pc EXCEPT ![c] = "asking"] /\ pc \in [Caller -> Places]
        BY <2>1 DEF Goto, Inv, TypeOK, Places
      <3>2. ASSUME NEW d \in active'
            PROVE  d \in Caller /\ Asking(d)'
        BY <1>3, <3>1, <3>2 DEF Requested, Inv, TypeOK, Asking
      <3> QED
        BY <3>2
    <2>5. doubled' \subseteq Caller
      BY <1>3 DEF Requested, Rivals, Inv, TypeOK
    <2>6. cancelled' \subseteq Caller /\ got' \subseteq Caller /\ doomed' \subseteq Caller
      BY <2>1 DEF Inv, TypeOK
    <2>7. "asking" \in Places \ {"idle", "dead", "scan"}
      BY DEF Places
    <2> QED
      BY <1>1, <2>1, <2>2, <2>3, <2>4, <2>5, <2>6, <2>7, GoOnInv
  <1> QED
    BY <1>2, <1>3 DEF Register

\* A request goes on without an end of its entry.
LEMMA RequestInv ==
    ASSUME Inv, NEW c \in Caller, pc[c] \in {"asking", "storing"},
           NEW l \in {"storing", "checking"}, Goto(c, l),
           UNCHANGED <<lists, objects, renewed, ending, machine, search, active,
                       cancelled, doubled, doomed>>,
           got' \subseteq Caller
    PROVE  TypeOK' /\ Quiet
  <1>1. UNCHANGED <<ident, maker, beside, name, machine>>
    BY DEF objects
  <1>2. machine[c] # NoObject
    BY DEF Inv, TypeOK
  <1>3. name' \in Seq(Seq(Nat)) /\ Len(name') = Len(ident)
    BY <1>1 DEF Inv, TypeOK
  <1>4. active' \subseteq {d \in Caller : Asking(d)'}
    <2>1. pc' = [pc EXCEPT ![c] = l] /\ pc \in [Caller -> Places]
      BY DEF Goto, Inv, TypeOK, Places
    <2>2. ASSUME NEW d \in active
          PROVE  d \in Caller /\ Asking(d)'
      BY <2>1, <2>2 DEF Inv, TypeOK, Asking
    <2> QED
      BY <2>2
  <1>5. cancelled' \subseteq Caller /\ doubled' \subseteq Caller /\ doomed' \subseteq Caller
    BY DEF Inv, TypeOK
  <1>6. l \in Places \ {"idle", "dead", "scan"}
    BY DEF Places
  <1> QED
    BY <1>1, <1>2, <1>3, <1>4, <1>5, <1>6, GoOnInv

\* The entry of a request is deleted.
LEMMA EndRequestFacts ==
    ASSUME Inv, NEW c \in Caller, EndRequest(c), ident' = ident
    PROVE  active' \subseteq active /\ c \notin active'
  BY DEF EndRequest, Inv, TypeOK

LEMMA AnsweredInv ==
    ASSUME Inv, NEW c \in Caller, Answered(c)
    PROVE  TypeOK' /\ Quiet
  <1>1. PICK l \in {"storing", "checking"} : Goto(c, l)
    BY DEF Answered
  <1>2. /\ pc[c] = "asking"
        /\ UNCHANGED <<lists, objects, renewed, ending, machine, search, active,
                       cancelled, got, doubled, doomed>>
    BY DEF Answered, requests
  <1>3. got' \subseteq Caller
    BY <1>2 DEF Inv, TypeOK
  <1> QED
    BY <1>1, <1>2, <1>3, RequestInv

LEMMA ProcessInv ==
    ASSUME Inv, NEW c \in Caller, ProcessRemoteCert(c)
    PROVE  TypeOK' /\ Quiet
  <1>1. pc[c] = "storing" /\ UNCHANGED <<lists, objects, renewed, ending>>
    BY DEF ProcessRemoteCert
  <1>2. CASE CertStored(c)
    <2>1. /\ Goto(c, "checking")
          /\ UNCHANGED <<machine, search, active, cancelled, doubled, doomed>>
      BY <1>2 DEF CertStored
    <2>2. got' \subseteq Caller
      BY <1>2 DEF CertStored, Inv, TypeOK
    <2> QED
      BY <1>1, <2>1, <2>2, RequestInv
  <1>3. CASE CertRefused(c)
    <2>1. Return(c, "idle") /\ EndRequest(c) /\ UNCHANGED <<ident, maker, beside, name>>
      BY <1>1, <1>3 DEF CertRefused, objects
    <2>2. active' \subseteq active /\ c \notin active'
      BY <2>1, EndRequestFacts
    <2> QED
      BY <1>1, <2>1, <2>2, ReturnInv
  <1> QED
    BY <1>2, <1>3 DEF ProcessRemoteCert

LEMMA CheckInv ==
    ASSUME Inv, NEW c \in Caller, Check(c)
    PROVE  TypeOK' /\ Quiet
  <1>1. /\ pc[c] = "checking"
        /\ UNCHANGED <<lists, ident, maker, beside, name, renewed, ending>>
    BY DEF Check, objects
  <1>2. active' \subseteq active /\ c \notin active'
    BY <1>1, EndRequestFacts DEF Check
  <1>3. CASE Return(c, "idle")
    BY <1>1, <1>2, <1>3, ReturnInv
  <1>4. CASE /\ Goto(c, "listing")
             /\ UNCHANGED <<machine, search, cancelled, got, doubled, doomed>>
    <2>1. machine[c] # NoObject
      BY <1>1 DEF Inv, TypeOK
    <2>2. name' \in Seq(Seq(Nat)) /\ Len(name') = Len(ident)
      BY <1>1 DEF Inv, TypeOK
    <2>3. active' \subseteq {d \in Caller : Asking(d)'}
      <3>1. pc' = [pc EXCEPT ![c] = "listing"] /\ pc \in [Caller -> Places]
        BY <1>4 DEF Goto, Inv, TypeOK, Places
      <3>2. ASSUME NEW d \in active'
            PROVE  d \in Caller /\ Asking(d)'
        BY <1>2, <3>1, <3>2 DEF Inv, TypeOK, Asking
      <3> QED
        BY <3>2
    <2>4. /\ cancelled' \subseteq Caller /\ got' \subseteq Caller
          /\ doubled' \subseteq Caller /\ doomed' \subseteq Caller
      BY <1>4 DEF Inv, TypeOK
    <2>5. "listing" \in Places \ {"idle", "dead", "scan"}
      BY DEF Places
    <2> QED
      BY <1>1, <1>4, <2>1, <2>2, <2>3, <2>4, <2>5, GoOnInv
  <1> QED
    BY <1>3, <1>4 DEF Check

\* The end of the server touches no call.
LEMMA EndsInv == ASSUME Inv, ServerEnds PROVE TypeOK' /\ Quiet
  <1>1. UNCHANGED <<machines, entered, started, ident, maker, name, beside, renewed, pc,
                    machine, tries, seen>>
    BY DEF ServerEnds, Shutdown, ShutdownRegistrations, DropRegistrar, CloseMachines,
           callers, lists, objects, search
  <1>2. /\ cancelled' \subseteq Caller /\ got' \subseteq Caller
        /\ doubled' \subseteq Caller /\ doomed' \subseteq Caller
    BY DEF ServerEnds, Shutdown, ShutdownRegistrations, DropRegistrar, CloseMachines,
           requests, Inv, TypeOK
  <1>3. active' \subseteq active
    BY DEF ServerEnds, Shutdown, ShutdownRegistrations, DropRegistrar, CloseMachines,
           requests
  <1>4. run' \in {"on", "closing", "cancelled", "deaf", "over"}
    BY DEF ServerEnds, Shutdown, ShutdownRegistrations, DropRegistrar, CloseMachines
  <1>5. stopped' \subseteq entered
    <2>1. {machines[p] : p \in Listed} \subseteq entered
      BY DEF Listed, Inv, ListedEntered
    <2> QED
      BY <2>1 DEF ServerEnds, Shutdown, ShutdownRegistrations, DropRegistrar,
                  CloseMachines, Inv, TypeOK
  <1>6. overtaken' \subseteq Object
    <2>1. ASSUME NEW d \in Caller, pc[d] = "listing"
          PROVE  machine[d] \in Object
      BY <2>1, ObjectFacts DEF Inv, Places
    <2> QED
      BY <2>1 DEF ServerEnds, Shutdown, ShutdownRegistrations, DropRegistrar,
                  CloseMachines, Inv, TypeOK
  <1>7. active' \subseteq {d \in Caller : Asking(d)'}
    BY <1>1, <1>3 DEF Inv, TypeOK, Asking
  <1>8. TypeOK'
    BY <1>1, <1>2, <1>4, <1>5, <1>6, <1>7 DEF Inv, TypeOK
  <1> QED
    BY <1>1, <1>8 DEF Quiet

-----------------------------------------------------------------------------
(***************************************************************************)
(* Steps that make an object, or list one.                                 *)
(***************************************************************************)
LEMMA BeginNewInv ==
    ASSUME Inv, NEW c \in Caller, NEW p \in Ident, pc[c] = "idle", BeginNew(c, p),
           UNCHANGED <<lists, requests, ending>>
    PROVE  Inv'
  <1> DEFINE k == Len(ident) + 1
  <1>1. UNCHANGED <<machines, entered, started, renewed, tries, active, cancelled, got,
                    doubled, doomed, run, stopped, overtaken>>
    BY DEF BeginNew, lists, requests, ending
  <1>2. Len(ident) \in Nat /\ MaxCalls \in Nat /\ renewed \in Nat
    BY ObjectFacts DEF Inv
  <1>3. k \in Object /\ k # NoObject /\ k \notin 1 .. Len(ident) /\ k + renewed <= MaxCalls
    BY <1>2 DEF BeginNew, Object, NoObject
  <1>4. /\ ident' \in Seq(Ident) /\ Len(ident') = k
        /\ ident'[k] = p
        /\ \A x \in 1 .. Len(ident) : ident'[x] = ident[x]
    BY DEF BeginNew, Inv, TypeOK
  <1>5. /\ maker' \in Seq(Caller) /\ Len(maker') = k
        /\ maker'[k] = c
        /\ \A x \in 1 .. Len(ident) : maker'[x] = maker[x]
    <2>1. maker \in Seq(Caller) /\ Len(maker) = Len(ident) /\ maker' = Append(maker, c)
      BY DEF BeginNew, Inv, TypeOK
    <2> QED
      BY <2>1, AppendProperties
  <1>6. /\ name' \in Seq(Seq(Nat)) /\ Len(name') = k
        /\ \A x \in 1 .. Len(ident) : name'[x] = name[x]
    <2>1. NoName \in Seq(Nat)
      BY DEF NoName
    <2> QED
      BY <2>1 DEF BeginNew, Inv, TypeOK
  <1>7. /\ machine' \in [Caller -> 0 .. k]
        /\ \A d \in Caller \ {c} : machine'[d] = machine[d]
        /\ machine'[c] = k
    <2>1. \A d \in Caller : machine[d] \in 0 .. k
      BY <1>2 DEF Inv, TypeOK
    <2>2. machine \in [Caller -> 0 .. k] /\ k \in 0 .. k
      BY <1>2, <2>1 DEF Inv, TypeOK
    <2>3. machine' = [machine EXCEPT ![c] = k]
      BY DEF BeginNew
    <2> HIDE DEF k
    <2> QED
      BY <2>2, <2>3
  <1>8. /\ pc' \in [Caller -> Places]
        /\ \A d \in Caller \ {c} : pc'[d] = pc[d]
        /\ pc'[c] = "scan"
    BY DEF BeginNew, Goto, Inv, TypeOK, Places
  <1>9. seen' \in [Caller -> SUBSET Ident]
    BY DEF BeginNew, Listed, Inv, TypeOK
  <1>10. ASSUME NEW d \in Caller
         PROVE  machine'[d] = NoObject <=> pc'[d] \in {"idle", "dead"}
    BY <1>3, <1>7, <1>8 DEF Inv, TypeOK
  <1>11. active' \subseteq {d \in Caller : Asking(d)'}
    <2>1. ASSUME NEW d \in active
          PROVE  d \in Caller /\ Asking(d) /\ pc'[d] = pc[d]
      BY <1>8, <2>1 DEF Inv, TypeOK, Asking
    <2> QED
      BY <1>1, <2>1 DEF Asking
  <1>12. /\ beside' = beside \cup {{machine[d], k} : d \in {e \in Caller : Makes(e)}}
         /\ beside' \subseteq SUBSET Object
    <2>1. ASSUME NEW d \in Caller, Makes(d)
          PROVE  machine[d] \in Object
      BY <2>1, ObjectFacts DEF Inv, Makes
    <2>2. beside' = beside \cup {{machine[d], k} : d \in {e \in Caller : Makes(e)}}
      BY DEF BeginNew
    <2>3. beside \subseteq SUBSET Object
      BY DEF Inv, TypeOK
    <2> HIDE DEF k
    <2>4. \A d \in {e \in Caller : Makes(e)} : {machine[d], k} \subseteq Object
      BY <1>3, <2>1
    <2> QED
      BY <2>2, <2>3, <2>4
  <1>13. entered \subseteq 1 .. Len(ident)
    BY DEF Inv, TypeOK
  <1>14. entered' \subseteq 1 .. Len(ident')
    BY <1>1, <1>2, <1>4, <1>13
  <1>15. TypeOK'
    <2> HIDE DEF k
    <2> QED
      BY <1>1, <1>3, <1>4, <1>5, <1>6, <1>7, <1>8, <1>9, <1>10, <1>11, <1>12, <1>14
      DEF Inv, TypeOK, Places
  <1> HIDE DEF k
  <1>16. Makes(c)' /\ machine'[c] = k
    BY <1>1, <1>3, <1>7, <1>13 DEF Makes
  <1>17. ASSUME NEW d \in Caller \ {c}
         PROVE  machine'[d] = machine[d] /\ (Makes(d)' <=> Makes(d)) /\ pc'[d] = pc[d]
    BY <1>1, <1>7, <1>8 DEF Makes
  <1>18. OwnObject'
    <2> SUFFICES ASSUME NEW d \in Caller, Makes(d)'
                 PROVE  maker'[machine'[d]] = d
      BY DEF OwnObject
    <2>1. CASE d = c
      BY <1>5, <1>16, <2>1
    <2>2. CASE d # c
      <3>1. Makes(d) /\ machine'[d] = machine[d]
        BY <1>17, <2>2
      <3>2. machine[d] \in 1 .. Len(ident)
        BY <3>1, ObjectFacts DEF Inv, Makes
      <3> QED
        BY <1>5, <3>1, <3>2 DEF Inv, OwnObject
    <2> QED
      BY <2>1, <2>2
  <1>19. ScanMakes'
    BY <1>16, <1>17 DEF Inv, ScanMakes
  <1>20. ListedEntered' /\ EnteredListed'
    BY <1>1, <1>4, <1>13 DEF Inv, ListedEntered, EnteredListed
  <1>21. MakersBeside'
    <2> SUFFICES ASSUME NEW d \in Caller, NEW e \in Caller, d # e, Makes(d)', Makes(e)'
                 PROVE  {machine'[d], machine'[e]} \in beside'
      BY DEF MakersBeside
    <2>1. CASE d # c /\ e # c
      BY <1>12, <1>17, <2>1 DEF Inv, MakersBeside
    <2>2. CASE e = c
      <3>1. Makes(d) /\ machine'[d] = machine[d] /\ machine'[e] = k
        BY <1>16, <1>17, <2>2
      <3> QED
        BY <1>12, <3>1
    <2>3. CASE d = c
      <3>1. Makes(e) /\ machine'[e] = machine[e] /\ machine'[d] = k
        BY <1>16, <1>17, <2>3
      <3>2. {machine[e], k} \in beside'
        BY <1>12, <3>1
      <3>3. {machine[e], k} = {k, machine[e]}
        OBVIOUS
      <3> QED
        BY <3>1, <3>2, <3>3
    <2> QED
      BY <2>1, <2>2, <2>3
  <1> QED
    BY <1>15, <1>18, <1>19, <1>20, <1>21 DEF Inv

\* Two callers never make one object.
LEMMA OneEach ==
    ASSUME Inv, NEW c \in Caller, NEW d \in Caller, Makes(c), machine[d] = machine[c]
    PROVE  c = d
  <1>1. Makes(d)
    BY DEF Makes
  <1> QED
    BY <1>1 DEF Inv, OwnObject

LEMMA ListFacts ==
    ASSUME Inv, NEW c \in Caller, List(c)
    PROVE  /\ machine[c] \in 1 .. Len(ident) /\ About(c) \in Ident
           /\ entered' = entered \cup {machine[c]}
           /\ Makes(c) => /\ machines'[About(c)] = machine[c]
                          /\ \A p \in Ident \ {About(c)} : machines'[p] = machines[p]
           /\ ~Makes(c) => machines' = machines
           /\ machines' \in [Ident -> Object \cup {NoObject}]
           /\ UNCHANGED <<ident, maker, name, beside, renewed, active, run, stopped,
                          overtaken>>
           /\ Return(c, "idle")
           /\ pc[c] = "listing"
  <1>1. pc[c] = "listing"
    BY DEF List
  <1>2. machine[c] \in 1 .. Len(ident) /\ About(c) \in Ident /\ machine[c] \in Object
    BY <1>1, ObjectFacts DEF Inv, About, Places
  <1>3. /\ entered' = entered \cup {machine[c]}
        /\ machines' = IF Makes(c) THEN [machines EXCEPT ![About(c)] = machine[c]]
                                   ELSE machines
        /\ UNCHANGED <<ident, maker, name, beside, renewed, active, run, stopped,
                       overtaken>>
        /\ Return(c, "idle")
    BY DEF List, objects, ending
  <1>4. machines \in [Ident -> Object \cup {NoObject}]
    BY DEF Inv, TypeOK
  <1> QED
    BY <1>1, <1>2, <1>3, <1>4

LEMMA ListInv == ASSUME Inv, NEW c \in Caller, List(c) PROVE Inv'
  <1> DEFINE k == machine[c]
             p == About(c)
  <1>1. /\ k \in 1 .. Len(ident) /\ p \in Ident /\ p = ident[k]
        /\ entered' = entered \cup {k}
        /\ Makes(c) => /\ machines'[p] = k
                       /\ \A q \in Ident \ {p} : machines'[q] = machines[q]
        /\ ~Makes(c) => machines' = machines
        /\ machines' \in [Ident -> Object \cup {NoObject}]
        /\ UNCHANGED <<ident, maker, name, beside, renewed, active, run, stopped,
                       overtaken>>
        /\ Return(c, "idle")
        /\ pc[c] = "listing"
    BY ListFacts DEF About
  <1>2. /\ pc' \in [Caller -> Places]
        /\ machine' \in [Caller -> 0 .. Len(ident)]
        /\ \A d \in Caller : machine'[d] = NoObject <=> pc'[d] \in {"idle", "dead"}
        /\ tries' \in [Caller -> Nat]
        /\ seen' \in [Caller -> SUBSET Ident]
        /\ cancelled' \subseteq Caller
        /\ got' \subseteq Caller
        /\ doubled' \subseteq Caller
        /\ doomed' \subseteq Caller
        /\ \A d \in Caller \ {c} : pc'[d] = pc[d] /\ machine'[d] = machine[d]
        /\ pc'[c] = "idle" /\ machine'[c] = NoObject
    BY <1>1, ReturnType DEF Inv
  <1>3. started' \subseteq entered'
    BY DEF List, Inv, TypeOK
  <1>4. active' \subseteq {d \in Caller : Asking(d)'}
    <2>1. ASSUME NEW d \in active
          PROVE  d \in Caller /\ Asking(d) /\ pc'[d] = pc[d]
      BY <1>1, <1>2, <2>1 DEF Inv, TypeOK, Asking
    <2> QED
      BY <1>1, <2>1 DEF Asking
  <1>5. entered' \subseteq 1 .. Len(ident') /\ stopped' \subseteq entered'
    BY <1>1 DEF Inv, TypeOK
  <1>6. TypeOK'
    <2> HIDE DEF k, p
    <2> QED
      BY <1>1, <1>2, <1>3, <1>4, <1>5 DEF Inv, TypeOK, Places
  <1>7. k # NoObject /\ (Makes(c) <=> k \notin entered)
    <2>1. k # NoObject
      BY <1>1, ObjectFacts DEF Inv, NoObject
    <2> QED
      BY <2>1 DEF Makes
  <1>8. ASSUME NEW d \in Caller, Makes(d)'
        PROVE  d # c /\ machine'[d] = machine[d] /\ Makes(d)
    BY <1>1, <1>2, <1>8 DEF Makes
  <1>9. OwnObject'
    BY <1>1, <1>8 DEF Inv, OwnObject
  <1>10. ScanMakes'
    <2> SUFFICES ASSUME NEW d \in Caller, pc'[d] = "scan"
                 PROVE  Makes(d)'
      BY DEF ScanMakes
    <2>1. d # c /\ pc[d] = "scan" /\ machine'[d] = machine[d]
      BY <1>2
    <2>2. Makes(d)
      BY <2>1 DEF Inv, ScanMakes
    <2>3. machine[d] # k
      BY <2>1, <2>2, OneEach
    <2> QED
      BY <1>1, <2>1, <2>2, <2>3 DEF Makes
  <1>11. ListedEntered'
    <2> SUFFICES ASSUME NEW q \in Ident, machines'[q] # NoObject
                 PROVE  machines'[q] \in entered' /\ ident[machines'[q]] = q
      BY <1>1 DEF ListedEntered
    <2>1. CASE Makes(c) /\ q = p
      BY <1>1, <2>1
    <2>2. CASE ~(Makes(c) /\ q = p)
      <3>1. machines'[q] = machines[q]
        BY <1>1, <2>2
      <3> QED
        BY <1>1, <3>1 DEF Inv, ListedEntered
    <2> QED
      BY <2>1, <2>2
  <1>12. EnteredListed'
    <2> SUFFICES ASSUME NEW x \in entered'
                 PROVE  machines'[ident[x]] # NoObject
      BY <1>1 DEF EnteredListed
    <2>1. CASE Makes(c) /\ ident[x] = p
      BY <1>1, <1>7, <2>1
    <2>2. CASE ~(Makes(c) /\ ident[x] = p)
      <3>1. x \in entered
        BY <1>1, <1>7, <2>2
      <3>2. ident[x] \in Ident
        BY <3>1, ObjectFacts DEF Inv, TypeOK
      <3>3. machines'[ident[x]] = machines[ident[x]]
        BY <1>1, <2>2, <3>2
      <3> QED
        BY <3>1, <3>3 DEF Inv, EnteredListed
    <2> QED
      BY <2>1, <2>2
  <1>13. MakersBeside'
    BY <1>1, <1>8 DEF Inv, MakersBeside
  <1> QED
    BY <1>6, <1>9, <1>10, <1>11, <1>12, <1>13 DEF Inv

LEMMA QuietIsCalm == Quiet => Calm
  BY DEF Quiet, Calm

\* Every step is a quiet one, gives a name, makes an object or lists one.
LEMMA StepCases ==
    ASSUME Inv, [Next]_vars
    PROVE  \/ TypeOK' /\ Quiet
           \/ \E c \in Caller : /\ TypeOK' /\ Calm /\ NameFree(c) /\ pc[c] = "scan"
                                /\ UNCHANGED <<lists, ident, maker, beside, renewed, ending>>
           \/ \E c \in Caller, p \in Ident :
                 /\ pc[c] = "idle"
                 /\ BeginNew(c, p)
                 /\ UNCHANGED <<lists, requests, ending>>
                 /\ c \in Browser => \A d \in Browser : pc[d] \in {"idle", "dead"}
           \/ \E c \in Caller : List(c)
  <1>1. ASSUME NEW c \in Caller, NEW p \in Ident,
               AddService(c, p) \/ ManualRegistration(c, p)
        PROVE  \/ TypeOK' /\ Quiet
               \/ /\ pc[c] = "idle"
                  /\ BeginNew(c, p)
                  /\ UNCHANGED <<lists, requests, ending>>
                  /\ c \in Browser => \A d \in Browser : pc[d] \in {"idle", "dead"}
    <2>1. /\ pc[c] = "idle"
          /\ BeginNew(c, p) \/ BeginKnown(c, p)
          /\ UNCHANGED <<lists, requests, ending>>
      BY <1>1 DEF AddService, ManualRegistration, Begin
    <2>2. c \in Browser => \A d \in Browser : pc[d] \in {"idle", "dead"}
      BY <1>1, CallersAssumption DEF AddService, ManualRegistration
    <2>3. CASE BeginKnown(c, p)
      BY <2>1, <2>3, BeginKnownInv
    <2> QED
      BY <2>1, <2>2, <2>3
  <1>2. ASSUME NEW c \in Caller, EnsureUniqueHostname(c)
        PROVE  \/ TypeOK' /\ Quiet
               \/ /\ TypeOK' /\ Calm /\ NameFree(c) /\ pc[c] = "scan"
                  /\ UNCHANGED <<lists, ident, maker, beside, renewed, ending>>
    <2>1. /\ pc[c] = "scan"
          /\ UNCHANGED <<lists, ident, maker, beside, renewed, ending>>
      BY <1>2 DEF EnsureUniqueHostname
    <2> QED
      BY <1>2, <2>1, EnsureInv
  <1>3. ASSUME NEW c \in Caller,
               Register(c) \/ Answered(c) \/ ProcessRemoteCert(c) \/ Check(c)
        PROVE  TypeOK' /\ Quiet
    BY <1>3, RegisterInv, AnsweredInv, ProcessInv, CheckInv
  <1>4. CASE ServerEnds
    BY <1>4, EndsInv
  <1>5. CASE UNCHANGED vars
    <2>1. UNCHANGED <<machines, entered, ident, maker, name, beside, started, stopped, pc,
                      renewed, machine, tries, seen, active, cancelled, got, run, doubled,
                      doomed, overtaken>>
      BY <1>5 DEF vars, lists, objects, search, requests, ending
    <2>2. TypeOK'
      BY <2>1 DEF Inv, TypeOK, Asking
    <2> QED
      BY <2>1, <2>2 DEF Quiet
  <1>6. CASE \E c \in Caller, p \in Ident : AddService(c, p) \/ ManualRegistration(c, p)
    BY <1>1, <1>6
  <1>7. CASE \E c \in Caller : Call(c)
    <2>1. PICK c \in Caller : Call(c)
      BY <1>7
    <2>2. CASE EnsureUniqueHostname(c)
      BY <1>2, <2>2
    <2>3. CASE Register(c) \/ Answered(c) \/ ProcessRemoteCert(c) \/ Check(c)
      BY <1>3, <2>3
    <2>4. CASE List(c)
      BY <2>4
    <2> QED
      BY <2>1, <2>2, <2>3, <2>4 DEF Call
  <1> QED
    BY <1>4, <1>5, <1>6, <1>7 DEF Next

LEMMA InvNext == Inv /\ [Next]_vars => Inv'
  <1> SUFFICES ASSUME Inv, [Next]_vars
               PROVE  Inv'
    OBVIOUS
  <1>1. CASE TypeOK' /\ (Quiet \/ Calm)
    BY <1>1, CalmInv, QuietIsCalm
  <1>2. ASSUME NEW c \in Caller, NEW p \in Ident, pc[c] = "idle", BeginNew(c, p),
               UNCHANGED <<lists, requests, ending>>
        PROVE  Inv'
    BY <1>2, BeginNewInv
  <1>3. ASSUME NEW c \in Caller, List(c) PROVE Inv'
    BY <1>3, ListInv
  <1> QED
    BY <1>1, <1>2, <1>3, StepCases

\* Every variable keeps its type: a caller has a machine exactly while it deals with
\* one, and every machine whose thread was started, or that was shut down, was listed.
\* (server.add_service, handle_manual_service_registration, Registrar)
THEOREM TypeCorrect == Spec => []TypeOK
  <1>1. Inv => TypeOK
    BY DEF Inv
  <1> QED
    BY <1>1, InitInv, InvNext, PTL DEF Spec

-----------------------------------------------------------------------------
(***************************************************************************)
(* One machine for a service.                                              *)
(***************************************************************************)

\* The objects that are listed, were listed, or will be
Live == entered \cup {machine[c] : c \in {d \in Caller : Makes(d)}}

\* Two objects were made at the same time, and not by two browsers.
Excused(x, y) == {x, y} \in beside /\ {maker[x], maker[y]} \cap Manual # {}

LivePairs ==
    \A x, y \in Live : x # y /\ ident[x] = ident[y] => Excused(x, y)

LEMMA LiveType == ASSUME Inv PROVE Live \subseteq 1 .. Len(ident)
  <1>1. entered \subseteq 1 .. Len(ident)
    BY DEF Inv, TypeOK
  <1>2. ASSUME NEW c \in Caller, Makes(c)
        PROVE  machine[c] \in 1 .. Len(ident)
    BY <1>2, ObjectFacts DEF Inv, Makes
  <1> QED
    BY <1>1, <1>2 DEF Live

LEMMA LivePairsNext == LivePairs /\ Inv /\ [Next]_vars => LivePairs'
  <1> SUFFICES ASSUME LivePairs, Inv, [Next]_vars
               PROVE  LivePairs'
    OBVIOUS
  <1>1. ASSUME Live' \subseteq Live, UNCHANGED <<ident, maker, beside>>
        PROVE  LivePairs'
    BY <1>1 DEF LivePairs, Excused
  <1>2. CASE Calm
    <2>1. UNCHANGED <<ident, maker, beside, entered>>
      BY <1>2 DEF Calm
    <2>2. ASSUME NEW c \in Caller, Makes(c)'
          PROVE  machine'[c] = machine[c] /\ Makes(c)
      BY <1>2, <2>2 DEF Calm, Makes
    <2>3. Live' \subseteq Live
      BY <2>1, <2>2 DEF Live
    <2> QED
      BY <1>1, <2>1, <2>3
  <1>3. ASSUME NEW c \in Caller, List(c)
        PROVE  LivePairs'
    <2>1. /\ UNCHANGED <<ident, maker, beside>>
          /\ entered' = entered \cup {machine[c]}
          /\ machine[c] \in 1 .. Len(ident)
          /\ Return(c, "idle")
      BY <1>3, ListFacts
    <2>2. /\ \A d \in Caller \ {c} : machine'[d] = machine[d]
          /\ machine'[c] = NoObject
      BY <2>1, ReturnType DEF Inv
    <2>3. machine[c] \in Live
      <3>1. machine[c] # NoObject
        BY <1>3, ObjectFacts DEF List, Inv, Places
      <3>2. machine[c] \in entered \/ Makes(c)
        BY <3>1 DEF Makes
      <3> QED
        BY <3>2 DEF Live
    <2>4. ASSUME NEW d \in Caller, Makes(d)'
          PROVE  machine'[d] = machine[d] /\ Makes(d)
      BY <2>1, <2>2, <2>4 DEF Makes
    <2>5. Live' \subseteq Live
      BY <2>1, <2>3, <2>4 DEF Live
    <2> QED
      BY <1>1, <2>1, <2>5
  <1>4. ASSUME NEW c \in Caller, NEW p \in Ident, pc[c] = "idle", BeginNew(c, p),
               UNCHANGED <<lists, requests, ending>>,
               c \in Browser => \A d \in Browser : pc[d] \in {"idle", "dead"}
        PROVE  LivePairs'
    <2>0. PICK k \in Nat : k = Len(ident) + 1
      BY ObjectFacts DEF Inv
    <2>1. /\ ident' = Append(ident, p) /\ maker' = Append(maker, c)
          /\ beside' = beside \cup {{machine[d], k} : d \in {e \in Caller : Makes(e)}}
          /\ machine' = [machine EXCEPT ![c] = k]
          /\ machines[p] = NoObject
          /\ entered' = entered
      BY <1>4, <2>0 DEF BeginNew, lists
    <2>2. /\ ident \in Seq(Ident) /\ maker \in Seq(Caller) /\ Len(maker) = Len(ident)
          /\ Len(ident) \in Nat /\ machine \in [Caller -> 0 .. Len(ident)]
      BY DEF Inv, TypeOK
    <2>3. /\ ident'[k] = p
          /\ \A x \in 1 .. Len(ident) : ident'[x] = ident[x] /\ x # k
      BY <2>0, <2>1, <2>2, AppendProperties
    <2>4. /\ maker'[k] = c
          /\ \A x \in 1 .. Len(ident) : maker'[x] = maker[x]
      BY <2>0, <2>1, <2>2, AppendProperties
    <2>5. /\ \A d \in Caller \ {c} : machine'[d] = machine[d]
          /\ machine'[c] = k
      BY <2>1, <2>2
    <2>6. Live' \subseteq Live \cup {k}
      <3>1. ASSUME NEW d \in Caller, Makes(d)'
            PROVE  machine'[d] \in Live \cup {k}
        <4>1. CASE d = c
          BY <2>5, <4>1
        <4>2. CASE d # c
          <5>1. Makes(d) /\ machine'[d] = machine[d]
            BY <2>1, <2>5, <3>1, <4>2 DEF Makes
          <5> QED
            BY <5>1 DEF Live
        <4> QED
          BY <4>1, <4>2
      <3> QED
        BY <2>1, <3>1 DEF Live
    <2>7. ASSUME NEW y \in Live, ident[y] = p
          PROVE  Excused(y, k)' /\ Excused(k, y)'
      <3>1. y \notin entered
        BY <2>1, <2>7 DEF Inv, EnteredListed
      <3>2. PICK d \in Caller : Makes(d) /\ y = machine[d]
        BY <3>1 DEF Live
      <3>3. {y, k} \in beside' /\ {k, y} = {y, k}
        BY <2>1, <3>2
      <3>4. maker'[y] = d
        <4>1. maker[y] = d
          BY <3>2 DEF Inv, OwnObject
        <4> QED
          BY <2>4, <4>1, LiveType
      <3>5. pc[d] \notin {"idle", "dead"}
        BY <3>2, ObjectFacts DEF Inv, Makes
      <3>6. c \in Manual \/ d \in Manual
        BY <1>4, <3>5 DEF Caller
      <3>7. c \in {maker'[y], maker'[k]} /\ d \in {maker'[y], maker'[k]}
        BY <2>4, <3>4
      <3>8. {maker'[y], maker'[k]} \cap Manual # {}
        BY <3>6, <3>7
      <3>9. {maker'[k], maker'[y]} = {maker'[y], maker'[k]}
        OBVIOUS
      <3> QED
        BY <3>3, <3>8, <3>9 DEF Excused
    <2>8. ASSUME NEW x \in Live, NEW y \in Live, x # y, ident[x] = ident[y]
          PROVE  Excused(x, y)'
      BY <2>1, <2>4, <2>8, LiveType DEF LivePairs, Excused
    <2>9. \A x \in Live : ident'[x] = ident[x] /\ x # k
      BY <2>3, LiveType
    <2> SUFFICES ASSUME NEW x \in Live', NEW y \in Live', x # y, ident'[x] = ident'[y]
                 PROVE  Excused(x, y)'
      BY DEF LivePairs
    <2>10. CASE x \in Live /\ y \in Live
      BY <2>8, <2>9, <2>10
    <2>11. CASE x = k
      <3>1. y \in Live
        BY <2>6, <2>11
      <3> QED
        BY <2>3, <2>7, <2>9, <2>11, <3>1
    <2>12. CASE y = k
      <3>1. x \in Live
        BY <2>6, <2>12
      <3> QED
        BY <2>3, <2>7, <2>9, <2>12, <3>1
    <2> QED
      BY <2>6, <2>10, <2>11, <2>12
  <1> QED
    BY <1>2, <1>3, <1>4, StepCases, QuietIsCalm

\* A service has one machine with one connection thread, unless two were made at the
\* same time and not by two browsers, for any number of services, threads and calls.
\* (server.add_service, handle_manual_service_registration)
THEOREM OneMachineEach == Spec => []OneMachine
  <1>1. Init => LivePairs
    BY DEF Init, LivePairs, Live, Makes
  <1>2. LivePairs /\ Inv => OneMachine
    BY DEF LivePairs, Excused, Live, OneMachine, Inv, TypeOK
  <1> QED
    BY <1>1, <1>2, InitInv, InvNext, LivePairsNext, PTL DEF Spec

-----------------------------------------------------------------------------
(***************************************************************************)
(* One machine for a name.                                                 *)
(***************************************************************************)

\* An object that has its name shares it with a listed one only if they were made at
\* the same time.
NamesApart ==
    \A c \in Caller, p \in Ident :
        Makes(c) /\ pc[c] # "scan" /\ machines[p] # NoObject
        /\ name[machines[p]] = name[machine[c]]
            => {machines[p], machine[c]} \in beside

Names == UniqueNames /\ NamesApart

\* Listed objects are not made any more.
LEMMA ListedMade ==
    ASSUME Inv, NEW c \in Caller, Makes(c), NEW p \in Ident, machines[p] # NoObject
    PROVE  machines[p] # machine[c] /\ machines[p] \in 1 .. Len(ident)
                                    /\ machine[c] \in 1 .. Len(ident)
  <1>1. machines[p] \in entered /\ entered \subseteq 1 .. Len(ident)
    BY DEF Inv, ListedEntered, TypeOK
  <1>2. machine[c] \in 1 .. Len(ident)
    BY ObjectFacts DEF Inv, Makes
  <1> QED
    BY <1>1, <1>2 DEF Makes

LEMMA NamesQuiet == ASSUME Names, Inv, Quiet PROVE Names'
  <1>1. UNCHANGED <<machines, entered, name, beside>>
    BY DEF Quiet
  <1>2. UniqueNames'
    BY <1>1 DEF Names, UniqueNames, Listed
  <1>3. ASSUME NEW c \in Caller, Makes(c)', pc'[c] # "scan"
        PROVE  machine'[c] = machine[c] /\ Makes(c) /\ pc[c] # "scan"
    BY <1>3 DEF Quiet, Makes
  <1>4. NamesApart'
    BY <1>1, <1>3 DEF Names, NamesApart
  <1> QED
    BY <1>2, <1>4 DEF Names

\* The name that is given is free.
LEMMA NamesFree ==
    ASSUME Names, Inv, NEW c \in Caller, Calm, NameFree(c), pc[c] = "scan",
           UNCHANGED <<lists, ident, maker, beside, renewed, ending>>
    PROVE  Names'
  <1>1. /\ name'[machine[c]] = Wanted(c)
        /\ \A k \in 1 .. Len(ident) : k # machine[c] => name'[k] = name[k]
    BY NameFreeInv
  <1>2. UNCHANGED <<machines, entered, beside, machine>> /\ Makes(c)
    BY DEF lists, NameFree, Inv, ScanMakes
  <1>3. \A d \in Caller \ {c} : pc'[d] = pc[d]
    BY DEF NameFree, Goto, Inv, TypeOK
  <1>4. ASSUME NEW p \in Ident, machines[p] # NoObject
        PROVE  /\ name'[machines[p]] = name[machines[p]]
               /\ name[machines[p]] # Wanted(c)
    <2>1. name'[machines[p]] = name[machines[p]]
      BY <1>1, <1>2, <1>4, ListedMade
    <2>2. p \in seen[c] /\ Free(c)
      BY <1>4 DEF NameFree, Listed
    <2> QED
      BY <2>1, <2>2 DEF Free
  <1>5. UniqueNames'
    BY <1>2, <1>4 DEF Names, UniqueNames, Listed
  <1>6. NamesApart'
    <2> SUFFICES ASSUME NEW d \in Caller, NEW p \in Ident, Makes(d)', pc'[d] # "scan",
                        machines[p] # NoObject, name'[machines[p]] = name'[machine[d]]
                 PROVE  {machines[p], machine[d]} \in beside
      BY <1>2 DEF NamesApart
    <2>1. d # c
      BY <1>1, <1>4
    <2>2. Makes(d) /\ pc[d] # "scan"
      BY <1>2, <1>3, <2>1 DEF Makes
    <2>3. machine[d] # machine[c]
      BY <1>2, <2>1, OneEach
    <2>4. machine[d] \in 1 .. Len(ident)
      BY <2>2, ObjectFacts DEF Inv, Makes
    <2>5. name[machines[p]] = name[machine[d]]
      BY <1>1, <1>4, <2>3, <2>4
    <2> QED
      BY <2>2, <2>5 DEF Names, NamesApart
  <1> QED
    BY <1>5, <1>6 DEF Names

\* A new object has no name yet.
LEMMA NamesBegin ==
    ASSUME Names, Inv, NEW c \in Caller, NEW p \in Ident, BeginNew(c, p),
           UNCHANGED <<lists, requests, ending>>
    PROVE  Names'
  <1>1. /\ name' = Append(name, NoName)
        /\ beside \subseteq beside'
        /\ UNCHANGED <<machines, entered>>
    BY DEF BeginNew, lists
  <1>2. name \in Seq(Seq(Nat)) /\ NoName \in Seq(Nat) /\ Len(name) = Len(ident)
    BY DEF Inv, TypeOK, NoName
  <1>3. \A k \in 1 .. Len(ident) : name'[k] = name[k]
    BY <1>1, <1>2, AppendProperties
  <1>4. \A q \in Ident : machines[q] # NoObject => machines[q] \in 1 .. Len(ident)
    BY DEF Inv, ListedEntered, TypeOK
  <1>5. /\ pc'[c] = "scan"
        /\ \A d \in Caller \ {c} : pc'[d] = pc[d] /\ machine'[d] = machine[d]
    BY DEF BeginNew, Goto, Inv, TypeOK
  <1>6. UniqueNames'
    BY <1>1, <1>3, <1>4 DEF Names, UniqueNames, Listed
  <1>7. NamesApart'
    <2> SUFFICES ASSUME NEW d \in Caller, NEW q \in Ident, Makes(d)', pc'[d] # "scan",
                        machines[q] # NoObject, name'[machines[q]] = name'[machine'[d]]
                 PROVE  {machines[q], machine'[d]} \in beside
      BY <1>1 DEF NamesApart
    <2>1. machine'[d] = machine[d] /\ Makes(d) /\ pc[d] # "scan"
      BY <1>1, <1>5 DEF Makes
    <2>2. machine[d] \in 1 .. Len(ident)
      BY <2>1, ObjectFacts DEF Inv, Makes
    <2>3. name[machines[q]] = name[machine[d]]
      BY <1>3, <1>4, <2>1, <2>2
    <2> QED
      BY <2>1, <2>3 DEF Names, NamesApart
  <1> QED
    BY <1>6, <1>7 DEF Names

\* What is listed is apart from the others, and from those that are to be listed.
LEMMA NamesList ==
    ASSUME Names, Inv, NEW c \in Caller, List(c)
    PROVE  Names'
  <1>1. /\ machine[c] \in 1 .. Len(ident) /\ About(c) \in Ident
        /\ entered' = entered \cup {machine[c]}
        /\ Makes(c) => /\ machines'[About(c)] = machine[c]
                       /\ \A q \in Ident \ {About(c)} : machines'[q] = machines[q]
        /\ ~Makes(c) => machines' = machines
        /\ UNCHANGED <<name, beside>>
        /\ Return(c, "idle")
        /\ pc[c] = "listing"
    BY ListFacts
  <1>2. /\ \A d \in Caller \ {c} : pc'[d] = pc[d] /\ machine'[d] = machine[d]
        /\ machine'[c] = NoObject
    BY <1>1, ReturnType DEF Inv
  <1>3. ASSUME NEW d \in Caller, Makes(d)'
        PROVE  d # c /\ Makes(d) /\ machine'[d] = machine[d] /\ pc'[d] = pc[d]
    BY <1>1, <1>2, <1>3 DEF Makes
  <1>4. CASE ~Makes(c)
    <2>1. machines' = machines
      BY <1>1, <1>4
    <2> QED
      BY <1>1, <1>3, <2>1 DEF Names, UniqueNames, NamesApart, Listed
  <1>5. CASE Makes(c)
    <2> DEFINE p == About(c)
    <2>1. /\ p \in Ident
          /\ machines'[p] = machine[c]
          /\ \A q \in Ident \ {p} : machines'[q] = machines[q]
      BY <1>1, <1>5
    <2>2. ASSUME NEW q \in Ident \ {p}, machines'[q] # NoObject,
                 name[machines'[q]] = name[machine[c]]
          PROVE  {machines'[q], machine[c]} \in beside
      BY <1>1, <1>5, <2>1, <2>2 DEF Names, NamesApart
    <2>3. UniqueNames'
      <3> SUFFICES ASSUME NEW x \in Ident, NEW y \in Ident, x # y,
                          machines'[x] # NoObject, machines'[y] # NoObject,
                          name[machines'[x]] = name[machines'[y]]
                   PROVE  {machines'[x], machines'[y]} \in beside
        BY <1>1 DEF UniqueNames, Listed
      <3>1. CASE x = p
        <4>1. {machines'[y], machine[c]} \in beside
          BY <2>1, <2>2, <3>1
        <4>2. {machines'[y], machine[c]} = {machines'[x], machines'[y]}
          BY <2>1, <3>1
        <4> QED
          BY <4>1, <4>2
      <3>2. CASE y = p
        BY <2>1, <2>2, <3>2
      <3>3. CASE x # p /\ y # p
        BY <2>1, <3>3 DEF Names, UniqueNames, Listed
      <3> QED
        BY <3>1, <3>2, <3>3
    <2>4. NamesApart'
      <3> SUFFICES ASSUME NEW d \in Caller, NEW q \in Ident, Makes(d)', pc'[d] # "scan",
                          machines'[q] # NoObject,
                          name[machines'[q]] = name[machine'[d]]
                   PROVE  {machines'[q], machine'[d]} \in beside
        BY <1>1 DEF NamesApart
      <3>1. d # c /\ Makes(d) /\ machine'[d] = machine[d] /\ pc[d] # "scan"
        BY <1>3
      <3>2. CASE q = p
        BY <1>5, <2>1, <3>1, <3>2 DEF Inv, MakersBeside
      <3>3. CASE q # p
        BY <2>1, <3>1, <3>3 DEF Names, NamesApart
      <3> QED
        BY <3>2, <3>3
    <2> QED
      BY <2>3, <2>4 DEF Names
  <1> QED
    BY <1>4, <1>5

LEMMA NamesNext == Names /\ Inv /\ [Next]_vars => Names'
  <1> SUFFICES ASSUME Names, Inv, [Next]_vars
               PROVE  Names'
    OBVIOUS
  <1>1. CASE TypeOK' /\ Quiet
    BY <1>1, NamesQuiet
  <1>2. ASSUME NEW c \in Caller, Calm, NameFree(c), pc[c] = "scan",
               UNCHANGED <<lists, ident, maker, beside, renewed, ending>>
        PROVE  Names'
    BY <1>2, NamesFree
  <1>3. ASSUME NEW c \in Caller, NEW p \in Ident, BeginNew(c, p),
               UNCHANGED <<lists, requests, ending>>
        PROVE  Names'
    BY <1>3, NamesBegin
  <1>4. ASSUME NEW c \in Caller, List(c)
        PROVE  Names'
    BY <1>4, NamesList
  <1> QED
    BY <1>1, <1>2, <1>3, <1>4, StepCases

\* No two machines are listed under one name, unless they were made at the same time,
\* for any services and host names.  (server.ensure_unique_hostname)
THEOREM NamesAreUnique == Spec => []UniqueNames
  <1>1. Init => Names
    BY DEF Init, Names, UniqueNames, NamesApart, Listed
  <1>2. Names => UniqueNames
    BY DEF Names
  <1> QED
    BY <1>1, <1>2, InitInv, InvNext, NamesNext, PTL DEF Spec

-----------------------------------------------------------------------------
(***************************************************************************)
(* Browsers go on.                                                         *)
(***************************************************************************)
\* A caller that has no call
Outside == {"idle", "dead"}

\* browser_mutex: one browser at a time has a call.
OneBrowser ==
    \A b, d \in Browser : b # d => pc[b] \in Outside \/ pc[d] \in Outside

ByHand == \E k \in entered : maker[k] \in Manual

\* What a browser iterates over changes only if a machine is registered by hand.
SeenSafe == \A b \in Browser : pc[b] = "scan" => seen[b] = Listed \/ ByHand

Browsers == OneBrowser /\ SeenSafe /\ BrowsersGoOn

\* A step of the call of c that lists nothing
LEMMA BrowserStep ==
    ASSUME Browsers, Inv, NEW c \in Caller, pc[c] \notin Outside,
           UNCHANGED <<machines, entered, maker, run>>,
           \A d \in Caller \ {c} : pc'[d] = pc[d] /\ seen'[d] = seen[d],
           pc'[c] = "scan" => seen'[c] = Listed,
           c \in Browser /\ pc'[c] = "dead" =>
               run \in {"deaf", "over"} \/ (pc[c] = "scan" /\ seen[c] # Listed)
    PROVE  Browsers'
  <1>1. OneBrowser'
    BY DEF Browsers, OneBrowser, Caller
  <1>2. Listed' = Listed /\ ByHand' = ByHand
    BY DEF Listed, ByHand
  <1>3. SeenSafe'
    BY <1>2 DEF Browsers, SeenSafe, Caller
  <1>4. BrowsersGoOn'
    <2> SUFFICES ASSUME NEW b \in Browser, pc'[b] = "dead"
                 PROVE  run \in {"deaf", "over"} \/ ByHand
      BY <1>2 DEF BrowsersGoOn, ByHand
    <2>1. CASE b = c
      BY <2>1 DEF Browsers, SeenSafe
    <2>2. CASE b # c
      BY <2>2 DEF Browsers, BrowsersGoOn, ByHand, Caller
    <2> QED
      BY <2>1, <2>2
  <1> QED
    BY <1>1, <1>3, <1>4 DEF Browsers

\* A caller's locals
LEMMA ReturnLocals ==
    ASSUME Inv, NEW c \in Caller, NEW l, Return(c, l)
    PROVE  /\ pc'[c] = l
           /\ \A d \in Caller \ {c} : pc'[d] = pc[d] /\ seen'[d] = seen[d]
  BY DEF Return, Goto, Inv, TypeOK

LEMMA GotoLocals ==
    ASSUME Inv, NEW c \in Caller, NEW l, Goto(c, l), seen' = seen
    PROVE  /\ pc'[c] = l
           /\ \A d \in Caller \ {c} : pc'[d] = pc[d] /\ seen'[d] = seen[d]
  BY DEF Goto, Inv, TypeOK

\* A caller that leaves a name's search, or never was in it
LEMMA BrowserCall ==
    ASSUME Browsers, Inv, NEW c \in Caller,
           \/ EnsureUniqueHostname(c) \/ Register(c) \/ Answered(c)
           \/ ProcessRemoteCert(c) \/ Check(c)
    PROVE  Browsers'
  <1>1. UNCHANGED <<machines, entered, maker, run>> /\ pc[c] \notin Outside
    BY DEF EnsureUniqueHostname, Register, Answered, ProcessRemoteCert, Check, lists,
           objects, ending, Outside
  <1>2. ASSUME NEW l \in {"register", "asking", "storing", "checking", "listing"},
               Goto(c, l), seen' = seen
        PROVE  Browsers'
    BY <1>1, <1>2, GotoLocals, BrowserStep
  <1>3. ASSUME Return(c, "idle")
        PROVE  Browsers'
    BY <1>1, <1>3, ReturnLocals, BrowserStep
  <1>4. ASSUME Raise(c), run \in {"deaf", "over"} \/ (pc[c] = "scan" /\ seen[c] # Listed)
        PROVE  Browsers'
    <2>1. PICK l \in {"idle", "dead"} : Return(c, l)
      BY <1>4 DEF Raise
    <2>2. /\ pc'[c] = l
          /\ \A d \in Caller \ {c} : pc'[d] = pc[d] /\ seen'[d] = seen[d]
      BY <2>1, ReturnLocals
    <2> QED
      BY <1>1, <1>4, <2>2, BrowserStep
  <1>5. CASE EnsureUniqueHostname(c)
    <2>1. CASE NameTaken(c)
      <3>1. /\ pc' = pc
            /\ seen' = [seen EXCEPT ![c] = Listed]
        BY <2>1 DEF NameTaken
      <3>2. /\ seen'[c] = Listed
            /\ \A d \in Caller \ {c} : pc'[d] = pc[d] /\ seen'[d] = seen[d]
        BY <3>1 DEF Inv, TypeOK
      <3>3. pc'[c] # "dead"
        BY <1>1, <3>1 DEF Outside
      <3> QED
        BY <1>1, <3>2, <3>3, BrowserStep
    <2>2. CASE NameFree(c)
      BY <1>2, <2>2 DEF NameFree, search
    <2>3. CASE ListChanged(c)
      BY <1>4, <1>5, <2>3 DEF ListChanged, EnsureUniqueHostname
    <2> QED
      BY <1>5, <2>1, <2>2, <2>3 DEF EnsureUniqueHostname
  <1>6. CASE Register(c)
    BY <1>2, <1>4, <1>6 DEF Register, Requested, search
  <1>7. CASE Answered(c)
    BY <1>2, <1>7 DEF Answered, search
  <1>8. CASE ProcessRemoteCert(c)
    BY <1>2, <1>3, <1>8 DEF ProcessRemoteCert, CertStored, CertRefused, search
  <1>9. CASE Check(c)
    BY <1>2, <1>3, <1>9 DEF Check, search
  <1> QED
    BY <1>5, <1>6, <1>7, <1>8, <1>9

\* A call begins.
LEMMA BrowserBegin ==
    ASSUME Browsers, Inv, NEW c \in Caller, NEW p \in Ident,
           AddService(c, p) \/ ManualRegistration(c, p)
    PROVE  Browsers'
  <1>1. /\ UNCHANGED <<lists, ending>>
        /\ BeginNew(c, p) \/ BeginKnown(c, p)
        /\ c \in Browser => \A d \in Browser : pc[d] \in Outside
    BY CallersAssumption DEF AddService, ManualRegistration, Begin, Outside
  <1>2. UNCHANGED <<machines, entered, run>>
    BY <1>1 DEF lists, ending
  <1>3. /\ pc'[c] \in {"scan", "register"}
        /\ pc'[c] = "scan" => seen'[c] = Listed
        /\ \A d \in Caller \ {c} : pc'[d] = pc[d] /\ seen'[d] = seen[d]
    <2>1. CASE BeginNew(c, p)
      BY <2>1 DEF BeginNew, Goto, Inv, TypeOK
    <2>2. CASE BeginKnown(c, p)
      BY <2>2 DEF BeginKnown, Goto, search, Inv, TypeOK
    <2> QED
      BY <1>1, <2>1, <2>2
  <1>4. \A k \in entered : maker'[k] = maker[k]
    <2>1. entered \subseteq 1 .. Len(ident) /\ maker \in Seq(Caller)
          /\ Len(maker) = Len(ident)
      BY DEF Inv, TypeOK
    <2>2. maker' = maker \/ maker' = Append(maker, c)
      BY <1>1 DEF BeginNew, BeginKnown, objects
    <2> QED
      BY <2>1, <2>2, AppendProperties
  <1>5. Listed' = Listed /\ (ByHand' <=> ByHand)
    BY <1>2, <1>4 DEF Listed, ByHand
  <1>6. OneBrowser'
    BY <1>1, <1>3 DEF Browsers, OneBrowser, Caller
  <1>7. SeenSafe'
    BY <1>3, <1>5 DEF Browsers, SeenSafe, Caller
  <1>8. BrowsersGoOn'
    <2> SUFFICES ASSUME NEW b \in Browser, pc'[b] = "dead"
                 PROVE  run \in {"deaf", "over"} \/ ByHand
      BY <1>2, <1>5 DEF BrowsersGoOn, ByHand
    <2>1. pc[b] = "dead"
      BY <1>3 DEF Caller
    <2> QED
      BY <2>1 DEF Browsers, BrowsersGoOn, ByHand
  <1> QED
    BY <1>6, <1>7, <1>8 DEF Browsers

\* A machine is listed.
LEMMA BrowserList ==
    ASSUME Browsers, Inv, NEW c \in Caller, List(c)
    PROVE  Browsers'
  <1>1. /\ entered' = entered \cup {machine[c]}
        /\ ~Makes(c) => machines' = machines
        /\ UNCHANGED <<maker, run>>
        /\ Return(c, "idle")
        /\ pc[c] = "listing"
    BY ListFacts
  <1>2. /\ pc'[c] = "idle"
        /\ \A d \in Caller \ {c} : pc'[d] = pc[d] /\ seen'[d] = seen[d]
    BY <1>1, ReturnLocals
  <1>3. ByHand => ByHand'
    BY <1>1 DEF ByHand
  <1>4. OneBrowser'
    BY <1>2 DEF Browsers, OneBrowser, Outside, Caller
  <1>5. BrowsersGoOn'
    <2> SUFFICES ASSUME NEW b \in Browser, pc'[b] = "dead"
                 PROVE  run \in {"deaf", "over"} \/ ByHand
      BY <1>1, <1>3 DEF BrowsersGoOn, ByHand
    <2>1. pc[b] = "dead"
      BY <1>2 DEF Caller
    <2> QED
      BY <2>1 DEF Browsers, BrowsersGoOn, ByHand
  <1>6. SeenSafe'
    <2> SUFFICES ASSUME NEW b \in Browser, pc'[b] = "scan"
                 PROVE  seen'[b] = Listed' \/ ByHand'
      BY DEF SeenSafe
    <2>1. b # c /\ pc[b] = "scan" /\ seen'[b] = seen[b]
      BY <1>2 DEF Caller
    <2>2. c \in Manual
      BY <1>1, <2>1 DEF Browsers, OneBrowser, Outside, Caller
    <2>3. CASE Makes(c)
      <3>1. maker'[machine[c]] = c /\ machine[c] \in entered'
        BY <1>1, <2>3 DEF Inv, OwnObject
      <3> QED
        BY <2>2, <3>1 DEF ByHand
    <2>4. CASE ~Makes(c)
      <3>1. Listed' = Listed
        BY <1>1, <2>4 DEF Listed
      <3> QED
        BY <1>3, <2>1, <3>1 DEF Browsers, SeenSafe
    <2> QED
      BY <2>3, <2>4
  <1> QED
    BY <1>4, <1>5, <1>6 DEF Browsers

LEMMA BrowsersNext == Browsers /\ Inv /\ [Next]_vars => Browsers'
  <1> SUFFICES ASSUME Browsers, Inv, [Next]_vars
               PROVE  Browsers'
    OBVIOUS
  <1>1. ASSUME NEW c \in Caller, NEW p \in Ident,
               AddService(c, p) \/ ManualRegistration(c, p)
        PROVE  Browsers'
    BY <1>1, BrowserBegin
  <1>2. ASSUME NEW c \in Caller, Call(c)
        PROVE  Browsers'
    BY <1>2, BrowserCall, BrowserList DEF Call
  <1>3. ASSUME UNCHANGED <<machines, entered, maker, pc, seen>>,
               run \in {"deaf", "over"} => run' \in {"deaf", "over"}
        PROVE  Browsers'
    BY <1>3 DEF Browsers, OneBrowser, SeenSafe, BrowsersGoOn, ByHand, Listed
  <1>4. CASE ServerEnds
    <2>1. UNCHANGED <<machines, entered, maker, pc, seen>>
      BY <1>4 DEF ServerEnds, Shutdown, ShutdownRegistrations, DropRegistrar,
                  CloseMachines, callers, lists, objects, search
    <2>2. run \in {"deaf", "over"} => run' \in {"deaf", "over"}
      BY <1>4 DEF ServerEnds, Shutdown, ShutdownRegistrations, DropRegistrar,
                  CloseMachines
    <2> QED
      BY <1>3, <2>1, <2>2
  <1>5. CASE UNCHANGED vars
    <2>1. UNCHANGED <<machines, entered, maker, pc, seen, run>>
      BY <1>5 DEF vars, lists, objects, search, ending
    <2> QED
      BY <1>3, <2>1
  <1> QED
    BY <1>1, <1>2, <1>4, <1>5 DEF Next

\* The thread of a browser ends only when the server does, or when a machine that was
\* registered by hand was listed while it searched a name.
\* (server.add_service, ensure_unique_hostname)
THEOREM BrowsersLive == Spec => []BrowsersGoOn
  <1>1. Init => Browsers
    BY DEF Init, Browsers, OneBrowser, SeenSafe, BrowsersGoOn, Caller, Outside
  <1>2. Browsers => BrowsersGoOn
    BY DEF Browsers
  <1> QED
    BY <1>1, <1>2, InitInv, InvNext, BrowsersNext, PTL DEF Spec

-----------------------------------------------------------------------------
(***************************************************************************)
(* The end of the server.                                                  *)
(***************************************************************************)

\* A call of c leaves what belongs to the others, and the end of the server, alone.
LEMMA CallFrame ==
    ASSUME Inv, NEW c \in Caller, Call(c)
    PROVE  /\ UNCHANGED <<ident, maker, beside, run, stopped, overtaken>>
           /\ pc[c] \notin Outside /\ pc[c] \in Places
           /\ \A d \in Caller \ {c} : /\ pc'[d] = pc[d]
                                      /\ machine'[d] = machine[d]
                                      /\ tries'[d] = tries[d]
                                      /\ seen'[d] = seen[d]
                                      /\ d \in cancelled' <=> d \in cancelled
                                      /\ d \in doomed' <=> d \in doomed
           /\ \/ machine'[c] = machine[c]
              \/ pc'[c] \in Outside /\ tries'[c] = 0 /\ c \notin doomed'
  <1>1. UNCHANGED <<ident, maker, beside, run, stopped, overtaken>>
    BY DEF Call, EnsureUniqueHostname, Register, Answered, ProcessRemoteCert, Check, List,
           objects, ending
  <1>2. pc[c] \notin Outside /\ pc[c] \in Places
    BY DEF Call, EnsureUniqueHostname, Register, Answered, ProcessRemoteCert, Check, List,
           Outside, Places
  <1>3. ASSUME NEW l \in Outside, Return(c, l)
        PROVE  /\ \A d \in Caller \ {c} : /\ pc'[d] = pc[d]
                                          /\ machine'[d] = machine[d]
                                          /\ tries'[d] = tries[d]
                                          /\ seen'[d] = seen[d]
                                          /\ d \in cancelled' <=> d \in cancelled
                                          /\ d \in doomed' <=> d \in doomed
               /\ pc'[c] \in Outside /\ tries'[c] = 0 /\ c \notin doomed'
    BY <1>3 DEF Return, Goto, Inv, TypeOK, Outside
  <1>4. ASSUME NEW l, Goto(c, l), UNCHANGED <<machine, tries, seen, cancelled, doomed>>
        PROVE  /\ \A d \in Caller \ {c} : /\ pc'[d] = pc[d]
                                          /\ machine'[d] = machine[d]
                                          /\ tries'[d] = tries[d]
                                          /\ seen'[d] = seen[d]
                                          /\ d \in cancelled' <=> d \in cancelled
                                          /\ d \in doomed' <=> d \in doomed
               /\ machine'[c] = machine[c]
    BY <1>4 DEF Goto, Inv, TypeOK
  <1>5. CASE NameTaken(c)
    <2>1. UNCHANGED <<pc, machine, cancelled, doomed>>
      BY <1>5 DEF NameTaken, requests
    <2>2. \A d \in Caller \ {c} : tries'[d] = tries[d] /\ seen'[d] = seen[d]
      BY <1>5 DEF NameTaken, Inv, TypeOK
    <2> QED
      BY <1>1, <1>2, <2>1, <2>2
  <1>6. CASE (\E l \in Outside : Return(c, l))
    BY <1>1, <1>2, <1>3, <1>6
  <1>7. CASE (\E l \in Places : Goto(c, l))
             /\ UNCHANGED <<machine, tries, seen, cancelled, doomed>>
    BY <1>1, <1>2, <1>4, <1>7
  <1>8. CASE EnsureUniqueHostname(c)
    BY <1>1, <1>2, <1>5, <1>6, <1>7, <1>8
       DEF EnsureUniqueHostname, NameFree, ListChanged, Raise, search, requests, Outside,
           Places
  <1>9. CASE Register(c)
    BY <1>6, <1>7, <1>9 DEF Register, Requested, Raise, search, Outside, Places
  <1>10. CASE Answered(c)
    BY <1>7, <1>10 DEF Answered, search, requests, Places
  <1>11. CASE ProcessRemoteCert(c)
    BY <1>6, <1>7, <1>11
       DEF ProcessRemoteCert, CertStored, CertRefused, search, Outside, Places
  <1>12. CASE Check(c)
    BY <1>6, <1>7, <1>12 DEF Check, search, Outside, Places
  <1>13. CASE List(c)
    BY <1>6, <1>13 DEF List, Outside
  <1> QED
    BY <1>8, <1>9, <1>10, <1>11, <1>12, <1>13 DEF Call

\* Nobody begins a call for a server that has ended, and a call that begins touches no
\* other.
LEMMA BeginFrame ==
    ASSUME Inv, NEW c \in Caller, NEW p \in Ident,
           AddService(c, p) \/ ManualRegistration(c, p)
    PROVE  /\ UNCHANGED <<lists, requests, ending, tries>>
           /\ run # "over" /\ pc[c] = "idle" /\ pc'[c] \in {"scan", "register"}
           /\ \A d \in Caller \ {c} : pc'[d] = pc[d] /\ machine'[d] = machine[d]
           /\ \A k \in 1 .. Len(ident) : ident'[k] = ident[k]
  <1>1. /\ UNCHANGED <<lists, requests, ending>>
        /\ run # "over" /\ pc[c] = "idle"
        /\ BeginNew(c, p) \/ BeginKnown(c, p)
    BY DEF AddService, ManualRegistration, Begin
  <1>2. tries' = tries
    BY <1>1 DEF BeginNew, BeginKnown, search
  <1>3. /\ pc'[c] \in {"scan", "register"}
        /\ \A d \in Caller \ {c} : pc'[d] = pc[d]
    BY <1>1 DEF BeginNew, BeginKnown, Goto, Inv, TypeOK
  <1>4. \A d \in Caller \ {c} : machine'[d] = machine[d]
    BY <1>1 DEF BeginNew, BeginKnown, Inv, TypeOK
  <1>5. \A k \in 1 .. Len(ident) : ident'[k] = ident[k]
    <2>1. ident' = ident \/ ident' = Append(ident, p)
      BY <1>1 DEF BeginNew, BeginKnown, objects
    <2>2. ident \in Seq(Ident)
      BY DEF Inv, TypeOK
    <2> QED
      BY <2>1, <2>2, AppendProperties
  <1> QED
    BY <1>1, <1>2, <1>3, <1>4, <1>5

\* A caller that lists a machine after the end had begun is one that it overtook.
Late == run # "on" => \A c \in Caller : pc[c] = "listing" => machine[c] \in overtaken

LEMMA LateNext == Late /\ Inv /\ [Next]_vars => Late'
  <1> SUFFICES ASSUME Late, Inv, [Next]_vars
               PROVE  Late'
    OBVIOUS
  <1>1. ASSUME NEW c \in Caller, NEW p \in Ident,
               AddService(c, p) \/ ManualRegistration(c, p)
        PROVE  Late'
    BY <1>1, BeginFrame DEF Late, ending
  <1>2. ASSUME NEW c \in Caller, Call(c)
        PROVE  Late'
    <2>1. /\ UNCHANGED <<run, overtaken>>
          /\ \A d \in Caller \ {c} : pc'[d] = pc[d] /\ machine'[d] = machine[d]
      BY <1>2, CallFrame
    <2>2. run # "on" => pc'[c] # "listing"
      <3>1. ASSUME NEW l, l # "listing", Goto(c, l) \/ Return(c, l)
            PROVE  pc'[c] # "listing"
        BY <3>1 DEF Return, Goto, Inv, TypeOK
      <3>2. CASE EnsureUniqueHostname(c)
        BY <3>1, <3>2 DEF EnsureUniqueHostname, NameTaken, NameFree, ListChanged, Raise
      <3>3. CASE Register(c)
        BY <3>1, <3>3 DEF Register, Requested, Raise
      <3>4. CASE Answered(c) \/ ProcessRemoteCert(c)
        BY <3>1, <3>4 DEF Answered, ProcessRemoteCert, CertStored, CertRefused
      <3>5. CASE Check(c)
        BY <3>1, <3>5 DEF Check, Closing
      <3>6. CASE List(c)
        BY <3>1, <3>6 DEF List
      <3> QED
        BY <1>2, <3>2, <3>3, <3>4, <3>5, <3>6 DEF Call
    <2> QED
      BY <2>1, <2>2 DEF Late
  <1>3. CASE Shutdown
    BY <1>3 DEF Shutdown, Late, callers
  <1>4. CASE ShutdownRegistrations \/ DropRegistrar \/ CloseMachines
    BY <1>4 DEF ShutdownRegistrations, DropRegistrar, CloseMachines, Late, callers
  <1>5. CASE UNCHANGED vars
    BY <1>5 DEF vars, ending, Late
  <1> QED
    BY <1>1, <1>2, <1>3, <1>4, <1>5 DEF Next, ServerEnds

\* Whoever is left running shares its service with one that is not, and was made at the
\* same time.
LEMMA StopsNext ==
    EndStopsAll /\ Late /\ LivePairs /\ Inv /\ [Next]_vars => EndStopsAll'
  <1> SUFFICES ASSUME EndStopsAll, Late, LivePairs, Inv, [Next]_vars, run' = "over"
               PROVE  \A j \in started' \ (stopped' \cup overtaken') :
                          \E k \in stopped' \cup overtaken' :
                              ident'[k] = ident'[j] /\ {j, k} \in beside'
    BY DEF EndStopsAll
  <1>1. CASE UNCHANGED <<ident, beside, stopped, overtaken, run>>
             /\ started' \subseteq started \cup overtaken
    BY <1>1 DEF EndStopsAll
  <1>2. ASSUME NEW c \in Caller, NEW p \in Ident,
               AddService(c, p) \/ ManualRegistration(c, p)
        PROVE  FALSE
    BY <1>2, BeginFrame DEF ending
  <1>3. ASSUME NEW c \in Caller, Call(c)
        PROVE  /\ UNCHANGED <<ident, beside, stopped, overtaken, run>>
               /\ started' \subseteq started \cup overtaken
    <2>1. UNCHANGED <<ident, beside, stopped, overtaken, run>>
      BY <1>3, CallFrame
    <2>2. started' = started \/ (pc[c] = "listing" /\ started' = started \cup {machine[c]})
      BY <1>3 DEF Call, EnsureUniqueHostname, Register, Answered, ProcessRemoteCert, Check,
                  List, lists
    <2> QED
      BY <2>1, <2>2 DEF Late
  <1>4. CASE Shutdown \/ ShutdownRegistrations \/ DropRegistrar
    BY <1>4 DEF Shutdown, ShutdownRegistrations, DropRegistrar
  <1>5. CASE CloseMachines
    <2>1. /\ UNCHANGED <<machines, entered, started, ident, beside, overtaken>>
          /\ stopped' = {machines[p] : p \in Listed}
      BY <1>5 DEF CloseMachines, callers, lists, objects
    <2> SUFFICES ASSUME NEW j \in started, j \notin stopped'
                 PROVE  \E k \in stopped' : ident[k] = ident[j] /\ {j, k} \in beside
      BY <2>1
    <2>2. j \in entered /\ ident[j] \in Ident
      BY ObjectFacts DEF Inv, TypeOK
    <2>3. PICK k \in entered : k = machines[ident[j]] /\ k # NoObject /\ ident[k] = ident[j]
      BY <2>2 DEF Inv, EnteredListed, ListedEntered
    <2>4. k \in stopped'
      BY <2>1, <2>2, <2>3 DEF Listed
    <2>5. j # k /\ j \in Live /\ k \in Live
      BY <2>2, <2>3, <2>4 DEF Live
    <2>6. {j, k} \in beside
      BY <2>3, <2>5 DEF LivePairs, Excused
    <2> QED
      BY <2>3, <2>4, <2>6
  <1>6. CASE UNCHANGED vars
    BY <1>1, <1>6 DEF vars, objects, lists, ending
  <1> QED
    BY <1>1, <1>2, <1>3, <1>4, <1>5, <1>6 DEF Next, ServerEnds

\* When the server has ended, every machine whose thread was started has been shut down,
\* except one that was replaced by another made at the same time, and one that had passed
\* the check for the end.  (server.Server.run, add_service,
\* handle_manual_service_registration)
THEOREM EndStopsThem == Spec => []EndStopsAll
  <1>1. Init => Late /\ LivePairs /\ EndStopsAll
    BY DEF Init, Late, LivePairs, Live, Makes, EndStopsAll
  <1> QED
    BY <1>1, InitInv, InvNext, LivePairsNext, LateNext, StopsNext, PTL DEF Spec

-----------------------------------------------------------------------------
(***************************************************************************)
(* Cancelled registrations.                                                *)
(***************************************************************************)

\* Two that ask for one ident have taken notice of each other.
RivalsDoubled ==
    \A c, d \in Caller :
        c # d /\ Asking(c) /\ Asking(d) /\ About(c) = About(d) => c \in doubled

\* Until all are cancelled, who asks is in active_registrations, unless another for its
\* ident put it out.
AskingActive ==
    run \in {"on", "closing"} =>
        \A c \in Caller : pc[c] = "asking" => c \in active \cup doubled

\* A doomed request is cancelled, and stores nothing.
Doomed == \A c \in doomed \ doubled : c \in cancelled /\ pc[c] # "storing"

Requests == RivalsDoubled /\ AskingActive /\ Doomed

\* The steps in which the call of c neither begins a request nor ends one's entry
LEMMA RequestsKept ==
    ASSUME Requests, Inv, NEW c \in Caller, Call(c),
           UNCHANGED <<active, doubled, cancelled, doomed>>, machine'[c] = machine[c],
           Asking(c)' => Asking(c),
           pc'[c] = "asking" => pc[c] = "asking",
           pc'[c] = "storing" => pc[c] = "storing" \/ c \notin cancelled
    PROVE  Requests'
  <1>1. /\ UNCHANGED <<ident, run>>
        /\ \A d \in Caller \ {c} : pc'[d] = pc[d] /\ machine'[d] = machine[d]
    BY CallFrame
  <1>2. \A d \in Caller : (Asking(d)' => Asking(d)) /\ About(d)' = About(d)
    BY <1>1 DEF Asking, About
  <1>3. RivalsDoubled'
    <2> SUFFICES ASSUME NEW d \in Caller, NEW e \in Caller, d # e, Asking(d)', Asking(e)',
                        About(d)' = About(e)'
                 PROVE  d \in doubled'
      BY DEF RivalsDoubled
    <2>1. Asking(d) /\ Asking(e) /\ About(d) = About(e)
      BY <1>2
    <2> QED
      BY <2>1 DEF Requests, RivalsDoubled
  <1>4. AskingActive'
    BY <1>1 DEF Requests, AskingActive
  <1>5. Doomed'
    BY <1>1 DEF Requests, Doomed, Inv, TypeOK
  <1> QED
    BY <1>3, <1>4, <1>5 DEF Requests

\* A request begins.
LEMMA RequestsBegin ==
    ASSUME Requests, Inv, NEW c \in Caller, Call(c), pc[c] = "register", Requested(c)
    PROVE  Requests'
  <1>1. /\ UNCHANGED <<ident, run>>
        /\ \A d \in Caller \ {c} : pc'[d] = pc[d] /\ machine'[d] = machine[d]
    BY CallFrame
  <1>2. /\ UNCHANGED <<machine, cancelled, doomed>>
        /\ active' = (active \ Rivals(c)) \cup {c}
        /\ Rivals(c) # {} => doubled' = doubled \cup Rivals(c) \cup {c}
        /\ Rivals(c) = {} => doubled' = doubled
    BY DEF Requested
  <1>3. pc'[c] = "asking"
    BY DEF Requested, Goto, Inv, TypeOK
  <1>4. \A d \in Caller : About(d)' = About(d)
    BY <1>1, <1>2 DEF About
  <1>5. \A d \in Caller \ {c} : Asking(d)' <=> Asking(d)
    BY <1>1 DEF Asking
  <1>6. doubled \subseteq doubled' /\ Rivals(c) \subseteq doubled'
    BY <1>2
  <1>7. RivalsDoubled'
    <2> SUFFICES ASSUME NEW d \in Caller, NEW e \in Caller, d # e, Asking(d)', Asking(e)',
                        About(d) = About(e)
                 PROVE  d \in doubled'
      BY <1>4 DEF RivalsDoubled
    <2>1. CASE d = c
      <3>1. e \in Rivals(c)
        BY <1>5, <2>1 DEF Rivals
      <3> QED
        BY <1>2, <2>1, <3>1
    <2>2. CASE e = c
      <3>1. d \in Rivals(c)
        BY <1>5, <2>2 DEF Rivals
      <3> QED
        BY <1>6, <3>1
    <2>3. CASE d # c /\ e # c
      BY <1>5, <1>6, <2>3 DEF Requests, RivalsDoubled
    <2> QED
      BY <2>1, <2>2, <2>3
  <1>8. AskingActive'
    <2> SUFFICES ASSUME run \in {"on", "closing"}, NEW d \in Caller, pc'[d] = "asking"
                 PROVE  d \in active' \cup doubled'
      BY <1>1 DEF AskingActive
    <2>1. CASE d = c
      BY <1>2, <2>1
    <2>2. CASE d # c
      <3>1. d \in active \cup doubled
        BY <1>1, <2>2 DEF Requests, AskingActive
      <3> QED
        BY <1>2, <1>6, <3>1
    <2> QED
      BY <2>1, <2>2
  <1>9. Doomed'
    <2> SUFFICES ASSUME NEW d \in doomed, d \notin doubled'
                 PROVE  d \in cancelled /\ pc'[d] # "storing"
      BY <1>2 DEF Doomed
    <2> QED
      BY <1>1, <1>3, <1>6 DEF Requests, Doomed, Inv, TypeOK
  <1> QED
    BY <1>7, <1>8, <1>9 DEF Requests

\* A request ends: its entry goes, or that of a rival.
LEMMA RequestsEnd ==
    ASSUME Requests, Inv, NEW c \in Caller, Call(c), ~Asking(c)',
           active' = active \/ (Asking(c) /\ EndRequest(c)),
           \/ UNCHANGED <<doubled, cancelled, doomed>>
           \/ /\ doubled' = doubled \ {c} /\ cancelled' = cancelled \ {c}
              /\ doomed' = doomed \ {c}
    PROVE  Requests'
  <1>1. /\ UNCHANGED <<ident, run>>
        /\ \A d \in Caller \ {c} : pc'[d] = pc[d] /\ machine'[d] = machine[d]
    BY CallFrame
  <1>2. \A d \in Caller \ {c} : /\ Asking(d)' <=> Asking(d)
                                /\ About(d)' = About(d)
                                /\ d \in doubled' <=> d \in doubled
    BY <1>1 DEF Asking, About
  <1>3. RivalsDoubled'
    BY <1>2 DEF Requests, RivalsDoubled
  <1>4. AskingActive'
    <2> SUFFICES ASSUME run \in {"on", "closing"}, NEW d \in Caller, pc'[d] = "asking"
                 PROVE  d \in active' \cup doubled'
      BY <1>1 DEF AskingActive
    <2>1. d # c
      BY DEF Asking
    <2>2. pc[d] = "asking" /\ Asking(d)
      BY <1>1, <2>1 DEF Asking
    <2>3. d \in active \cup doubled
      BY <2>2 DEF Requests, AskingActive
    <2>4. CASE Asking(c) /\ About(d) = About(c)
      BY <1>2, <2>1, <2>2, <2>4 DEF Requests, RivalsDoubled
    <2>5. CASE ~(Asking(c) /\ About(d) = About(c))
      <3>1. d \in active => d \in active'
        BY <2>5 DEF EndRequest
      <3> QED
        BY <1>2, <2>1, <2>3, <3>1
    <2> QED
      BY <2>4, <2>5
  <1>5. Doomed'
    BY <1>1 DEF Requests, Doomed, Inv, TypeOK, Asking
  <1> QED
    BY <1>3, <1>4, <1>5 DEF Requests

LEMMA RequestsNext == Requests /\ Inv /\ [Next]_vars => Requests'
  <1> SUFFICES ASSUME Requests, Inv, [Next]_vars
               PROVE  Requests'
    OBVIOUS
  <1>1. ASSUME NEW c \in Caller, NEW p \in Ident,
               AddService(c, p) \/ ManualRegistration(c, p)
        PROVE  Requests'
    <2>1. /\ UNCHANGED <<active, cancelled, doubled, doomed, run>>
          /\ pc[c] = "idle" /\ pc'[c] \in {"scan", "register"}
          /\ \A d \in Caller \ {c} : pc'[d] = pc[d] /\ machine'[d] = machine[d]
          /\ \A k \in 1 .. Len(ident) : ident'[k] = ident[k]
      BY <1>1, BeginFrame DEF requests, ending
    <2>2. ASSUME NEW d \in Caller, Asking(d)'
          PROVE  Asking(d) /\ About(d)' = About(d)
      <3>1. d # c /\ Asking(d) /\ machine'[d] = machine[d]
        BY <2>1, <2>2 DEF Asking
      <3>2. machine[d] \in 1 .. Len(ident)
        BY <3>1, ObjectFacts DEF Inv, Asking, Places
      <3> QED
        BY <2>1, <3>1, <3>2 DEF About
    <2>3. RivalsDoubled'
      BY <2>1, <2>2 DEF Requests, RivalsDoubled
    <2>4. AskingActive'
      BY <2>1 DEF Requests, AskingActive
    <2>5. Doomed'
      BY <2>1 DEF Requests, Doomed, Inv, TypeOK
    <2> QED
      BY <2>3, <2>4, <2>5 DEF Requests
  <1>2. ASSUME NEW c \in Caller, Call(c)
        PROVE  Requests'
    <2>1. ASSUME NEW l \in {"idle", "dead", "listing"},
                 \/ Return(c, l)
                 \/ Goto(c, l) /\ UNCHANGED <<cancelled, doubled, doomed>>,
                 active' = active \/ (Asking(c) /\ EndRequest(c))
          PROVE  Requests'
      <3>1. ~Asking(c)'
        BY <2>1 DEF Return, Goto, Asking, Inv, TypeOK
      <3>2. \/ UNCHANGED <<doubled, cancelled, doomed>>
            \/ /\ doubled' = doubled \ {c} /\ cancelled' = cancelled \ {c}
               /\ doomed' = doomed \ {c}
        BY <2>1 DEF Return
      <3> QED
        BY <1>2, <2>1, <3>1, <3>2, RequestsEnd
    <2>2. ASSUME NEW l \in {"register", "storing", "checking"}, Goto(c, l),
                 UNCHANGED <<active, cancelled, doubled, doomed, machine>>,
                 l = "register" \/ Asking(c),
                 l = "storing" => c \notin cancelled
          PROVE  Requests'
      <3>1. pc'[c] = l
        BY <2>2 DEF Goto, Inv, TypeOK
      <3>2. Asking(c)' => Asking(c)
        BY <2>2, <3>1 DEF Asking
      <3> QED
        BY <1>2, <2>2, <3>1, <3>2, RequestsKept
    <2>3. CASE NameTaken(c)
      <3>1. UNCHANGED <<pc, machine, active, cancelled, doubled, doomed>>
        BY <2>3 DEF NameTaken, requests
      <3>2. Asking(c)' => Asking(c)
        BY <3>1 DEF Asking
      <3> QED
        BY <1>2, <3>1, <3>2, RequestsKept
    <2>4. CASE EnsureUniqueHostname(c)
      BY <2>1, <2>2, <2>3, <2>4
         DEF EnsureUniqueHostname, NameFree, ListChanged, Raise, requests
    <2>5. CASE Register(c)
      BY <1>2, <2>1, <2>5, RequestsBegin DEF Register, Raise
    <2>6. CASE Answered(c)
      BY <2>2, <2>6 DEF Answered, requests, Asking
    <2>7. CASE ProcessRemoteCert(c)
      <3>1. pc[c] = "storing" /\ Asking(c)
        BY <2>7 DEF ProcessRemoteCert, Asking
      <3>2. CASE CertStored(c)
        BY <2>2, <3>1, <3>2 DEF CertStored
      <3>3. CASE CertRefused(c)
        BY <2>1, <3>1, <3>3 DEF CertRefused
      <3> QED
        BY <2>7, <3>2, <3>3 DEF ProcessRemoteCert
    <2>8. CASE Check(c)
      BY <2>1, <2>8 DEF Check, Asking
    <2>9. CASE List(c)
      BY <2>1, <2>9 DEF List
    <2> QED
      BY <1>2, <2>4, <2>5, <2>6, <2>7, <2>8, <2>9 DEF Call
  <1>3. ASSUME UNCHANGED <<ident, pc, machine, active, cancelled, doubled, doomed>>,
               run' \in {"on", "closing"} => run \in {"on", "closing"}
        PROVE  Requests'
    BY <1>3 DEF Requests, RivalsDoubled, AskingActive, Doomed, Asking, About
  <1>4. CASE Shutdown \/ DropRegistrar \/ CloseMachines \/ UNCHANGED vars
    <2>1. UNCHANGED <<ident, pc, machine, active, cancelled, doubled, doomed>>
      BY <1>4 DEF Shutdown, DropRegistrar, CloseMachines, vars, callers, objects, requests
    <2>2. run' \in {"on", "closing"} => run \in {"on", "closing"}
      BY <1>4 DEF Shutdown, DropRegistrar, CloseMachines, vars, ending
    <2> QED
      BY <1>3, <2>1, <2>2
  <1>5. CASE ShutdownRegistrations
    <2>1. /\ UNCHANGED <<ident, pc, machine, doubled>>
          /\ run = "closing" /\ run' = "cancelled"
          /\ cancelled' = cancelled \cup active
          /\ doomed' = {c \in Caller : pc[c] = "asking"}
      BY <1>5 DEF ShutdownRegistrations, callers, objects
    <2>2. RivalsDoubled'
      BY <2>1 DEF Requests, RivalsDoubled, Asking, About
    <2>3. AskingActive'
      BY <2>1 DEF AskingActive
    <2>4. Doomed'
      BY <2>1 DEF Doomed, Requests, AskingActive
    <2> QED
      BY <2>2, <2>3, <2>4 DEF Requests
  <1> QED
    BY <1>1, <1>2, <1>4, <1>5 DEF Next, ServerEnds

\* A registration that waits for its peer when the server cancels those that wait stores
\* no certificate afterwards, unless there was another one for the same ident, for any
\* number of them.  (remote_registration.register_v2, Registrar)
THEOREM CancelledStore == Spec => []CancelledStoresNothing
  <1>1. Init => Requests
    BY DEF Init, Requests, RivalsDoubled, AskingActive, Doomed, Asking
  <1>2. Requests => CancelledStoresNothing
    BY DEF Requests, Doomed, CancelledStoresNothing
  <1> QED
    BY <1>1, <1>2, InitInv, InvNext, RequestsNext, PTL DEF Spec

-----------------------------------------------------------------------------
(***************************************************************************)
(* The search for a name ends.                                             *)
(***************************************************************************)

\* An entered machine has the n-th name that c tries.
Has(c, n) == \E k \in entered : name[k] = Candidate(Hostname[About(c)], n)

\* Every name that a search found taken is that of a machine that was listed.
Taken == \A c \in Caller : \A n \in 0 .. tries[c] - 1 : Has(c, n)

\* Who has no call searches nothing.
NoSearch == \A c \in Caller : pc[c] \in Outside => tries[c] = 0

\* A search looks at what is listed.
SeenListed == \A c \in Caller : pc[c] = "scan" => seen[c] \subseteq Listed

Search == Taken /\ NoSearch /\ SeenListed

\* What a step must keep for the names found taken to stay taken
LEMMA TakenKept ==
    ASSUME Search, Inv,
           entered \subseteq entered',
           \A k \in entered : name'[k] = name[k],
           \A c \in Caller : \/ tries'[c] = 0
                             \/ tries'[c] = tries[c] /\ About(c)' = About(c)
    PROVE  Taken'
  <1> SUFFICES ASSUME NEW c \in Caller, NEW n \in 0 .. tries'[c] - 1
               PROVE  Has(c, n)'
    BY DEF Taken
  <1>1. tries'[c] = tries[c] /\ About(c)' = About(c)
    OBVIOUS
  <1>2. PICK k \in entered : name[k] = Candidate(Hostname[About(c)], n)
    BY <1>1 DEF Search, Taken, Has
  <1>3. name'[k] = Candidate(Hostname[About(c)'], n)
    BY <1>1, <1>2
  <1> QED
    BY <1>3 DEF Has, Candidate

\* One more name is found taken.
LEMMA SearchTaken ==
    ASSUME Search, Inv, NEW c \in Caller, pc[c] = "scan", NameTaken(c),
           UNCHANGED <<lists, ident, maker, beside, renewed, ending>>
    PROVE  Search'
  <1>1. /\ UNCHANGED <<machines, entered, ident, pc, machine, name>>
        /\ tries'[c] = tries[c] + 1 /\ seen'[c] = Listed
        /\ \A d \in Caller \ {c} : tries'[d] = tries[d] /\ seen'[d] = seen[d]
    BY DEF NameTaken, lists, Inv, TypeOK
  <1>2. Has(c, tries[c])
    <2>1. PICK p \in seen[c] : name[machines[p]] = Wanted(c)
      BY DEF NameTaken, Free
    <2>2. p \in Listed
      BY <2>1 DEF Search, SeenListed
    <2>3. machines[p] \in entered
      BY <2>2 DEF Listed, Inv, ListedEntered
    <2> QED
      BY <2>1, <2>3 DEF Has, Wanted
  <1>3. Taken'
    <2> SUFFICES ASSUME NEW d \in Caller, NEW n \in 0 .. tries'[d] - 1
                 PROVE  Has(d, n)
      BY <1>1 DEF Taken, Has, About, Candidate
    <2>1. tries[d] \in Nat
      BY DEF Inv, TypeOK
    <2>2. CASE n = tries[d]
      BY <1>1, <1>2, <2>1, <2>2
    <2>3. CASE n # tries[d]
      <3>1. n \in 0 .. tries[d] - 1
        BY <1>1, <2>1, <2>3
      <3> QED
        BY <3>1 DEF Search, Taken
    <2> QED
      BY <2>2, <2>3
  <1>4. NoSearch'
    BY <1>1 DEF Search, NoSearch, Outside
  <1>5. SeenListed'
    BY <1>1 DEF Search, SeenListed, Listed
  <1> QED
    BY <1>3, <1>4, <1>5 DEF Search

\* A call goes on without a change of the search, or ends.
LEMMA SearchCall ==
    ASSUME Search, Inv, NEW c \in Caller, Call(c), ~NameTaken(c) \/ pc[c] # "scan"
    PROVE  Search'
  <1>1. /\ UNCHANGED ident /\ pc[c] \notin Outside
        /\ \A d \in Caller \ {c} : /\ pc'[d] = pc[d]
                                   /\ machine'[d] = machine[d]
                                   /\ tries'[d] = tries[d]
                                   /\ seen'[d] = seen[d]
        /\ \/ machine'[c] = machine[c]
           \/ pc'[c] \in Outside /\ tries'[c] = 0
    BY CallFrame
  <1>2. \/ pc'[c] \in {"idle", "dead"} /\ tries'[c] = 0
        \/ pc'[c] \in Places \ {"idle", "dead", "scan"} /\ UNCHANGED <<machine, tries>>
    <2>1. ASSUME NEW l \in {"idle", "dead"}, Return(c, l)
          PROVE  pc'[c] \in {"idle", "dead"} /\ tries'[c] = 0
      BY <2>1 DEF Return, Goto, Inv, TypeOK
    <2>2. ASSUME NEW l \in Places \ {"idle", "dead", "scan"}, Goto(c, l)
          PROVE  pc'[c] \in Places \ {"idle", "dead", "scan"}
      BY <2>2 DEF Goto, Inv, TypeOK
    <2>3. CASE EnsureUniqueHostname(c)
      BY <2>1, <2>2, <2>3
         DEF EnsureUniqueHostname, NameFree, ListChanged, Raise, search, Places
    <2>4. CASE Register(c)
      BY <2>1, <2>2, <2>4 DEF Register, Requested, Raise, search, Places
    <2>5. CASE Answered(c)
      BY <2>2, <2>5 DEF Answered, search, Places
    <2>6. CASE ProcessRemoteCert(c)
      BY <2>1, <2>2, <2>6 DEF ProcessRemoteCert, CertStored, CertRefused, search, Places
    <2>7. CASE Check(c)
      BY <2>1, <2>2, <2>7 DEF Check, search, Places
    <2>8. CASE List(c)
      BY <2>1, <2>8 DEF List
    <2> QED
      BY <2>3, <2>4, <2>5, <2>6, <2>7, <2>8 DEF Call
  <1>3. /\ entered \subseteq entered' /\ Listed \subseteq Listed'
        /\ \A k \in entered : name'[k] = name[k]
    <2>1. CASE EnsureUniqueHostname(c)
      <3>1. UNCHANGED <<machines, entered>>
        BY <2>1 DEF EnsureUniqueHostname, lists
      <3>2. name' = name \/ name' = [name EXCEPT ![machine[c]] = Wanted(c)]
        BY <2>1 DEF EnsureUniqueHostname, NameTaken, NameFree, ListChanged
      <3>3. machine[c] \notin entered
        BY <2>1 DEF EnsureUniqueHostname, Inv, ScanMakes, Makes
      <3>4. name \in Seq(Seq(Nat)) /\ entered \subseteq 1 .. Len(name)
        BY DEF Inv, TypeOK
      <3> QED
        BY <3>1, <3>2, <3>3, <3>4 DEF Listed
    <2>2. CASE Register(c) \/ Answered(c) \/ ProcessRemoteCert(c) \/ Check(c)
      BY <2>2 DEF Register, Answered, ProcessRemoteCert, Check, lists, objects, Listed
    <2>3. CASE List(c)
      <3>1. /\ entered' = entered \cup {machine[c]} /\ name' = name
            /\ About(c) \in Ident /\ machine[c] \in 1 .. Len(ident)
            /\ Makes(c) => /\ machines'[About(c)] = machine[c]
                           /\ \A p \in Ident \ {About(c)} : machines'[p] = machines[p]
            /\ ~Makes(c) => machines' = machines
        BY <2>3, ListFacts
      <3>2. machine[c] # NoObject
        BY <3>1 DEF NoObject, Inv, TypeOK
      <3> QED
        BY <3>1, <3>2 DEF Listed
    <2> QED
      BY <2>1, <2>2, <2>3 DEF Call
  <1>4. Taken'
    <2>1. ASSUME NEW d \in Caller
          PROVE  tries'[d] = 0 \/ (tries'[d] = tries[d] /\ About(d)' = About(d))
      BY <1>1, <1>2 DEF About
    <2> QED
      BY <1>3, <2>1, TakenKept
  <1>5. NoSearch'
    BY <1>1, <1>2 DEF Search, NoSearch, Outside
  <1>6. SeenListed'
    BY <1>1, <1>2, <1>3 DEF Search, SeenListed
  <1> QED
    BY <1>4, <1>5, <1>6 DEF Search

\* A call begins.
LEMMA SearchBegin ==
    ASSUME Search, Inv, NEW c \in Caller, NEW p \in Ident,
           AddService(c, p) \/ ManualRegistration(c, p)
    PROVE  Search'
  <1>1. /\ UNCHANGED <<machines, entered, tries>>
        /\ pc[c] = "idle" /\ pc'[c] \in {"scan", "register"}
        /\ \A d \in Caller \ {c} : pc'[d] = pc[d] /\ machine'[d] = machine[d]
        /\ \A k \in 1 .. Len(ident) : ident'[k] = ident[k]
    BY BeginFrame DEF lists
  <1>2. tries[c] = 0
    BY <1>1 DEF Search, NoSearch, Outside
  <1>3. ASSUME NEW d \in Caller
        PROVE  tries'[d] = 0 \/ (tries'[d] = tries[d] /\ About(d)' = About(d))
    <2>1. CASE d = c \/ pc[d] \in Outside
      BY <1>1, <1>2, <2>1 DEF Search, NoSearch
    <2>2. CASE d # c /\ pc[d] \notin Outside
      <3>1. machine[d] \in 1 .. Len(ident)
        BY <2>2, ObjectFacts DEF Inv, TypeOK, Outside
      <3> QED
        BY <1>1, <2>2, <3>1 DEF About
    <2> QED
      BY <2>1, <2>2
  <1>4. /\ \A k \in entered : name'[k] = name[k]
        /\ pc'[c] = "scan" => seen'[c] = Listed
        /\ \A d \in Caller \ {c} : seen'[d] = seen[d]
    <2>1. BeginNew(c, p) \/ BeginKnown(c, p)
      BY DEF AddService, ManualRegistration, Begin
    <2>2. CASE BeginNew(c, p)
      <3>1. name \in Seq(Seq(Nat)) /\ NoName \in Seq(Nat) /\ entered \subseteq 1 .. Len(name)
        BY DEF Inv, TypeOK, NoName
      <3>2. \A k \in entered : name'[k] = name[k]
        BY <2>2, <3>1, AppendProperties DEF BeginNew
      <3> QED
        BY <2>2, <3>2 DEF BeginNew, Inv, TypeOK
    <2>3. CASE BeginKnown(c, p)
      <3>1. UNCHANGED <<name, seen>> /\ pc'[c] = "register"
        BY <2>3 DEF BeginKnown, Goto, objects, search, Inv, TypeOK
      <3> QED
        BY <3>1
    <2> QED
      BY <2>1, <2>2, <2>3
  <1>5. Taken'
    BY <1>1, <1>3, <1>4, TakenKept
  <1>6. NoSearch'
    BY <1>1 DEF Search, NoSearch, Outside
  <1>7. SeenListed'
    BY <1>1, <1>4 DEF Search, SeenListed, Listed
  <1> QED
    BY <1>5, <1>6, <1>7 DEF Search

LEMMA SearchNext == Search /\ Inv /\ [Next]_vars => Search'
  <1> SUFFICES ASSUME Search, Inv, [Next]_vars
               PROVE  Search'
    OBVIOUS
  <1>1. ASSUME NEW c \in Caller, NEW p \in Ident,
               AddService(c, p) \/ ManualRegistration(c, p)
        PROVE  Search'
    BY <1>1, SearchBegin
  <1>2. ASSUME NEW c \in Caller, Call(c)
        PROVE  Search'
    <2>1. CASE pc[c] = "scan" /\ NameTaken(c)
      <3>1. UNCHANGED <<lists, ident, maker, beside, renewed, ending>>
        BY <1>2, <2>1 DEF Call, EnsureUniqueHostname, Register, Answered,
                          ProcessRemoteCert, Check, List
      <3> QED
        BY <2>1, <3>1, SearchTaken
    <2>2. CASE ~(pc[c] = "scan" /\ NameTaken(c))
      BY <1>2, <2>2, SearchCall
    <2> QED
      BY <2>1, <2>2
  <1>3. CASE ServerEnds \/ UNCHANGED vars
    <2>1. UNCHANGED <<machines, entered, ident, name, pc, machine, tries, seen>>
      BY <1>3 DEF ServerEnds, Shutdown, ShutdownRegistrations, DropRegistrar,
                  CloseMachines, callers, vars, lists, objects, search
    <2>2. Taken'
      BY <2>1, TakenKept DEF About
    <2> QED
      BY <2>1, <2>2 DEF Search, NoSearch, SeenListed, Listed
  <1> QED
    BY <1>1, <1>2, <1>3 DEF Next

\* No name is tried twice.
LEMMA CandidatesDiffer ==
    ASSUME NEW h \in Seq(Nat), NEW m \in Nat, NEW n \in Nat,
           Candidate(h, m) = Candidate(h, n)
    PROVE  m = n
  <1>1. Len(h) \in Nat /\ Len(h) + 1 # Len(h)
    OBVIOUS
  <1>2. \A x \in Nat : Len(Append(h, x)) = Len(h) + 1 /\ Append(h, x)[Len(h) + 1] = x
    BY AppendProperties
  <1>3. CASE m = 0
    <2>1. Candidate(h, n) = h
      BY <1>3 DEF Candidate
    <2>2. n # 0 => Candidate(h, n) = Append(h, n)
      BY DEF Candidate
    <2> QED
      BY <1>1, <1>2, <1>3, <2>1, <2>2
  <1>4. CASE n = 0
    <2>1. Candidate(h, m) = h
      BY <1>4 DEF Candidate
    <2>2. m # 0 => Candidate(h, m) = Append(h, m)
      BY DEF Candidate
    <2> QED
      BY <1>1, <1>2, <1>4, <2>1, <2>2
  <1>5. CASE m # 0 /\ n # 0
    <2>1. Append(h, m) = Append(h, n)
      BY <1>5 DEF Candidate
    <2> QED
      BY <1>2, <2>1
  <1> QED
    BY <1>3, <1>4, <1>5

\* As many names taken, as many machines that have them
LEMMA TakenCount == ASSUME Search, Inv PROVE SearchEnds
  <1> SUFFICES ASSUME NEW c \in Caller
               PROVE  tries[c] <= Cardinality(entered)
    BY DEF SearchEnds
  <1>1. tries[c] \in Nat
    BY DEF Inv, TypeOK
  <1>2. IsFiniteSet(entered) /\ Cardinality(entered) \in Nat
    <2>1. entered \in SUBSET (1 .. Len(ident)) /\ Len(ident) \in Int /\ 1 \in Int
      BY DEF Inv, TypeOK
    <2>2. IsFiniteSet(1 .. Len(ident))
      BY <2>1, FS_Interval
    <2>3. IsFiniteSet(entered)
      BY <2>1, <2>2, FS_Subset
    <2> QED
      BY <2>3, FS_CardinalityType
  <1>3. CASE tries[c] = 0
    BY <1>1, <1>2, <1>3
  <1>4. CASE tries[c] # 0
    <2> DEFINE h == Hostname[About(c)]
               N == 0 .. tries[c] - 1
               f == [n \in N |-> CHOOSE k \in entered : name[k] = Candidate(h, n)]
    <2>1. h \in Seq(Nat)
      <3>1. pc[c] \notin Outside
        BY <1>4 DEF Search, NoSearch
      <3>2. About(c) \in Ident
        BY <3>1, ObjectFacts DEF Inv, TypeOK, Outside, About
      <3> QED
        BY <3>2, HostnameAssumption
    <2>2. ASSUME NEW n \in N
          PROVE  f[n] \in entered /\ name[f[n]] = Candidate(h, n)
      <3>1. Has(c, n)
        BY DEF Search, Taken
      <3>2. \E k \in entered : name[k] = Candidate(h, n)
        BY <3>1 DEF Has
      <3> QED
        BY <3>2
    <2>3. f \in Injection(N, entered)
      <3>1. ASSUME NEW m \in N, NEW n \in N, f[m] = f[n]
            PROVE  m = n
        <4>1. Candidate(h, m) = Candidate(h, n)
          BY <2>2, <3>1
        <4>2. m \in Nat /\ n \in Nat
          BY <1>1
        <4> HIDE DEF h
        <4> QED
          BY <2>1, <4>1, <4>2, CandidatesDiffer
      <3>2. f \in [N -> entered]
        BY <2>2
      <3> HIDE DEF f
      <3> QED
        BY <3>1, <3>2 DEF Injection, IsInjective
    <2>4. Cardinality(N) <= Cardinality(entered)
      BY <1>2, <2>3, FS_Injection
    <2>5. Cardinality(N) = tries[c]
      BY <1>1, <1>4, FS_Interval
    <2> QED
      BY <2>4, <2>5
  <1> QED
    BY <1>3, <1>4

\* A search for a name finds no more names taken than there are machines, whatever the
\* host names: it ends.  (server.ensure_unique_hostname)
THEOREM SearchComesToEnd == Spec => []SearchEnds
  <1>1. Init => Search
    BY DEF Init, Search, Taken, NoSearch, SeenListed
  <1> QED
    BY <1>1, InitInv, InvNext, SearchNext, TakenCount, PTL DEF Spec
=============================================================================
