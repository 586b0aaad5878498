-------------------------- MODULE NotificationsProofs --------------------------
(***************************************************************************)
(* Proofs about Notifications, for any number of transfers, remotes, offers*)
(* and answers: the buttons of a notification that is shown do something,  *)
(* what is shown waits for an answer, and every stream has an acceptance.  *)
(*                                                                         *)
(* The second is inductive once it says of a notification that is still in *)
(* the queue what it says of one that is shown: the op waits, or a callback*)
(* that will withdraw the notification comes after it.  The third counts   *)
(* what becomes of an acceptance: a callback, a job, a stream.             *)
(***************************************************************************)
EXTENDS Notifications, FiniteSetTheorems, TLAPS

\* The invariants that the types rest on.
ConsentsCounted == \A o \in Op : consents[o] <= answers

QueuedKnown == \A i \in 1 .. Len(idle) : status[idle[i][2]] # "none"

HookedKnown == \A o \in hooked : status[o] # "none"

ShownHooked == \A r \in Remote, o \in Op : shown[r] = <<"ask", o>> => o \in hooked

Inv == TypeOK /\ ConsentsCounted /\ QueuedKnown /\ HookedKnown /\ ShownHooked

\* A change of the status of the op of idle[i] comes after it.
Told(i) == \E j \in 1 .. Len(idle) : i < j /\ idle[j] = <<"status", idle[i][2]>>

AsksFollowed ==
    \A i \in 1 .. Len(idle) :
        idle[i][1] = "ask" => status[idle[i][2]] = "waiting" \/ Told(i)

-----------------------------------------------------------------------------
(***************************************************************************)
(* The queue.                                                              *)
(***************************************************************************)

\* What was queued keeps its place, and what is new comes behind it.
LEMMA QueueFacts ==
    ASSUME idle \in Seq(Callback \X Op), NEW cs \in Seq(Callback \X Op), Queue(cs)
    PROVE  /\ idle' \in Seq(Callback \X Op)
           /\ Len(idle') = Len(idle) + Len(cs)
           /\ \A i \in 1 .. Len(idle) : idle'[i] = idle[i]
           /\ \A i \in 1 .. Len(cs) : idle'[Len(idle) + i] = cs[i]
           /\ \A i \in 1 .. Len(idle') :
                 i \notin 1 .. Len(idle) =>
                     i - Len(idle) \in 1 .. Len(cs) /\ idle'[i] = cs[i - Len(idle)]
  BY DEF Queue

\* One callback more.
LEMMA QueueOne ==
    ASSUME idle \in Seq(Callback \X Op), NEW c \in Callback, NEW o \in Op,
           Queue(<< <<c, o>> >>)
    PROVE  /\ idle' \in Seq(Callback \X Op)
           /\ Len(idle') = Len(idle) + 1
           /\ \A i \in 1 .. Len(idle) : idle'[i] = idle[i]
           /\ idle'[Len(idle) + 1] = <<c, o>>
  BY DEF Queue

\* Two callbacks more.
LEMMA QueueTwo ==
    ASSUME idle \in Seq(Callback \X Op), NEW c \in Callback, NEW d \in Callback,
           NEW o \in Op, Queue(<< <<c, o>>, <<d, o>> >>)
    PROVE  /\ idle' \in Seq(Callback \X Op)
           /\ Len(idle') = Len(idle) + 2
           /\ \A i \in 1 .. Len(idle) : idle'[i] = idle[i]
           /\ idle'[Len(idle) + 1] = <<c, o>>
           /\ idle'[Len(idle) + 2] = <<d, o>>
  BY DEF Queue

\* The callback at the head is taken.
LEMMA TakeHead ==
    ASSUME idle \in Seq(Callback \X Op), idle # <<>>, idle' = Tail(idle)
    PROVE  /\ idle' \in Seq(Callback \X Op)
           /\ Len(idle) \in Nat /\ 1 \in 1 .. Len(idle)
           /\ Len(idle') = Len(idle) - 1
           /\ \A i \in 1 .. Len(idle') : i + 1 \in 1 .. Len(idle) /\ idle'[i] = idle[i + 1]
           /\ idle[1][1] \in Callback /\ idle[1][2] \in Op
           /\ idle[1] = <<idle[1][1], idle[1][2]>>
  <1>1. idle[1] \in Callback \X Op
    OBVIOUS
  <1> QED
    BY <1>1

\* The handlers' commands are about the ops of the handlers.
LEMMA CommandsType ==
    ASSUME TypeOK, NEW c \in Response
    PROVE  /\ Commands(handlers, c) \in Seq(Callback \X Op)
           /\ \A i \in 1 .. Len(Commands(handlers, c)) :
                  /\ Commands(handlers, c)[i][1] \in Command \cup {"unheard"}
                  /\ Commands(handlers, c)[i][2] \in hooked
  <1>1. CASE c = "focus"
    BY <1>1 DEF Commands
  <1>2. CASE c # "focus"
    <2> DEFINE cs == [i \in 1 .. Len(handlers) |-> Emitted(handlers[i], c)]
    <2>1. Commands(handlers, c) = cs
      BY <1>2 DEF Commands
    <2>2. \A i \in 1 .. Len(handlers) : handlers[i] \in hooked /\ handlers[i] \in Op
      BY DEF TypeOK
    <2>3. c \in Callback /\ c \in Command /\ "unheard" \in Callback
      BY <1>2 DEF Response, Callback, Command
    <2>4. Len(handlers) \in Nat
      BY DEF TypeOK
    <2>5. \A i \in 1 .. Len(handlers) :
             /\ Emitted(handlers[i], c) \in Callback \X Op
             /\ Emitted(handlers[i], c)[1] \in Command \cup {"unheard"}
             /\ Emitted(handlers[i], c)[2] \in hooked
      BY <2>2, <2>3 DEF Emitted
    <2>6. cs \in Seq(Callback \X Op) /\ Len(cs) = Len(handlers)
      BY <2>4, <2>5
    <2>7. \A i \in 1 .. Len(cs) : cs[i] = Emitted(handlers[i], c)
      BY <2>6
    <2> QED
      BY <2>1, <2>5, <2>6, <2>7
  <1> QED
    BY <1>1, <1>2

-----------------------------------------------------------------------------
(***************************************************************************)
(* Types.                                                                  *)
(***************************************************************************)
LEMMA InvInit == Init => Inv
  <1> SUFFICES ASSUME Init PROVE Inv
    OBVIOUS
  <1>1. /\ idle \in Seq(Callback \X Op)
        /\ handlers \in Seq(hooked)
        /\ Len(idle) = 0
    BY DEF Init
  <1>2. /\ shown \in [Remote -> {Nothing} \cup ({"ask", "tell"} \X Op)]
        /\ \A r \in Remote : shown[r] = Nothing
    BY DEF Init
  <1>3. 0 \in 0 .. MaxOffers /\ 0 \in 0 .. MaxAnswers
    BY BoundsAssumption
  <1>4. TypeOK
    BY <1>1, <1>2, <1>3 DEF Init, TypeOK
  <1>5. ShownHooked
    BY <1>2 DEF ShownHooked, Nothing
  <1>6. ConsentsCounted /\ HookedKnown
    BY DEF Init, ConsentsCounted, HookedKnown
  <1>7. QueuedKnown
    BY <1>1 DEF QueuedKnown
  <1> QED
    BY <1>4, <1>5, <1>6, <1>7 DEF Inv

\* A callback more about an op that is known
LEMMA QueuedOne ==
    ASSUME Inv, NEW c \in Callback, NEW o \in Op, Queue(<< <<c, o>> >>),
           status'[o] # "none",
           \A q \in Op : status[q] # "none" => status'[q] # "none"
    PROVE  idle' \in Seq(Callback \X Op) /\ QueuedKnown'
  <1>1. \A i \in 1 .. Len(idle) : idle[i][2] \in Op
    BY DEF Inv, TypeOK
  <1>2. Len(idle) \in Nat
    BY DEF Inv, TypeOK
  <1>3. /\ idle' \in Seq(Callback \X Op)
        /\ Len(idle') = Len(idle) + 1
        /\ \A i \in 1 .. Len(idle) : idle'[i] = idle[i]
        /\ idle'[Len(idle) + 1] = <<c, o>>
    BY QueueOne DEF Inv, TypeOK
  <1> QED
    BY <1>1, <1>2, <1>3 DEF Inv, QueuedKnown

LEMMA QueuedTwo ==
    ASSUME Inv, NEW c \in Callback, NEW d \in Callback, NEW o \in Op,
           Queue(<< <<c, o>>, <<d, o>> >>), status'[o] # "none",
           \A q \in Op : status[q] # "none" => status'[q] # "none"
    PROVE  idle' \in Seq(Callback \X Op) /\ QueuedKnown'
  <1>1. \A i \in 1 .. Len(idle) : idle[i][2] \in Op
    BY DEF Inv, TypeOK
  <1>2. Len(idle) \in Nat
    BY DEF Inv, TypeOK
  <1>3. /\ idle' \in Seq(Callback \X Op)
        /\ Len(idle') = Len(idle) + 2
        /\ \A i \in 1 .. Len(idle) : idle'[i] = idle[i]
        /\ idle'[Len(idle) + 1] = <<c, o>>
        /\ idle'[Len(idle) + 2] = <<d, o>>
    BY QueueTwo DEF Inv, TypeOK
  <1>4. ASSUME NEW i \in 1 .. Len(idle')
        PROVE  status'[idle'[i][2]] # "none"
    <2>1. CASE i \in 1 .. Len(idle)
      BY <1>1, <1>3, <2>1 DEF Inv, QueuedKnown
    <2>2. CASE i \notin 1 .. Len(idle)
      <3>1. i = Len(idle) + 1 \/ i = Len(idle) + 2
        BY <1>2, <1>3, <2>2
      <3>2. idle'[i][2] = o
        BY <1>3, <3>1
      <3> QED
        BY <3>2
    <2> QED
      BY <2>1, <2>2
  <1> QED
    BY <1>3, <1>4 DEF QueuedKnown

\* What a change of a status leaves true
LEMMA SetStatusFacts ==
    ASSUME Inv, NEW o \in Op, NEW s \in {"waiting", "transferring", "over"},
           SetStatus(o, s)
    PROVE  /\ status' \in [Op -> {"none", "waiting", "transferring", "over"}]
           /\ status'[o] = s
           /\ status'[o] # "none"
           /\ \A q \in Op : status[q] # "none" => status'[q] # "none"
           /\ \A q \in Op \ {o} : status'[q] = status[q]
  BY DEF SetStatus, Inv, TypeOK

LEMMA CallbackNames ==
    /\ "ask" \in Callback /\ "tell" \in Callback /\ "list" \in Callback
    /\ "setup" \in Callback
    /\ "status" \in Callback /\ "accept" \in Callback /\ "decline" \in Callback
  BY DEF Callback

\* A change of a status touches neither the screen nor what the user did.
LEMMA StillTyped ==
    ASSUME Inv, UNCHANGED <<from, listed, screen, user>>,
           status' \in [Op -> {"none", "waiting", "transferring", "over"}],
           \A q \in Op : status[q] # "none" => status'[q] # "none",
           offers' \in 0 .. MaxOffers,
           idle' \in Seq(Callback \X Op), QueuedKnown',
           UNCHANGED jobs \/ jobs' \in [Op -> [Command -> Nat]],
           UNCHANGED starts \/ starts' \in [Op -> Nat]
    PROVE  Inv'
  <1>1. UNCHANGED <<from, listed, shown, handlers, hooked, beside, answers, consents,
                    pressed, deaf, lost>>
    BY DEF screen, user
  <1>2. listed' \subseteq {o \in Op : status'[o] # "none"}
    BY <1>1 DEF Inv, TypeOK
  <1>3. TypeOK'
    BY <1>1, <1>2 DEF Inv, TypeOK
  <1>4. ConsentsCounted' /\ ShownHooked'
    BY <1>1 DEF Inv, ConsentsCounted, ShownHooked
  <1>5. HookedKnown'
    BY <1>1 DEF Inv, TypeOK, HookedKnown
  <1> QED
    BY <1>3, <1>4, <1>5 DEF Inv

LEMMA OfferInv == ASSUME Inv, NEW o \in Op, Offer(o) PROVE Inv'
  <1>1. /\ SetStatus(o, "waiting")
        /\ Queue(<< <<"ask", o>>, <<"setup", o>> >>)
        /\ offers' \in 0 .. MaxOffers
        /\ UNCHANGED <<from, listed, screen, user, jobs, starts>>
    BY BoundsAssumption DEF Offer, Offered, Inv, TypeOK
  <1>2. /\ status' \in [Op -> {"none", "waiting", "transferring", "over"}]
        /\ status'[o] # "none"
        /\ \A q \in Op : status[q] # "none" => status'[q] # "none"
    BY <1>1, SetStatusFacts
  <1>3. idle' \in Seq(Callback \X Op) /\ QueuedKnown'
    BY <1>1, <1>2, QueuedTwo, CallbackNames
  <1> QED
    BY <1>1, <1>2, <1>3, StillTyped

LEMMA OfferAgainInv == ASSUME Inv, NEW o \in Op, OfferAgain(o) PROVE Inv'
  <1>1. /\ SetStatus(o, "waiting")
        /\ Queue(<< <<"status", o>> >>)
        /\ offers' \in 0 .. MaxOffers
        /\ UNCHANGED <<from, listed, screen, user, jobs, starts>>
    BY BoundsAssumption DEF OfferAgain, Offered, Inv, TypeOK
  <1>2. /\ status' \in [Op -> {"none", "waiting", "transferring", "over"}]
        /\ status'[o] # "none"
        /\ \A q \in Op : status[q] # "none" => status'[q] # "none"
    BY <1>1, SetStatusFacts
  <1>3. idle' \in Seq(Callback \X Op) /\ QueuedKnown'
    BY <1>1, <1>2, QueuedOne, CallbackNames
  <1> QED
    BY <1>1, <1>2, <1>3, StillTyped

LEMMA EndsInv == ASSUME Inv, NEW o \in Op, EndsTold(o) \/ EndsQuietly(o) PROVE Inv'
  <1>1. /\ SetStatus(o, "over")
        /\ UNCHANGED <<from, listed, offers, screen, user, jobs, starts>>
    BY DEF EndsTold, EndsQuietly
  <1>2. /\ status' \in [Op -> {"none", "waiting", "transferring", "over"}]
        /\ status'[o] # "none"
        /\ \A q \in Op : status[q] # "none" => status'[q] # "none"
    BY <1>1, SetStatusFacts
  <1>3. idle' \in Seq(Callback \X Op) /\ QueuedKnown'
    <2>1. CASE EndsTold(o)
      <3>1. Queue(<< <<"tell", o>>, <<"status", o>> >>)
        BY <2>1 DEF EndsTold
      <3> QED
        BY <1>2, <3>1, QueuedTwo, CallbackNames
    <2>2. CASE EndsQuietly(o)
      <3>1. Queue(<< <<"status", o>> >>)
        BY <2>2 DEF EndsQuietly
      <3> QED
        BY <1>2, <3>1, QueuedOne, CallbackNames
    <2> QED
      BY <2>1, <2>2
  <1>4. offers' \in 0 .. MaxOffers
    BY <1>1 DEF Inv, TypeOK
  <1> QED
    BY <1>1, <1>2, <1>3, <1>4, StillTyped

\* A job of the pool
LEMMA JobInv ==
    ASSUME Inv, NEW o \in Op, StartTransferOp(o) \/ CancelTransferOpRequest(o)
    PROVE  Inv'
  <1>1. PICK s \in {"transferring", "over"} : SetStatus(o, s)
    BY DEF StartTransferOp, CancelTransferOpRequest
  <1>2. /\ Queue(<< <<"status", o>> >>)
        /\ UNCHANGED <<from, listed, offers, screen, user>>
    BY DEF StartTransferOp, CancelTransferOpRequest, Take
  <1>3. jobs' \in [Op -> [Command -> Nat]]
    <2>1. PICK c \in Command : Take(o, c)
      BY DEF StartTransferOp, CancelTransferOpRequest, Command
    <2> QED
      BY <2>1 DEF Take, Inv, TypeOK
  <1>4. starts' \in [Op -> Nat]
    <2>1. starts \in [Op -> Nat]
      BY DEF Inv, TypeOK
    <2>2. CASE StartTransferOp(o)
      BY <2>1, <2>2 DEF StartTransferOp
    <2>3. CASE CancelTransferOpRequest(o)
      BY <2>1, <2>3 DEF CancelTransferOpRequest
    <2> QED
      BY <2>2, <2>3
  <1>5. /\ status' \in [Op -> {"none", "waiting", "transferring", "over"}]
        /\ status'[o] # "none"
        /\ \A q \in Op : status[q] # "none" => status'[q] # "none"
    BY <1>1, SetStatusFacts
  <1>6. idle' \in Seq(Callback \X Op) /\ QueuedKnown'
    BY <1>2, <1>5, QueuedOne, CallbackNames
  <1>7. offers' \in 0 .. MaxOffers
    BY <1>2 DEF Inv, TypeOK
  <1> QED
    BY <1>2, <1>3, <1>4, <1>5, <1>6, <1>7, StillTyped

\* The user answers.
LEMMA ConsentFacts ==
    ASSUME Inv, NEW o \in Op, NEW c \in Response, Consent(o, c)
    PROVE  /\ answers' \in 0 .. MaxAnswers
           /\ consents' \in [Op -> 0 .. MaxAnswers]
           /\ ConsentsCounted'
  <1>1. answers' \in 0 .. MaxAnswers /\ answers' = answers + 1 /\ answers \in Nat
    BY BoundsAssumption DEF Consent, Inv, TypeOK
  <1>2. \A q \in Op : consents[q] \in Nat /\ consents[q] <= answers
    BY BoundsAssumption DEF Inv, TypeOK, ConsentsCounted
  <1>3. consents \in [Op -> Nat]
    BY BoundsAssumption DEF Inv, TypeOK
  <1>4. consents' \in [Op -> Nat] /\ \A q \in Op : consents'[q] <= answers'
    <2>1. CASE c = "accept"
      BY <1>1, <1>2, <1>3, <2>1 DEF Consent
    <2>2. CASE c # "accept"
      BY <1>1, <1>2, <1>3, <2>2 DEF Consent
    <2> QED
      BY <2>1, <2>2
  <1>5. consents' \in [Op -> 0 .. MaxAnswers]
    BY <1>1, <1>4, BoundsAssumption
  <1> QED
    BY <1>1, <1>4, <1>5 DEF ConsentsCounted

LEMMA WindowInv ==
    ASSUME Inv, NEW o \in Op, NEW c \in Command, AnswerInWindow(o, c)
    PROVE  Inv'
  <1>1. c \in Callback /\ c \in Response /\ status[o] # "none"
    BY DEF AnswerInWindow, Callback, Response, Command
  <1>2. Queue(<< <<c, o>> >>) /\ Consent(o, c)
    BY DEF AnswerInWindow
  <1>3. UNCHANGED <<from, status, listed, offers, screen, pressed, deaf, jobs, starts>>
    BY DEF AnswerInWindow, ops
  <1>4. idle' \in Seq(Callback \X Op) /\ QueuedKnown'
    BY <1>1, <1>2, <1>3, QueuedOne
  <1>5. /\ answers' \in 0 .. MaxAnswers
        /\ consents' \in [Op -> 0 .. MaxAnswers]
        /\ ConsentsCounted'
    BY <1>1, <1>2, ConsentFacts
  <1>6. lost' \subseteq hooked'
    BY <1>3 DEF AnswerInWindow, Inv, TypeOK, screen
  <1>7. TypeOK'
    BY <1>3, <1>4, <1>5, <1>6 DEF Inv, TypeOK, screen
  <1> QED
    BY <1>3, <1>4, <1>5, <1>7 DEF Inv, HookedKnown, ShownHooked, screen

\* The user presses a notification that is shown: it is about an op of the remote.
LEMMA PressedFacts ==
    ASSUME Inv, NEW r \in Remote, shown[r] # Nothing
    PROVE  /\ shown[r][1] \in {"ask", "tell"}
           /\ shown[r][2] \in Op
           /\ shown[r] = <<shown[r][1], shown[r][2]>>
           /\ shown[r][1] = "ask" => shown[r][2] \in hooked
  <1>1. shown[r] \in {"ask", "tell"} \X Op
    BY DEF Inv, TypeOK
  <1>2. /\ shown[r][1] \in {"ask", "tell"}
        /\ shown[r][2] \in Op
        /\ shown[r] = <<shown[r][1], shown[r][2]>>
    BY <1>1
  <1> QED
    BY <1>2 DEF Inv, ShownHooked

LEMMA PressInv ==
    ASSUME Inv, NEW r \in Remote, NEW c \in Response, Press(r, c)
    PROVE  Inv'
  <1> DEFINE o == shown[r][2]
  <1>1. o \in Op /\ (shown[r][1] = "ask" => o \in hooked)
    BY PressedFacts DEF Press
  <1>2. UNCHANGED <<from, status, listed, offers, hooked, beside, jobs, starts>>
    BY DEF Press, ops
  <1>3. /\ answers' \in 0 .. MaxAnswers
        /\ consents' \in [Op -> 0 .. MaxAnswers]
        /\ ConsentsCounted'
    BY <1>1, ConsentFacts DEF Press
  <1>4. idle' \in Seq(Callback \X Op) /\ QueuedKnown'
    <2> DEFINE cs == Commands(handlers, c)
    <2>1. /\ cs \in Seq(Callback \X Op)
          /\ \A i \in 1 .. Len(cs) : cs[i][2] \in hooked
      BY CommandsType DEF Inv
    <2>2. idle \in Seq(Callback \X Op) /\ Queue(cs)
      BY DEF Press, Respond, Inv, TypeOK
    <2>3. /\ idle' \in Seq(Callback \X Op)
          /\ \A i \in 1 .. Len(idle) : idle'[i] = idle[i]
          /\ \A i \in 1 .. Len(idle') :
                i \notin 1 .. Len(idle) =>
                    i - Len(idle) \in 1 .. Len(cs) /\ idle'[i] = cs[i - Len(idle)]
      <3> HIDE DEF cs
      <3> QED
        BY <2>1, <2>2, QueueFacts
    <2>4. \A q \in hooked : status'[q] # "none"
      BY <1>2 DEF Inv, HookedKnown
    <2> HIDE DEF cs
    <2>5. ASSUME NEW i \in 1 .. Len(idle')
          PROVE  status'[idle'[i][2]] # "none"
      <3>1. CASE i \in 1 .. Len(idle)
        BY <1>2, <2>3, <3>1 DEF Inv, QueuedKnown
      <3>2. CASE i \notin 1 .. Len(idle)
        BY <2>1, <2>3, <2>4, <3>2
      <3> QED
        BY <3>1, <3>2
    <2> QED
      BY <2>3, <2>5 DEF QueuedKnown
  <1>5. handlers' \in Seq(hooked')
    BY DEF Press, Respond
  <1>6. /\ shown' \in [Remote -> {Nothing} \cup ({"ask", "tell"} \X Op)]
        /\ \A q \in Remote : shown'[q] = shown[q] \/ shown'[q] = Nothing
    BY DEF Press, Withdraw, Inv, TypeOK
  <1>7. pressed' \subseteq hooked' /\ lost' \subseteq hooked'
    BY <1>1, <1>2 DEF Press, Inv, TypeOK
  <1>8. deaf' \subseteq hooked'
    BY <1>2 DEF Press, AskedBeside, Inv, TypeOK
  <1>9. TypeOK'
    <2>1. \A q \in Remote : shown'[q] # Nothing => from'[shown'[q][2]] = q
      BY <1>2, <1>6 DEF Inv, TypeOK
    <2> QED
      BY <1>2, <1>3, <1>4, <1>5, <1>6, <1>7, <1>8, <2>1 DEF Inv, TypeOK
  <1>10. HookedKnown' /\ ShownHooked'
    BY <1>2, <1>6 DEF Inv, HookedKnown, ShownHooked, Nothing
  <1> QED
    BY <1>3, <1>4, <1>9, <1>10 DEF Inv

\* The callback at the head runs.
LEMMA Dispatched ==
    ASSUME Inv, RunIdle
    PROVE  \E o \in Op :
              \/ idle[1] = <<"ask", o>> /\ (Ask(o) \/ TurnedOff)
              \/ idle[1] = <<"tell", o>> /\ (Tell(o) \/ TurnedOff)
              \/ idle[1] = <<"list", o>> /\ AddOp(o)
              \/ idle[1] = <<"status", o>> /\ StatusChanged(o)
              \/ \E c \in Command : idle[1] = <<c, o>> /\ OpCommandIssued(o, c)
              \/ idle[1] = <<"unheard", o>> /\ UNCHANGED <<screen, listed, jobs>>
  <1> DEFINE c == idle[1][1]
             o == idle[1][2]
  <1>1. c \in Callback /\ o \in Op /\ idle[1] = <<c, o>> /\ c # "setup"
    BY TakeHead DEF RunIdle, Inv, TypeOK
  <1>2. Dispatch(c, o)
    BY DEF RunIdle
  <1> HIDE DEF c, o
  <1>3. CASE c = "ask"
    BY <1>1, <1>2, <1>3 DEF Dispatch
  <1>4. CASE c = "tell"
    BY <1>1, <1>2, <1>4 DEF Dispatch
  <1>5. CASE c = "list"
    BY <1>1, <1>2, <1>5 DEF Dispatch
  <1>6. CASE c = "status"
    BY <1>1, <1>2, <1>6 DEF Dispatch
  <1>7. CASE c \in Command
    <2>1. OpCommandIssued(o, c)
      <3>1. c = "accept" \/ c = "decline"
        BY <1>7 DEF Command
      <3>2. CASE c = "accept"
        BY <1>2, <3>2 DEF Dispatch, Command
      <3>3. CASE c = "decline"
        BY <1>2, <3>3 DEF Dispatch, Command
      <3> QED
        BY <3>1, <3>2, <3>3
    <2> QED
      BY <1>1, <1>7, <2>1
  <1>8. CASE c = "unheard"
    BY <1>1, <1>2, <1>8 DEF Dispatch, Command
  <1> QED
    BY <1>1, <1>3, <1>4, <1>5, <1>6, <1>7, <1>8 DEF Callback, Command

LEMMA NotNothing == ASSUME NEW c, NEW o PROVE <<c, o>> # Nothing
  BY DEF Nothing

\* What a callback does to the screen
LEMMA ScreenInv ==
    ASSUME Inv, NEW o \in Op, status[o] # "none",
           \/ Ask(o) \/ Tell(o) \/ TurnedOff \/ AddOp(o) \/ StatusChanged(o)
           \/ \E c \in Command : OpCommandIssued(o, c)
           \/ UNCHANGED <<screen, listed, jobs>>,
           UNCHANGED <<from, status, offers, user, starts>>,
           idle' \in Seq(Callback \X Op)
    PROVE  TypeOK' /\ HookedKnown' /\ ShownHooked'
  <1>1. UNCHANGED <<from, status, offers, answers, consents, pressed, deaf, lost,
                    starts>>
    BY DEF user
  <1>2. from[o] \in Remote
    BY SendersAssumption DEF Inv, TypeOK
  <1>3. /\ from \in Senders
        /\ hooked \subseteq Op
        /\ handlers \in Seq(hooked)
        /\ shown \in [Remote -> {Nothing} \cup ({"ask", "tell"} \X Op)]
        /\ jobs \in [Op -> [Command -> Nat]]
        /\ \A r \in Remote : shown[r] # Nothing => from[shown[r][2]] = r
        /\ lost \subseteq hooked /\ pressed \subseteq hooked /\ deaf \subseteq hooked
    BY DEF Inv, TypeOK
  <1>4. CASE Ask(o)
    <2>1. shown' = [shown EXCEPT ![from[o]] = <<"ask", o>>]
      BY <1>4 DEF Ask
    <2>2. /\ hooked' = hooked \cup {o}
          /\ handlers' = Append(handlers, o)
          /\ beside' \in BOOLEAN
          /\ UNCHANGED <<listed, jobs>>
      BY <1>4 DEF Ask
    <2>3. handlers' \in Seq(hooked')
      <3>1. handlers \in Seq(hooked') /\ o \in hooked'
        BY <1>3, <2>2
      <3> QED
        BY <2>2, <3>1
    <2>4. /\ shown' \in [Remote -> {Nothing} \cup ({"ask", "tell"} \X Op)]
          /\ \A r \in Remote \ {from[o]} : shown'[r] = shown[r]
          /\ shown'[from[o]] = <<"ask", o>>
      BY <1>2, <1>3, <2>1
    <2>5. \A r \in Remote : shown'[r] # Nothing => from'[shown'[r][2]] = r
      <3> SUFFICES ASSUME NEW r \in Remote, shown'[r] # Nothing
                   PROVE  from[shown'[r][2]] = r
        BY <1>1
      <3>1. CASE r = from[o]
        BY <2>4, <3>1
      <3>2. CASE r # from[o]
        <4>1. shown'[r] = shown[r]
          BY <2>4, <3>2
        <4> QED
          BY <1>3, <4>1
      <3> QED
        BY <3>1, <3>2
    <2>6. TypeOK'
      BY <1>1, <2>2, <2>3, <2>4, <2>5 DEF Inv, TypeOK
    <2>7. HookedKnown'
      BY <1>1, <2>2 DEF Inv, HookedKnown
    <2>8. ShownHooked'
      BY <2>2, <2>4 DEF Inv, ShownHooked
    <2> QED
      BY <2>6, <2>7, <2>8
  <1>5. CASE Tell(o)
    <2>1. shown' = [shown EXCEPT ![from[o]] = <<"tell", o>>]
      BY <1>5 DEF Tell
    <2>2. UNCHANGED <<handlers, hooked, beside, listed, jobs>>
      BY <1>5 DEF Tell
    <2>3. /\ shown' \in [Remote -> {Nothing} \cup ({"ask", "tell"} \X Op)]
          /\ \A r \in Remote \ {from[o]} : shown'[r] = shown[r]
          /\ shown'[from[o]] = <<"tell", o>>
      BY <1>2, <1>3, <2>1
    <2>4. \A r \in Remote : shown'[r] # Nothing => from'[shown'[r][2]] = r
      <3> SUFFICES ASSUME NEW r \in Remote, shown'[r] # Nothing
                   PROVE  from[shown'[r][2]] = r
        BY <1>1
      <3>1. CASE r = from[o]
        BY <2>3, <3>1
      <3>2. CASE r # from[o]
        <4>1. shown'[r] = shown[r]
          BY <2>3, <3>2
        <4> QED
          BY <1>3, <4>1
      <3> QED
        BY <3>1, <3>2
    <2>5. TypeOK'
      BY <1>1, <2>2, <2>3, <2>4 DEF Inv, TypeOK
    <2>6. HookedKnown'
      BY <1>1, <2>2 DEF Inv, HookedKnown
    <2>7. ShownHooked'
      BY <2>2, <2>3 DEF Inv, ShownHooked
    <2> QED
      BY <2>5, <2>6, <2>7
  <1>6. CASE TurnedOff \/ UNCHANGED <<screen, listed, jobs>>
    <2>1. UNCHANGED <<shown, handlers, hooked, beside, listed, jobs>>
      BY <1>6 DEF TurnedOff, screen
    <2> QED
      BY <1>1, <2>1 DEF Inv, TypeOK, HookedKnown, ShownHooked
  <1>7. CASE AddOp(o)
    <2>1. listed' = listed \cup {o} /\ UNCHANGED <<shown, handlers, hooked, beside, jobs>>
      BY <1>7 DEF AddOp, screen
    <2> QED
      BY <1>1, <2>1 DEF Inv, TypeOK, HookedKnown, ShownHooked
  <1>8. CASE StatusChanged(o)
    <2>1. UNCHANGED <<handlers, hooked, beside, listed, jobs>>
      BY <1>8 DEF StatusChanged
    <2>2. /\ shown' \in [Remote -> {Nothing} \cup ({"ask", "tell"} \X Op)]
          /\ \A r \in Remote : shown'[r] = shown[r] \/ shown'[r] = Nothing
      BY <1>2, <1>3, <1>8 DEF StatusChanged, Withdraw
    <2>3. \A r \in Remote : shown'[r] # Nothing => from'[shown'[r][2]] = r
      BY <1>1, <1>3, <2>2
    <2>4. TypeOK'
      BY <1>1, <2>1, <2>2, <2>3 DEF Inv, TypeOK
    <2>5. HookedKnown'
      BY <1>1, <2>1 DEF Inv, HookedKnown
    <2>6. ShownHooked'
      <3> SUFFICES ASSUME NEW r \in Remote, NEW q \in Op, shown'[r] = <<"ask", q>>
                   PROVE  q \in hooked
        BY <2>1 DEF ShownHooked
      <3>1. shown'[r] = shown[r]
        BY <2>2, NotNothing
      <3> QED
        BY <3>1 DEF Inv, ShownHooked
    <2> QED
      BY <2>4, <2>5, <2>6
  <1>9. ASSUME NEW c \in Command, OpCommandIssued(o, c)
        PROVE  TypeOK' /\ HookedKnown' /\ ShownHooked'
    <2>1. UNCHANGED <<shown, handlers, hooked, beside, listed>>
      BY <1>9 DEF OpCommandIssued, screen
    <2>2. jobs' \in [Op -> [Command -> Nat]]
      BY <1>3, <1>9 DEF OpCommandIssued
    <2> QED
      BY <1>1, <2>1, <2>2 DEF Inv, TypeOK, HookedKnown, ShownHooked
  <1> QED
    BY <1>4, <1>5, <1>6, <1>7, <1>8, <1>9

LEMMA RunIdleInv == ASSUME Inv, RunIdle PROVE Inv'
  <1>1. PICK o \in Op :
              \/ idle[1] = <<"ask", o>> /\ (Ask(o) \/ TurnedOff)
              \/ idle[1] = <<"tell", o>> /\ (Tell(o) \/ TurnedOff)
              \/ idle[1] = <<"list", o>> /\ AddOp(o)
              \/ idle[1] = <<"status", o>> /\ StatusChanged(o)
              \/ \E c \in Command : idle[1] = <<c, o>> /\ OpCommandIssued(o, c)
              \/ idle[1] = <<"unheard", o>> /\ UNCHANGED <<screen, listed, jobs>>
    BY Dispatched
  <1>2. idle # <<>> /\ idle' = Tail(idle) /\ idle \in Seq(Callback \X Op)
    BY DEF RunIdle, Inv, TypeOK
  <1>3. /\ idle' \in Seq(Callback \X Op)
        /\ Len(idle) \in Nat /\ 1 \in 1 .. Len(idle)
        /\ \A i \in 1 .. Len(idle') : i + 1 \in 1 .. Len(idle) /\ idle'[i] = idle[i + 1]
    BY <1>2, TakeHead
  <1>4. UNCHANGED <<from, status, offers, user, starts>>
    BY DEF RunIdle
  <1>5. status[o] # "none"
    <2>1. idle[1][2] = o
      BY <1>1
    <2> QED
      BY <1>3, <2>1 DEF Inv, QueuedKnown
  <1>6. TypeOK' /\ HookedKnown' /\ ShownHooked'
    BY <1>1, <1>3, <1>4, <1>5, ScreenInv
  <1>7. QueuedKnown'
    BY <1>3, <1>4 DEF Inv, QueuedKnown
  <1>8. ConsentsCounted'
    BY <1>4 DEF Inv, ConsentsCounted, user
  <1> QED
    BY <1>6, <1>7, <1>8 DEF Inv

\* Another callback takes the place of the one that is run, at the end.
LEMMA SetupFacts ==
    ASSUME idle \in Seq(Callback \X Op), InitialSetupComplete
    PROVE  /\ idle' \in Seq(Callback \X Op)
           /\ Len(idle) \in Nat /\ 1 \in 1 .. Len(idle)
           /\ Len(idle') = Len(idle)
           /\ \A i \in 1 .. Len(idle) - 1 : i + 1 \in 1 .. Len(idle) /\ idle'[i] = idle[i + 1]
           /\ idle'[Len(idle)] = <<"list", idle[1][2]>>
           /\ idle[1][1] = "setup" /\ idle[1][2] \in Op
  <1>1. /\ idle # <<>> /\ idle[1][1] = "setup"
        /\ idle' = Append(Tail(idle), <<"list", idle[1][2]>>)
    BY DEF InitialSetupComplete
  <1>2. idle[1] \in Callback \X Op /\ Len(idle) \in Nat /\ 1 \in 1 .. Len(idle)
    BY <1>1
  <1>3. idle[1][2] \in Op /\ <<"list", idle[1][2]>> \in Callback \X Op
    BY <1>2, CallbackNames
  <1>4. /\ Tail(idle) \in Seq(Callback \X Op)
        /\ Len(Tail(idle)) = Len(idle) - 1
        /\ \A i \in 1 .. Len(idle) - 1 : Tail(idle)[i] = idle[i + 1]
    BY <1>1
  <1> QED
    BY <1>1, <1>2, <1>3, <1>4

LEMMA SetupInv == ASSUME Inv, InitialSetupComplete PROVE Inv'
  <1>1. /\ idle' \in Seq(Callback \X Op)
        /\ Len(idle) \in Nat /\ 1 \in 1 .. Len(idle)
        /\ Len(idle') = Len(idle)
        /\ \A i \in 1 .. Len(idle) - 1 : i + 1 \in 1 .. Len(idle) /\ idle'[i] = idle[i + 1]
        /\ idle'[Len(idle)] = <<"list", idle[1][2]>>
    BY SetupFacts DEF Inv, TypeOK
  <1>2. UNCHANGED <<from, status, listed, offers, jobs, shown, handlers, hooked,
                    beside, answers, consents, pressed, deaf, lost, starts>>
    BY DEF InitialSetupComplete, ops, screen, user
  <1>3. QueuedKnown'
    <2> SUFFICES ASSUME NEW i \in 1 .. Len(idle')
                 PROVE  status[idle'[i][2]] # "none"
      BY <1>2 DEF QueuedKnown
    <2>1. CASE i = Len(idle)
      <3>1. idle'[i][2] = idle[1][2]
        BY <1>1, <2>1
      <3> QED
        BY <1>1, <3>1 DEF Inv, QueuedKnown
    <2>2. CASE i # Len(idle)
      <3>1. i \in 1 .. Len(idle) - 1
        BY <1>1, <2>2
      <3> QED
        BY <1>1, <3>1 DEF Inv, QueuedKnown
    <2> QED
      BY <2>1, <2>2
  <1>4. TypeOK'
    BY <1>1, <1>2 DEF Inv, TypeOK
  <1> QED
    BY <1>2, <1>3, <1>4 DEF Inv, ConsentsCounted, HookedKnown, ShownHooked

LEMMA InvNext == Inv /\ [Next]_vars => Inv'
  <1> SUFFICES ASSUME Inv, [Next]_vars
               PROVE  Inv'
    OBVIOUS
  <1>1. ASSUME NEW o \in Op, Offer(o) PROVE Inv'
    BY <1>1, OfferInv
  <1>2. ASSUME NEW o \in Op, OfferAgain(o) PROVE Inv'
    BY <1>2, OfferAgainInv
  <1>3. ASSUME NEW o \in Op, EndsTold(o) \/ EndsQuietly(o) PROVE Inv'
    BY <1>3, EndsInv
  <1>4. ASSUME NEW o \in Op, StartTransferOp(o) \/ CancelTransferOpRequest(o) PROVE Inv'
    BY <1>4, JobInv
  <1>5. ASSUME NEW o \in Op, NEW c \in Command, AnswerInWindow(o, c) PROVE Inv'
    BY <1>5, WindowInv
  <1>6. ASSUME NEW r \in Remote, NEW c \in Response, Press(r, c) PROVE Inv'
    BY <1>6, PressInv
  <1>7. CASE RunIdle
    BY <1>7, RunIdleInv
  <1>8. CASE UNCHANGED vars
    <2>1. UNCHANGED <<from, status, listed, offers, idle, jobs, shown, handlers, hooked,
                      beside, answers, consents, pressed, deaf, lost, starts>>
      BY <1>8 DEF vars, ops, screen, user
    <2> QED
      BY <2>1 DEF Inv, TypeOK, ConsentsCounted, QueuedKnown, HookedKnown, ShownHooked
  <1>9. CASE InitialSetupComplete
    BY <1>9, SetupInv
  <1> QED
    BY <1>1, <1>2, <1>3, <1>4, <1>5, <1>6, <1>7, <1>8, <1>9 DEF Next

\* Every variable keeps its type: the queue holds callbacks of transfers, a
\* notification is shown under the remote of its op, and every handler is one of an op
\* whose notification was shown.  (notifications.NewOpUserNotification)
THEOREM TypeCorrect == Spec => []TypeOK
  <1>1. Inv => TypeOK
    BY DEF Inv
  <1> QED
    BY <1>1, InvInit, InvNext, PTL DEF Spec

-----------------------------------------------------------------------------
(***************************************************************************)
(* Buttons.                                                                *)
(***************************************************************************)
Handled(o) == \E i \in 1 .. Len(handlers) : handlers[i] = o

\* Only Ask shows an offer.
LEMMA OthersShow ==
    ASSUME Inv, NEW o \in Op, NEW r \in Remote, NEW q \in Op,
           \/ Tell(o) \/ TurnedOff \/ AddOp(o) \/ StatusChanged(o)
           \/ \E c \in Command : OpCommandIssued(o, c)
           \/ UNCHANGED <<screen, listed, jobs>>,
           shown'[r] = <<"ask", q>>
    PROVE  shown[r] = <<"ask", q>>
  <1>1. shown \in [Remote -> {Nothing} \cup ({"ask", "tell"} \X Op)]
    BY DEF Inv, TypeOK
  <1>2. CASE Tell(o)
    BY <1>1, <1>2 DEF Tell
  <1>3. CASE StatusChanged(o)
    <2>1. shown'[r] = shown[r] \/ shown'[r] = Nothing
      BY <1>1, <1>3 DEF StatusChanged, Withdraw
    <2> QED
      BY <2>1, NotNothing
  <1>4. CASE \/ TurnedOff \/ AddOp(o) \/ UNCHANGED <<screen, listed, jobs>>
             \/ \E c \in Command : OpCommandIssued(o, c)
    BY <1>4 DEF TurnedOff, AddOp, OpCommandIssued, screen
  <1> QED
    BY <1>2, <1>3, <1>4

\* Ask shows its own.
LEMMA AskShows ==
    ASSUME Inv, NEW o \in Op, NEW r \in Remote, NEW q \in Op, Ask(o),
           shown'[r] = <<"ask", q>>
    PROVE  q = o \/ shown[r] = <<"ask", q>>
  <1>1. shown \in [Remote -> {Nothing} \cup ({"ask", "tell"} \X Op)]
    BY DEF Inv, TypeOK
  <1> QED
    BY <1>1 DEF Ask

LEMMA ButtonsNext == ButtonsWork /\ Inv /\ [Next]_vars => ButtonsWork'
  <1> SUFFICES ASSUME ButtonsWork, Inv, [Next]_vars,
                      NEW r \in Remote, NEW q \in Op, shown'[r] = <<"ask", q>>
               PROVE  q \in deaf' \/ Handled(q)'
    BY DEF ButtonsWork, Handled
  <1>1. CASE UNCHANGED <<screen, deaf>>
    BY <1>1 DEF ButtonsWork, Handled, screen
  <1>2. ASSUME NEW p \in Remote, NEW c \in Response, Press(p, c)
        PROVE  q \in deaf'
    <2>1. p # r /\ shown[r] = <<"ask", q>>
      BY <1>2, NotNothing DEF Press, Withdraw, Inv, TypeOK
    <2>2. q \in hooked
      BY <2>1 DEF Inv, ShownHooked
    <2>3. q \in AskedBeside(p)
      BY <2>1, <2>2 DEF AskedBeside
    <2> QED
      BY <1>2, <2>3 DEF Press
  <1>3. CASE RunIdle
    <2>1. PICK o \in Op : \/ Ask(o) \/ Tell(o) \/ TurnedOff \/ AddOp(o)
                          \/ StatusChanged(o)
                          \/ \E c \in Command : OpCommandIssued(o, c)
                          \/ UNCHANGED <<screen, listed, jobs>>
      BY <1>3, Dispatched
    <2>2. deaf' = deaf
      BY <1>3 DEF RunIdle, user
    <2>3. handlers \in Seq(Op)
      BY DEF Inv, TypeOK
    <2>4. Handled(q) => Handled(q)'
      <3>1. CASE Ask(o)
        <4>1. /\ Len(handlers') = Len(handlers) + 1
              /\ \A i \in 1 .. Len(handlers) : handlers'[i] = handlers[i]
          BY <2>3, <3>1 DEF Ask
        <4>2. Len(handlers) \in Nat
          BY <2>3
        <4> QED
          BY <4>1, <4>2 DEF Handled
      <3>2. CASE ~Ask(o)
        BY <2>1, <3>2
        DEF Handled, Tell, TurnedOff, AddOp, StatusChanged, OpCommandIssued, screen
      <3> QED
        BY <3>1, <3>2
    <2>5. CASE shown[r] = <<"ask", q>>
      BY <2>2, <2>4, <2>5 DEF ButtonsWork, Handled
    <2>6. CASE Ask(o) /\ q = o
      <3>1. /\ Len(handlers) \in Nat
            /\ Len(handlers') = Len(handlers) + 1
            /\ handlers'[Len(handlers) + 1] = q
        BY <2>3, <2>6 DEF Ask
      <3> QED
        BY <3>1 DEF Handled
    <2> QED
      BY <2>1, <2>5, <2>6, AskShows, OthersShow
  <1>4. ASSUME NEW o \in Op,
               \/ Offer(o) \/ OfferAgain(o) \/ EndsTold(o) \/ EndsQuietly(o)
               \/ StartTransferOp(o) \/ CancelTransferOpRequest(o)
               \/ \E c \in Command : AnswerInWindow(o, c)
        PROVE  UNCHANGED <<screen, deaf>>
    BY <1>4 DEF Offer, OfferAgain, EndsTold, EndsQuietly, StartTransferOp,
                CancelTransferOpRequest, Take, AnswerInWindow, user
  <1>5. CASE UNCHANGED vars
    BY <1>1, <1>5 DEF vars, user
  <1>6. CASE InitialSetupComplete
    BY <1>1, <1>6 DEF InitialSetupComplete, user
  <1> QED
    BY <1>1, <1>2, <1>3, <1>4, <1>5, <1>6 DEF Next

\* The buttons of every notification that is shown do something, unless another one
\* was pressed while it was shown, for any number of transfers and remotes.
\* (notifications.NewOpUserNotification)
THEOREM ButtonsAlwaysWork == Spec => []ButtonsWork
  <1>1. Init => ButtonsWork
    BY NotNothing DEF Init, ButtonsWork
  <1> QED
    BY <1>1, InvInit, InvNext, ButtonsNext, PTL DEF Spec

-----------------------------------------------------------------------------
(***************************************************************************)
(* Offers that are out of date.                                            *)
(***************************************************************************)
Fresh == AsksFollowed /\ NoStaleOffer

\* A status is set: the offer waits, or the callback that says so is queued.
LEMMA FreshStatus ==
    ASSUME Inv, Fresh, shown' = shown,
           NEW o \in Op, NEW s \in {"waiting", "transferring", "over"}, SetStatus(o, s),
           NEW cs \in Seq(Callback \X Op), Queue(cs),
           \/ s = "waiting" /\ \A k \in 1 .. Len(cs) : cs[k][1] = "ask" => cs[k][2] = o
           \/ /\ \A k \in 1 .. Len(cs) : cs[k][1] # "ask"
              /\ \E k \in 1 .. Len(cs) : cs[k] = <<"status", o>>
    PROVE  Fresh'
  <1>1. /\ Len(idle) \in Nat /\ Len(cs) \in Nat
        /\ Len(idle') = Len(idle) + Len(cs)
        /\ \A i \in 1 .. Len(idle) : idle'[i] = idle[i]
        /\ \A i \in 1 .. Len(cs) : idle'[Len(idle) + i] = cs[i]
        /\ \A i \in 1 .. Len(idle') :
              i \notin 1 .. Len(idle) =>
                  i - Len(idle) \in 1 .. Len(cs) /\ idle'[i] = cs[i - Len(idle)]
    <2>1. idle \in Seq(Callback \X Op) /\ Len(idle) \in Nat /\ Len(cs) \in Nat
      BY DEF Inv, TypeOK
    <2> QED
      BY <2>1, QueueFacts
  <1>2. status'[o] = s /\ \A q \in Op \ {o} : status'[q] = status[q]
    BY SetStatusFacts
  <1>3. s = "waiting" \/ \E j \in 1 .. Len(idle') : j > Len(idle) /\ idle'[j] = <<"status", o>>
    <2>1. ASSUME NEW k \in 1 .. Len(cs), cs[k] = <<"status", o>>
          PROVE  \E j \in 1 .. Len(idle') : j > Len(idle) /\ idle'[j] = <<"status", o>>
      <3>1. /\ Len(idle) + k \in 1 .. Len(idle')
            /\ Len(idle) + k > Len(idle)
            /\ idle'[Len(idle) + k] = <<"status", o>>
        BY <1>1, <2>1
      <3> QED
        BY <3>1
    <2> QED
      BY <2>1
  <1>4. AsksFollowed'
    <2> SUFFICES ASSUME NEW i \in 1 .. Len(idle'), idle'[i][1] = "ask",
                        status'[idle'[i][2]] # "waiting"
                 PROVE  Told(i)'
      BY DEF AsksFollowed
    <2>1. i \in 1 .. Len(idle)
      BY <1>1, <1>2
    <2>2. idle'[i] = idle[i] /\ idle[i][2] \in Op
      <3>1. idle[i] \in Callback \X Op
        BY <2>1 DEF Inv, TypeOK
      <3> QED
        BY <1>1, <2>1, <3>1
    <2>3. CASE idle[i][2] = o
      <3>1. PICK j \in 1 .. Len(idle') : j > Len(idle) /\ idle'[j] = <<"status", o>>
        BY <1>2, <1>3, <2>2, <2>3
      <3>2. i < j
        BY <1>1, <2>1, <3>1
      <3> QED
        BY <2>2, <2>3, <3>1, <3>2 DEF Told
    <2>4. CASE idle[i][2] # o
      <3>1. Told(i)
        BY <1>2, <2>1, <2>2, <2>4 DEF Fresh, AsksFollowed
      <3>2. PICK j \in 1 .. Len(idle) : i < j /\ idle[j] = <<"status", idle[i][2]>>
        BY <3>1 DEF Told
      <3>3. j \in 1 .. Len(idle') /\ idle'[j] = <<"status", idle'[i][2]>>
        BY <1>1, <2>2, <3>2
      <3> QED
        BY <3>2, <3>3 DEF Told
    <2> QED
      BY <2>3, <2>4
  <1>5. NoStaleOffer'
    <2> SUFFICES ASSUME NEW r \in Remote, NEW q \in Op, shown[r] = <<"ask", q>>,
                        \A i \in 1 .. Len(idle') : idle'[i] # <<"status", q>>
                 PROVE  status'[q] = "waiting"
      BY DEF NoStaleOffer
    <2>1. CASE q = o
      BY <1>2, <1>3, <2>1
    <2>2. CASE q # o
      <3>1. \A i \in 1 .. Len(idle) : idle[i] # <<"status", q>>
        BY <1>1
      <3> QED
        BY <1>2, <2>2, <3>1 DEF Fresh, NoStaleOffer
    <2> QED
      BY <2>1, <2>2
  <1> QED
    BY <1>4, <1>5 DEF Fresh

\* An answer queues no notification, and shows none.
LEMMA FreshAnswer ==
    ASSUME Inv, Fresh, status' = status,
           \A r \in Remote : shown'[r] = shown[r] \/ shown'[r] = Nothing,
           NEW cs \in Seq(Callback \X Op), Queue(cs),
           \A k \in 1 .. Len(cs) : cs[k][1] # "ask"
    PROVE  Fresh'
  <1>1. /\ Len(idle) \in Nat /\ Len(cs) \in Nat
        /\ Len(idle') = Len(idle) + Len(cs)
        /\ \A i \in 1 .. Len(idle) : idle'[i] = idle[i]
        /\ \A i \in 1 .. Len(idle') :
              i \notin 1 .. Len(idle) =>
                  i - Len(idle) \in 1 .. Len(cs) /\ idle'[i] = cs[i - Len(idle)]
    <2>1. idle \in Seq(Callback \X Op) /\ Len(idle) \in Nat /\ Len(cs) \in Nat
      BY DEF Inv, TypeOK
    <2> QED
      BY <2>1, QueueFacts
  <1>2. AsksFollowed'
    <2> SUFFICES ASSUME NEW i \in 1 .. Len(idle'), idle'[i][1] = "ask",
                        status[idle'[i][2]] # "waiting"
                 PROVE  Told(i)'
      BY DEF AsksFollowed
    <2>1. i \in 1 .. Len(idle) /\ idle'[i] = idle[i]
      BY <1>1
    <2>2. PICK j \in 1 .. Len(idle) : i < j /\ idle[j] = <<"status", idle[i][2]>>
      BY <2>1 DEF Fresh, AsksFollowed, Told
    <2> QED
      BY <1>1, <2>1, <2>2 DEF Told
  <1>3. NoStaleOffer'
    <2> SUFFICES ASSUME NEW r \in Remote, NEW q \in Op, shown'[r] = <<"ask", q>>,
                        \A i \in 1 .. Len(idle') : idle'[i] # <<"status", q>>
                 PROVE  status[q] = "waiting"
      BY DEF NoStaleOffer
    <2>1. shown[r] = <<"ask", q>>
      BY NotNothing
    <2>2. \A i \in 1 .. Len(idle) : idle[i] # <<"status", q>>
      BY <1>1
    <2> QED
      BY <2>1, <2>2 DEF Fresh, NoStaleOffer
  <1> QED
    BY <1>2, <1>3 DEF Fresh

\* The callback that withdraws an offer runs after the one that shows it.
LEMMA FreshIdle == ASSUME Inv, Fresh, RunIdle PROVE Fresh'
  <1>1. PICK o \in Op :
              \/ idle[1] = <<"ask", o>> /\ (Ask(o) \/ TurnedOff)
              \/ idle[1] = <<"tell", o>> /\ (Tell(o) \/ TurnedOff)
              \/ idle[1] = <<"list", o>> /\ AddOp(o)
              \/ idle[1] = <<"status", o>> /\ StatusChanged(o)
              \/ \E c \in Command : idle[1] = <<c, o>> /\ OpCommandIssued(o, c)
              \/ idle[1] = <<"unheard", o>> /\ UNCHANGED <<screen, listed, jobs>>
    BY Dispatched
  <1>2. status' = status /\ from' = from
    BY DEF RunIdle
  <1>3. idle # <<>> /\ idle' = Tail(idle) /\ idle \in Seq(Callback \X Op)
    BY DEF RunIdle, Inv, TypeOK
  <1>4. /\ Len(idle) \in Nat /\ 1 \in 1 .. Len(idle)
        /\ Len(idle') = Len(idle) - 1
        /\ \A i \in 1 .. Len(idle') : i + 1 \in 1 .. Len(idle) /\ idle'[i] = idle[i + 1]
    BY <1>3, TakeHead
  <1>5. ASSUME NEW j \in 1 .. Len(idle), j > 1
        PROVE  j - 1 \in 1 .. Len(idle') /\ idle'[j - 1] = idle[j]
    <2>1. j - 1 \in 1 .. Len(idle') /\ (j - 1) + 1 = j
      BY <1>4, <1>5
    <2> QED
      BY <1>4, <2>1
  <1>6. AsksFollowed'
    <2> SUFFICES ASSUME NEW i \in 1 .. Len(idle'), idle'[i][1] = "ask",
                        status[idle'[i][2]] # "waiting"
                 PROVE  Told(i)'
      BY <1>2 DEF AsksFollowed
    <2>1. i + 1 \in 1 .. Len(idle) /\ idle'[i] = idle[i + 1]
      BY <1>4
    <2>2. PICK j \in 1 .. Len(idle) :
              i + 1 < j /\ idle[j] = <<"status", idle[i + 1][2]>>
      BY <2>1 DEF Fresh, AsksFollowed, Told
    <2>3. j - 1 \in 1 .. Len(idle') /\ idle'[j - 1] = idle[j] /\ i < j - 1
      BY <1>4, <1>5, <2>1, <2>2
    <2> QED
      BY <2>1, <2>2, <2>3 DEF Told
  <1>7. NoStaleOffer'
    <2> SUFFICES ASSUME NEW r \in Remote, NEW q \in Op, shown'[r] = <<"ask", q>>,
                        \A i \in 1 .. Len(idle') : idle'[i] # <<"status", q>>
                 PROVE  status[q] = "waiting"
      BY <1>2 DEF NoStaleOffer
    <2>1. \A j \in 1 .. Len(idle) : j > 1 => idle[j] # <<"status", q>>
      BY <1>5
    <2>2. (idle[1] = <<"ask", o>> /\ q = o) \/ shown[r] = <<"ask", q>>
      <3>1. CASE idle[1] = <<"ask", o>> /\ Ask(o)
        BY <3>1, AskShows
      <3>2. CASE \/ Tell(o) \/ TurnedOff \/ AddOp(o) \/ StatusChanged(o)
                 \/ \E c \in Command : OpCommandIssued(o, c)
                 \/ UNCHANGED <<screen, listed, jobs>>
        BY <3>2, OthersShow
      <3> QED
        BY <1>1, <3>1, <3>2
    <2>3. CASE idle[1] = <<"ask", o>> /\ q = o
      <3>1. status[o] = "waiting" \/ Told(1)
        BY <1>4, <2>3 DEF Fresh, AsksFollowed
      <3>2. ~Told(1)
        BY <1>4, <2>1, <2>3 DEF Told
      <3> QED
        BY <2>3, <3>1, <3>2
    <2>4. CASE shown[r] = <<"ask", q>> /\ idle[1] # <<"status", q>>
      <3>1. \A j \in 1 .. Len(idle) : idle[j] # <<"status", q>>
        BY <1>4, <2>1, <2>4
      <3> QED
        BY <2>4, <3>1 DEF Fresh, NoStaleOffer
    <2>5. CASE shown[r] = <<"ask", q>> /\ idle[1] = <<"status", q>>
      <3>1. q = o /\ StatusChanged(o)
        BY <1>1, <2>5 DEF Command
      <3>2. o \in hooked /\ from[o] = r
        <4>1. shown[r] # Nothing /\ shown[r][2] = o
          BY <2>5, <3>1, NotNothing
        <4> QED
          BY <2>5, <3>1, <4>1 DEF Inv, TypeOK, ShownHooked
      <3>3. CASE status[o] # "waiting"
        <4>1. shown'[r] = Nothing
          BY <3>1, <3>2, <3>3 DEF StatusChanged, Withdraw, Inv, TypeOK
        <4> QED
          BY <4>1, NotNothing
      <3> QED
        BY <3>1, <3>3
    <2> QED
      BY <2>2, <2>3, <2>4, <2>5
  <1> QED
    BY <1>6, <1>7 DEF Fresh

\* The order of the others stays as it is.
LEMMA FreshSetup == ASSUME Inv, Fresh, InitialSetupComplete PROVE Fresh'
  <1>1. /\ Len(idle) \in Nat /\ 1 \in 1 .. Len(idle)
        /\ Len(idle') = Len(idle)
        /\ \A i \in 1 .. Len(idle) - 1 : i + 1 \in 1 .. Len(idle) /\ idle'[i] = idle[i + 1]
        /\ idle'[Len(idle)] = <<"list", idle[1][2]>>
        /\ idle[1][1] = "setup"
    BY SetupFacts DEF Inv, TypeOK
  <1>2. UNCHANGED <<status, shown>>
    BY DEF InitialSetupComplete, ops, screen
  <1>3. ASSUME NEW j \in 1 .. Len(idle), j > 1
        PROVE  j - 1 \in 1 .. Len(idle') /\ idle'[j - 1] = idle[j]
    <2>1. j - 1 \in 1 .. Len(idle) - 1 /\ (j - 1) + 1 = j
      BY <1>1, <1>3
    <2> QED
      BY <1>1, <2>1
  <1>4. AsksFollowed'
    <2> SUFFICES ASSUME NEW i \in 1 .. Len(idle'), idle'[i][1] = "ask",
                        status[idle'[i][2]] # "waiting"
                 PROVE  Told(i)'
      BY <1>2 DEF AsksFollowed
    <2>1. i \in 1 .. Len(idle) - 1 /\ i + 1 \in 1 .. Len(idle) /\ idle'[i] = idle[i + 1]
      <3>1. i # Len(idle)
        BY <1>1
      <3>2. i \in 1 .. Len(idle) - 1
        BY <1>1, <3>1
      <3> QED
        BY <1>1, <3>2
    <2>2. PICK j \in 1 .. Len(idle) :
              i + 1 < j /\ idle[j] = <<"status", idle[i + 1][2]>>
      BY <2>1 DEF Fresh, AsksFollowed, Told
    <2>3. j - 1 \in 1 .. Len(idle') /\ idle'[j - 1] = idle[j] /\ i < j - 1
      BY <1>3, <2>1, <2>2
    <2> QED
      BY <2>1, <2>2, <2>3 DEF Told
  <1>5. NoStaleOffer'
    <2> SUFFICES ASSUME NEW r \in Remote, NEW q \in Op, shown[r] = <<"ask", q>>,
                        \A i \in 1 .. Len(idle') : idle'[i] # <<"status", q>>
                 PROVE  status[q] = "waiting"
      BY <1>2 DEF NoStaleOffer
    <2>1. ASSUME NEW j \in 1 .. Len(idle) PROVE idle[j] # <<"status", q>>
      <3>1. CASE j = 1
        BY <1>1, <3>1
      <3>2. CASE j # 1
        BY <1>1, <1>3, <3>2
      <3> QED
        BY <3>1, <3>2
    <2> QED
      BY <2>1 DEF Fresh, NoStaleOffer
  <1> QED
    BY <1>4, <1>5 DEF Fresh

LEMMA FreshNext == Fresh /\ Inv /\ [Next]_vars => Fresh'
  <1> SUFFICES ASSUME Fresh, Inv, [Next]_vars
               PROVE  Fresh'
    OBVIOUS
  <1>1. ASSUME NEW o \in Op, Offer(o) PROVE Fresh'
    <2> DEFINE cs == << <<"ask", o>>, <<"setup", o>> >>
    <2>1. shown' = shown /\ SetStatus(o, "waiting") /\ Queue(cs)
      BY <1>1 DEF Offer, Offered, screen
    <2>2. cs \in Seq(Callback \X Op) /\ \A k \in 1 .. Len(cs) : cs[k][2] = o
      BY CallbackNames
    <2> HIDE DEF cs
    <2> QED
      BY <2>1, <2>2, FreshStatus
  <1>2. ASSUME NEW o \in Op, NEW s \in {"waiting", "transferring", "over"},
               SetStatus(o, s), shown' = shown, Queue(<< <<"status", o>> >>)
        PROVE  Fresh'
    <2> DEFINE cs == << <<"status", o>> >>
    <2>1. /\ cs \in Seq(Callback \X Op)
          /\ \A k \in 1 .. Len(cs) : cs[k][1] # "ask"
          /\ 1 \in 1 .. Len(cs) /\ cs[1] = <<"status", o>>
          /\ Queue(cs)
      BY <1>2, CallbackNames
    <2> HIDE DEF cs
    <2> QED
      BY <1>2, <2>1, FreshStatus
  <1>3. ASSUME NEW o \in Op,
               \/ OfferAgain(o) \/ EndsQuietly(o)
               \/ StartTransferOp(o) \/ CancelTransferOpRequest(o)
        PROVE  Fresh'
    <2>1. shown' = shown /\ Queue(<< <<"status", o>> >>)
      BY <1>3 DEF OfferAgain, EndsQuietly, StartTransferOp, CancelTransferOpRequest,
                  Take, screen
    <2>2. PICK s \in {"waiting", "transferring", "over"} : SetStatus(o, s)
      BY <1>3 DEF OfferAgain, Offered, EndsQuietly, StartTransferOp,
                  CancelTransferOpRequest
    <2> QED
      BY <1>2, <2>1, <2>2
  <1>4. ASSUME NEW o \in Op, EndsTold(o) PROVE Fresh'
    <2> DEFINE cs == << <<"tell", o>>, <<"status", o>> >>
    <2>1. shown' = shown /\ SetStatus(o, "over") /\ Queue(cs)
      BY <1>4 DEF EndsTold, screen
    <2>2. /\ cs \in Seq(Callback \X Op)
          /\ \A k \in 1 .. Len(cs) : cs[k][1] # "ask"
          /\ 2 \in 1 .. Len(cs) /\ cs[2] = <<"status", o>>
      BY CallbackNames
    <2> HIDE DEF cs
    <2> QED
      BY <2>1, <2>2, FreshStatus
  <1>5. ASSUME NEW o \in Op, NEW c \in Command, AnswerInWindow(o, c) PROVE Fresh'
    <2> DEFINE cs == << <<c, o>> >>
    <2>1. status' = status /\ shown' = shown /\ Queue(cs)
      BY <1>5 DEF AnswerInWindow, ops, screen
    <2>2. cs \in Seq(Callback \X Op) /\ \A k \in 1 .. Len(cs) : cs[k][1] # "ask"
      BY CallbackNames DEF Command
    <2> HIDE DEF cs
    <2> QED
      BY <2>1, <2>2, FreshAnswer
  <1>6. ASSUME NEW r \in Remote, NEW c \in Response, Press(r, c) PROVE Fresh'
    <2> DEFINE cs == Commands(handlers, c)
    <2>1. status' = status /\ Queue(cs)
      BY <1>6 DEF Press, Respond, ops
    <2>2. \A q \in Remote : shown'[q] = shown[q] \/ shown'[q] = Nothing
      BY <1>6 DEF Press, Withdraw, Inv, TypeOK
    <2>3. cs \in Seq(Callback \X Op) /\ \A k \in 1 .. Len(cs) : cs[k][1] # "ask"
      <3>1. /\ cs \in Seq(Callback \X Op)
            /\ \A k \in 1 .. Len(cs) : cs[k][1] \in Command \cup {"unheard"}
        BY CommandsType DEF Inv
      <3> HIDE DEF cs
      <3> QED
        BY <3>1 DEF Command
    <2> HIDE DEF cs
    <2> QED
      BY <2>1, <2>2, <2>3, FreshAnswer
  <1>7. CASE RunIdle
    BY <1>7, FreshIdle
  <1>8. CASE UNCHANGED vars
    <2>1. UNCHANGED <<idle, status, shown>>
      BY <1>8 DEF vars, ops, screen
    <2> QED
      BY <2>1 DEF Fresh, AsksFollowed, Told, NoStaleOffer
  <1>9. CASE InitialSetupComplete
    BY <1>9, FreshSetup
  <1> QED
    BY <1>1, <1>3, <1>4, <1>5, <1>6, <1>7, <1>8, <1>9 DEF Next

\* What is shown waits for an answer as soon as the main loop has caught up, for any
\* number of transfers and remotes.
\* (notifications.NewOpUserNotification.send_notification)
THEOREM NeverStaleOffer == Spec => []NoStaleOffer
  <1>1. Init => Fresh
    <2> SUFFICES ASSUME Init PROVE Fresh
      OBVIOUS
    <2>1. Len(idle) = 0 /\ \A r \in Remote : shown[r] = Nothing
      BY DEF Init
    <2>2. AsksFollowed
      BY <2>1 DEF AsksFollowed
    <2>3. NoStaleOffer
      BY <2>1, NotNothing DEF NoStaleOffer
    <2> QED
      BY <2>2, <2>3 DEF Fresh
  <1>2. Fresh => NoStaleOffer
    BY DEF Fresh
  <1> QED
    BY <1>1, <1>2, InvInit, InvNext, FreshNext, PTL DEF Spec

-----------------------------------------------------------------------------
(***************************************************************************)
(* Every stream has an acceptance of its own.                              *)
(***************************************************************************)

\* The notification of an op is shown once.
AsksOnce ==
    \A i \in 1 .. Len(idle) :
        idle[i][1] = "ask" =>
            /\ idle[i][2] \notin hooked
            /\ \A j \in 1 .. Len(idle) :
                  idle[j][1] = "ask" /\ idle[j][2] = idle[i][2] => j = i

\* One that was pressed is not shown any more; as long as none is shown beside another,
\* at most one op has a handler, that of the notification to be pressed.
OneHandler ==
    /\ \A r \in Remote, o \in Op : shown[r] = <<"ask", o>> => o \notin pressed
    /\ ~beside =>
          /\ \A o, q \in hooked \ pressed : o = q
          /\ Len(handlers) <= 1
          /\ \A i \in 1 .. Len(handlers) : handlers[i] \notin pressed

\* The acceptances of o that wait for the main loop
Waiting(o) == {i \in 1 .. Len(idle) : idle[i] = <<"accept", o>>}

\* The streams of o that were begun, or will be
Owed(o) == Cardinality(Waiting(o)) + jobs[o]["accept"] + starts[o]

Approval ==
    /\ AsksOnce
    /\ OneHandler
    /\ ~beside => \A o \in Op : Owed(o) <= consents[o]

\* The numbers that Owed adds
LEMMA OwedFacts ==
    ASSUME Inv, NEW o \in Op
    PROVE  /\ IsFiniteSet(Waiting(o)) /\ Cardinality(Waiting(o)) \in Nat
           /\ jobs[o]["accept"] \in Nat /\ starts[o] \in Nat /\ consents[o] \in Nat
  <1>1. Len(idle) \in Nat
    BY DEF Inv, TypeOK
  <1>2. IsFiniteSet(1 .. Len(idle))
    BY <1>1, FS_Interval
  <1>3. Waiting(o) \in SUBSET (1 .. Len(idle))
    BY DEF Waiting
  <1>4. IsFiniteSet(Waiting(o))
    BY <1>2, <1>3, FS_Subset
  <1>5. Cardinality(Waiting(o)) \in Nat
    BY <1>4, FS_CardinalityType
  <1>6. jobs[o]["accept"] \in Nat /\ starts[o] \in Nat /\ consents[o] \in Nat
    BY BoundsAssumption DEF Inv, TypeOK, Command
  <1> QED
    BY <1>4, <1>5, <1>6

\* Callbacks that are no acceptances of o add nothing.
LEMMA WaitingKept ==
    ASSUME Inv, NEW o \in Op, NEW cs \in Seq(Callback \X Op), Queue(cs),
           \A k \in 1 .. Len(cs) : cs[k] # <<"accept", o>>
    PROVE  Waiting(o)' = Waiting(o)
  <1>1. /\ Len(idle) \in Nat /\ Len(cs) \in Nat
        /\ Len(idle') = Len(idle) + Len(cs)
        /\ \A i \in 1 .. Len(idle) : idle'[i] = idle[i]
        /\ \A i \in 1 .. Len(idle') :
              i \notin 1 .. Len(idle) =>
                  i - Len(idle) \in 1 .. Len(cs) /\ idle'[i] = cs[i - Len(idle)]
    <2>1. idle \in Seq(Callback \X Op) /\ Len(idle) \in Nat /\ Len(cs) \in Nat
      BY DEF Inv, TypeOK
    <2> QED
      BY <2>1, QueueFacts
  <1>2. \A i \in 1 .. Len(idle') : idle'[i] = <<"accept", o>> => i \in 1 .. Len(idle)
    BY <1>1
  <1>3. \A i \in 1 .. Len(idle) : i \in 1 .. Len(idle')
    BY <1>1
  <1> QED
    BY <1>1, <1>2, <1>3 DEF Waiting

\* An acceptance of o adds one.
LEMMA WaitingAdded ==
    ASSUME Inv, NEW o \in Op, Queue(<< <<"accept", o>> >>)
    PROVE  Cardinality(Waiting(o)') = Cardinality(Waiting(o)) + 1
  <1>1. /\ Len(idle') = Len(idle) + 1
        /\ \A i \in 1 .. Len(idle) : idle'[i] = idle[i]
        /\ idle'[Len(idle) + 1] = <<"accept", o>>
    BY QueueOne, CallbackNames DEF Inv, TypeOK
  <1>2. Len(idle) \in Nat
    BY DEF Inv, TypeOK
  <1>3. 1 .. Len(idle') = (1 .. Len(idle)) \cup {Len(idle) + 1}
    BY <1>1, <1>2
  <1>4. Waiting(o)' = Waiting(o) \cup {Len(idle) + 1}
    BY <1>1, <1>3 DEF Waiting
  <1>5. Len(idle) + 1 \notin Waiting(o)
    BY <1>2 DEF Waiting
  <1> QED
    BY <1>4, <1>5, OwedFacts, FS_AddElement

\* When the head is taken the others move by one place, whether or not something that
\* accepts nothing takes the last place.
LEMMA WaitingMoved ==
    ASSUME Inv, NEW o \in Op, 1 \in 1 .. Len(idle),
           Len(idle') = Len(idle) - 1 \/ Len(idle') = Len(idle),
           \A i \in 1 .. Len(idle) - 1 : idle'[i] = idle[i + 1],
           Len(idle') = Len(idle) => idle'[Len(idle)] # <<"accept", o>>
    PROVE  Cardinality(Waiting(o)') = Cardinality(Waiting(o) \ {1})
  <1> DEFINE S == Waiting(o) \ {1}
             T == Waiting(o)'
             f == [i \in S |-> i - 1]
  <1>1. Len(idle) \in Nat
    BY DEF Inv, TypeOK
  <1>2. \A i \in S : i \in 2 .. Len(idle) /\ idle[i] = <<"accept", o>>
    BY <1>1 DEF Waiting
  <1>3. ASSUME NEW i \in S PROVE i - 1 \in T
    <2>1. i - 1 \in 1 .. Len(idle) - 1 /\ (i - 1) + 1 = i
      BY <1>1, <1>2
    <2>2. idle'[i - 1] = <<"accept", o>>
      BY <1>2, <2>1
    <2>3. i - 1 \in 1 .. Len(idle')
      BY <1>1, <2>1
    <2> QED
      BY <2>2, <2>3 DEF Waiting
  <1>4. ASSUME NEW j \in T PROVE j + 1 \in S /\ j = (j + 1) - 1
    <2>1. j \in 1 .. Len(idle') /\ idle'[j] = <<"accept", o>>
      BY DEF Waiting
    <2>2. j # Len(idle) \/ Len(idle') # Len(idle)
      BY <2>1
    <2>3. j \in 1 .. Len(idle) - 1
      BY <1>1, <2>1, <2>2
    <2>4. j + 1 \in 1 .. Len(idle) /\ idle[j + 1] = <<"accept", o>> /\ j + 1 # 1
      BY <1>1, <2>1, <2>3
    <2>5. j = (j + 1) - 1
      BY <2>3
    <2> QED
      BY <2>4, <2>5 DEF Waiting
  <1>5. \A i, j \in S : i - 1 = j - 1 => i = j
    BY <1>1, <1>2
  <1> HIDE DEF S, T
  <1>6. f \in [S -> T] /\ \A i \in S : f[i] = i - 1
    BY <1>3
  <1>7. \A j \in T : \E i \in S : f[i] = j
    BY <1>4, <1>6
  <1>8. \A i, j \in S : f[i] = f[j] => i = j
    BY <1>5, <1>6
  <1> HIDE DEF f
  <1>9. f \in Bijection(S, T)
    BY <1>6, <1>7, <1>8 DEF Bijection, Injection, Surjection, IsInjective
  <1>10. IsFiniteSet(S)
    BY OwedFacts, FS_RemoveElement DEF S
  <1>11. Cardinality(T) = Cardinality(S)
    BY <1>9, <1>10, FS_Bijection DEF ExistsBijection
  <1> QED
    BY <1>11 DEF S, T

\* Callbacks that show nothing
LEMMA AsksKept ==
    ASSUME Inv, AsksOnce, hooked' = hooked, NEW cs \in Seq(Callback \X Op), Queue(cs),
           \A k \in 1 .. Len(cs) : cs[k][1] # "ask"
    PROVE  AsksOnce'
  <1>1. /\ Len(idle) \in Nat /\ Len(cs) \in Nat
        /\ Len(idle') = Len(idle) + Len(cs)
        /\ \A i \in 1 .. Len(idle) : idle'[i] = idle[i]
        /\ \A i \in 1 .. Len(idle') :
              i \notin 1 .. Len(idle) =>
                  i - Len(idle) \in 1 .. Len(cs) /\ idle'[i] = cs[i - Len(idle)]
    <2>1. idle \in Seq(Callback \X Op) /\ Len(idle) \in Nat /\ Len(cs) \in Nat
      BY DEF Inv, TypeOK
    <2> QED
      BY <2>1, QueueFacts
  <1>2. \A i \in 1 .. Len(idle') :
            idle'[i][1] = "ask" => i \in 1 .. Len(idle) /\ idle'[i] = idle[i]
    BY <1>1
  <1> QED
    BY <1>2 DEF AsksOnce

\* A job that begins its stream is still owed.
LEMMA OwedKept ==
    ASSUME Inv, Inv', NEW q \in Op, Waiting(q)' = Waiting(q),
           jobs'[q]["accept"] + starts'[q] = jobs[q]["accept"] + starts[q]
    PROVE  Owed(q)' = Owed(q)
  <1>1. /\ Cardinality(Waiting(q)) \in Nat
        /\ jobs[q]["accept"] \in Nat /\ starts[q] \in Nat
    BY OwedFacts
  <1>2. jobs'[q]["accept"] \in Nat /\ starts'[q] \in Nat
    <2>1. TypeOK'
      BY DEF Inv
    <2>2. jobs' \in [Op -> [Command -> Nat]] /\ starts' \in [Op -> Nat]
      BY <2>1 DEF TypeOK
    <2> QED
      BY <2>2 DEF Command
  <1>3. Owed(q) = Cardinality(Waiting(q)) + jobs[q]["accept"] + starts[q]
    BY DEF Owed
  <1>4. Owed(q)' = Cardinality(Waiting(q)) + jobs'[q]["accept"] + starts'[q]
    BY DEF Owed
  <1> QED
    BY <1>1, <1>2, <1>3, <1>4

\* What happens to the ops puts callbacks in the queue that show and accept nothing,
\* except the first offer.
LEMMA OpsApproval ==
    ASSUME Inv, Inv', Approval,
           UNCHANGED <<shown, handlers, hooked, beside, consents, pressed>>,
           NEW cs \in Seq(Callback \X Op), Queue(cs),
           \A k \in 1 .. Len(cs) : cs[k][1] # "ask" /\ cs[k][1] # "accept",
           \A q \in Op : jobs'[q]["accept"] + starts'[q] = jobs[q]["accept"] + starts[q]
    PROVE  Approval'
  <1>1. AsksOnce'
    BY AsksKept DEF Approval
  <1>2. OneHandler'
    BY DEF Approval, OneHandler
  <1>3. ASSUME NEW q \in Op PROVE Owed(q)' = Owed(q)
    <2>1. \A k \in 1 .. Len(cs) : cs[k] # <<"accept", q>>
      OBVIOUS
    <2>2. Waiting(q)' = Waiting(q)
      BY <2>1, WaitingKept
    <2> QED
      BY <2>2, OwedKept
  <1> QED
    BY <1>1, <1>2, <1>3 DEF Approval

\* A job that starts a transfer begins one stream.
LEMMA JobKept ==
    ASSUME Inv, NEW o \in Op, StartTransferOp(o) \/ CancelTransferOpRequest(o), NEW q \in Op
    PROVE  jobs'[q]["accept"] + starts'[q] = jobs[q]["accept"] + starts[q]
  <1>1. jobs \in [Op -> [Command -> Nat]] /\ starts \in [Op -> Nat]
    BY DEF Inv, TypeOK
  <1>2. jobs[q]["accept"] \in Nat /\ starts[q] \in Nat
    BY <1>1 DEF Command
  <1>3. CASE StartTransferOp(o)
    BY <1>1, <1>2, <1>3 DEF StartTransferOp, Take, Command
  <1>4. CASE CancelTransferOpRequest(o)
    BY <1>1, <1>4 DEF CancelTransferOpRequest, Take, Command
  <1> QED
    BY <1>3, <1>4

LEMMA StartsOwed ==
    ASSUME Inv, NEW o \in Op, Owed(o) <= consents[o]
    PROVE  starts[o] <= consents[o]
  BY OwedFacts DEF Owed

\* The first offer queues the notification.
LEMMA OfferApproval ==
    ASSUME Inv, Approval, NEW o \in Op, Offer(o)
    PROVE  Approval'
  <1> DEFINE cs == << <<"ask", o>>, <<"setup", o>> >>
  <1>1. /\ status[o] = "none" /\ Queue(cs)
        /\ UNCHANGED <<shown, handlers, hooked, beside, consents, pressed, jobs, starts>>
    BY DEF Offer, screen, user
  <1>2. cs \in Seq(Callback \X Op) /\ \A k \in 1 .. Len(cs) : cs[k][1] # "accept"
    BY CallbackNames
  <1>3. /\ Len(idle) \in Nat /\ Len(idle') = Len(idle) + 2
        /\ \A i \in 1 .. Len(idle) : idle'[i] = idle[i]
        /\ idle'[Len(idle) + 1] = <<"ask", o>>
        /\ idle'[Len(idle) + 2] = <<"setup", o>>
    <2>1. idle \in Seq(Callback \X Op)
      BY DEF Inv, TypeOK
    <2> QED
      BY <1>1, <2>1, QueueTwo, CallbackNames
  <1>4. \A i \in 1 .. Len(idle) : idle[i][2] # o
    BY <1>1 DEF Inv, QueuedKnown
  <1>5. o \notin hooked
    BY <1>1 DEF Inv, HookedKnown
  <1>6. \A i \in 1 .. Len(idle') :
            idle'[i][1] = "ask" =>
                \/ i \in 1 .. Len(idle) /\ idle'[i] = idle[i] /\ idle'[i][2] # o
                \/ i = Len(idle) + 1 /\ idle'[i][2] = o
    <2> SUFFICES ASSUME NEW i \in 1 .. Len(idle'), idle'[i][1] = "ask"
                 PROVE  \/ i \in 1 .. Len(idle) /\ idle'[i] = idle[i] /\ idle'[i][2] # o
                        \/ i = Len(idle) + 1 /\ idle'[i][2] = o
      OBVIOUS
    <2>1. i \in 1 .. Len(idle) \/ i = Len(idle) + 1 \/ i = Len(idle) + 2
      BY <1>3
    <2> QED
      BY <1>3, <1>4, <2>1
  <1>7. AsksOnce'
    BY <1>1, <1>5, <1>6 DEF Approval, AsksOnce
  <1>8. OneHandler'
    BY <1>1 DEF Approval, OneHandler
  <1>9. ASSUME NEW q \in Op PROVE Owed(q)' = Owed(q)
    <2>1. \A k \in 1 .. Len(cs) : cs[k] # <<"accept", q>>
      BY <1>2
    <2>2. Waiting(q)' = Waiting(q)
      BY <1>1, <1>2, <2>1, WaitingKept
    <2> QED
      BY <1>1, <2>2 DEF Owed
  <1> QED
    BY <1>1, <1>7, <1>8, <1>9 DEF Approval

\* An answer adds its acceptance, and nothing else.
LEMMA AnswerOwed ==
    ASSUME Inv, NEW o \in Op, NEW c \in Command, Consent(o, c),
           Queue(<< <<c, o>> >>), UNCHANGED <<jobs, starts>>,
           NEW q \in Op, Owed(q) <= consents[q]
    PROVE  Owed(q)' <= consents'[q]
  <1>1. << <<c, o>> >> \in Seq(Callback \X Op) /\ c \in Callback
    BY DEF Command, Callback
  <1>2. /\ Cardinality(Waiting(q)) \in Nat
        /\ jobs[q]["accept"] \in Nat /\ starts[q] \in Nat /\ consents[q] \in Nat
    BY OwedFacts
  <1>3. consents \in [Op -> 0 .. MaxAnswers]
    BY DEF Inv, TypeOK
  <1>4. CASE c = "accept" /\ q = o
    <2>1. Cardinality(Waiting(q)') = Cardinality(Waiting(q)) + 1
      BY <1>4, WaitingAdded
    <2>2. consents'[q] = consents[q] + 1
      BY <1>3, <1>4 DEF Consent
    <2>3. Owed(q)' = Owed(q) + 1
      BY <1>2, <2>1 DEF Owed
    <2> QED
      BY <1>2, <2>2, <2>3 DEF Owed
  <1>5. CASE ~(c = "accept" /\ q = o)
    <2> DEFINE cs == << <<c, o>> >>
    <2>1. \A k \in 1 .. Len(cs) : cs[k] # <<"accept", q>>
      BY <1>5
    <2>2. Waiting(q)' = Waiting(q)
      BY <1>1, <2>1, WaitingKept
    <2>3. consents'[q] = consents[q]
      BY <1>3, <1>5 DEF Consent
    <2> QED
      BY <2>2, <2>3 DEF Owed
  <1> QED
    BY <1>4, <1>5

\* An answer in the window
LEMMA WindowApproval ==
    ASSUME Inv, Approval, NEW o \in Op, NEW c \in Command, AnswerInWindow(o, c)
    PROVE  Approval'
  <1>1. /\ Consent(o, c) /\ Queue(<< <<c, o>> >>)
        /\ UNCHANGED <<shown, handlers, hooked, beside, pressed, jobs, starts>>
    BY DEF AnswerInWindow, screen, ops
  <1>2. << <<c, o>> >> \in Seq(Callback \X Op) /\ c # "ask"
    BY DEF Command, Callback
  <1>3. AsksOnce'
    BY <1>1, <1>2, AsksKept DEF Approval
  <1>4. OneHandler'
    BY <1>1 DEF Approval, OneHandler
  <1>5. beside' = beside
    BY <1>1
  <1>6. ~beside => \A q \in Op : Owed(q)' <= consents'[q]
    BY <1>1, AnswerOwed DEF Approval
  <1> QED
    BY <1>3, <1>4, <1>5, <1>6 DEF Approval

LEMMA NoneOrOne == ASSUME NEW n \in Nat, n <= 1 PROVE n = 0 \/ n = 1
  OBVIOUS

\* Whoever presses a notification that asks has the only handler.
LEMMA Handlers ==
    ASSUME Inv, OneHandler, ~beside, NEW o \in Op, o \in hooked, o \notin pressed
    PROVE  handlers = <<>> \/ handlers = <<o>>
  <1>1. handlers \in Seq(hooked)
    BY DEF Inv, TypeOK
  <1>0. Len(handlers) = 0 \/ Len(handlers) = 1
    <2>1. Len(handlers) \in Nat /\ Len(handlers) <= 1
      BY <1>1 DEF OneHandler
    <2> QED
      BY <2>1, NoneOrOne
  <1>2. CASE Len(handlers) = 0
    BY <1>1, <1>2
  <1>3. CASE Len(handlers) = 1
    <2>1. handlers[1] \in hooked \ pressed
      <3>1. 1 \in 1 .. Len(handlers)
        BY <1>3
      <3>2. handlers[1] \in hooked
        BY <1>1, <3>1
      <3> QED
        BY <3>1, <3>2 DEF OneHandler
    <2>2. handlers[1] = o
      BY <2>1 DEF OneHandler
    <2> QED
      BY <1>1, <1>3, <2>2
  <1> QED
    BY <1>0, <1>2, <1>3

\* A button of a notification that asks
LEMMA PressOwed ==
    ASSUME Inv, Approval, ~beside, NEW r \in Remote, NEW c \in Response, Press(r, c),
           NEW q \in Op
    PROVE  Owed(q)' <= consents'[q]
  <1> DEFINE o == shown[r][2]
  <1>1. /\ shown[r] # Nothing
        /\ shown[r][1] = "tell" => c = "focus"
        /\ Consent(o, c)
        /\ Queue(Commands(handlers, c))
        /\ UNCHANGED <<jobs, starts>>
    BY DEF Press, Respond
  <1>2. /\ shown[r][1] \in {"ask", "tell"} /\ o \in Op /\ shown[r] = <<shown[r][1], o>>
        /\ shown[r][1] = "ask" => o \in hooked
    BY <1>1, PressedFacts
  <1> HIDE DEF o
  <1>3. Owed(q) <= consents[q]
    BY DEF Approval
  <1>4. consents \in [Op -> 0 .. MaxAnswers]
    BY DEF Inv, TypeOK
  <1>5. CASE Commands(handlers, c) = <<>> \/ Commands(handlers, c) = << <<"unheard", o>> >>
    <2> DEFINE cs == Commands(handlers, c)
    <2>1. cs \in Seq(Callback \X Op) /\ \A k \in 1 .. Len(cs) : cs[k] # <<"accept", q>>
      <3>1. "unheard" \in Callback
        BY DEF Callback
      <3>2. CASE cs = <<>>
        BY <3>2
      <3>3. CASE cs = << <<"unheard", o>> >>
        BY <1>2, <3>1, <3>3
      <3> QED
        BY <1>5, <3>2, <3>3
    <2> HIDE DEF cs
    <2>2. Waiting(q)' = Waiting(q)
      BY <1>1, <2>1, WaitingKept DEF cs
    <2>3. Owed(q)' = Owed(q)
      BY <1>1, <2>2 DEF Owed
    <2>4. Owed(q) \in Nat /\ consents[q] \in Nat
      BY OwedFacts DEF Owed
    <2>5. consents'[q] = consents[q] \/ consents'[q] = consents[q] + 1
      BY <1>1, <1>2, <1>4 DEF Consent
    <2> QED
      BY <1>3, <2>3, <2>4, <2>5
  <1>6. CASE /\ Commands(handlers, c) # <<>>
             /\ Commands(handlers, c) # << <<"unheard", o>> >>
    <2>1. c \in Command /\ handlers # <<>>
      <3>1. c # "focus"
        BY <1>6 DEF Commands
      <3>2. handlers # <<>>
        BY <1>6 DEF Commands
      <3> QED
        BY <3>1, <3>2 DEF Command, Response
    <2>2. shown[r] = <<"ask", o>> /\ o \in hooked
      BY <1>1, <1>2, <2>1 DEF Command
    <2>3. o \notin pressed
      BY <1>2, <2>2 DEF Approval, OneHandler
    <2>4. handlers = <<o>>
      BY <1>2, <2>1, <2>2, <2>3, Handlers DEF Approval
    <2>5. Commands(handlers, c) = << Emitted(o, c) >>
      BY <2>1, <2>4 DEF Commands, Command
    <2>6. Commands(handlers, c) = << <<c, o>> >>
      BY <1>6, <2>5 DEF Emitted
    <2> QED
      BY <1>1, <1>2, <1>3, <2>1, <2>6, AnswerOwed
  <1> QED
    BY <1>5, <1>6

LEMMA PressApproval ==
    ASSUME Inv, Approval, NEW r \in Remote, NEW c \in Response, Press(r, c)
    PROVE  Approval'
  <1>1. /\ shown[r] # Nothing
        /\ Queue(Commands(handlers, c)) /\ handlers' = <<>>
        /\ shown' = [shown EXCEPT ![r] = Nothing]
        /\ pressed' = IF shown[r][1] = "ask" THEN pressed \cup {shown[r][2]} ELSE pressed
        /\ UNCHANGED <<hooked, beside>>
    BY DEF Press, Respond, Withdraw
  <1>2. /\ shown[r][1] \in {"ask", "tell"} /\ shown[r][2] \in Op
        /\ shown[r] = <<shown[r][1], shown[r][2]>>
    BY <1>1, PressedFacts
  <1>3. AsksOnce'
    <2> DEFINE cs == Commands(handlers, c)
    <2>1. cs \in Seq(Callback \X Op) /\ \A k \in 1 .. Len(cs) : cs[k][1] # "ask"
      <3>1. /\ cs \in Seq(Callback \X Op)
            /\ \A k \in 1 .. Len(cs) : cs[k][1] \in Command \cup {"unheard"}
        BY CommandsType DEF Inv
      <3> HIDE DEF cs
      <3> QED
        BY <3>1 DEF Command
    <2> HIDE DEF cs
    <2> QED
      BY <1>1, <2>1, AsksKept DEF Approval, cs
  <1>4. ASSUME NEW p \in Remote, NEW q \in Op, shown'[p] = <<"ask", q>>
        PROVE  q \notin pressed'
    <2>1. p # r /\ shown[p] = <<"ask", q>>
      BY <1>1, <1>4, NotNothing DEF Inv, TypeOK
    <2>2. q \notin pressed
      BY <2>1 DEF Approval, OneHandler
    <2>3. from[q] = p
      <3>1. shown[p] # Nothing /\ shown[p][2] = q
        BY <2>1, NotNothing
      <3> QED
        BY <3>1 DEF Inv, TypeOK
    <2>4. from[shown[r][2]] = r
      BY <1>1 DEF Inv, TypeOK
    <2> QED
      BY <1>1, <2>1, <2>2, <2>3, <2>4
  <1>5. OneHandler'
    <2>1. Len(handlers') = 0
      BY <1>1
    <2>2. pressed \subseteq pressed'
      BY <1>1
    <2> QED
      BY <1>1, <1>4, <2>1, <2>2 DEF Approval, OneHandler
  <1> QED
    BY <1>1, <1>3, <1>5, PressOwed DEF Approval

\* The first callback in the queue
LEMMA IdleApproval == ASSUME Inv, Approval, RunIdle PROVE Approval'
  <1>1. PICK o \in Op :
              \/ idle[1] = <<"ask", o>> /\ (Ask(o) \/ TurnedOff)
              \/ idle[1] = <<"tell", o>> /\ (Tell(o) \/ TurnedOff)
              \/ idle[1] = <<"list", o>> /\ AddOp(o)
              \/ idle[1] = <<"status", o>> /\ StatusChanged(o)
              \/ \E c \in Command : idle[1] = <<c, o>> /\ OpCommandIssued(o, c)
              \/ idle[1] = <<"unheard", o>> /\ UNCHANGED <<screen, listed, jobs>>
    BY Dispatched
  <1>2. /\ idle # <<>> /\ idle' = Tail(idle)
        /\ UNCHANGED <<consents, pressed, starts>>
    BY DEF RunIdle, user
  <1>3. /\ Len(idle) \in Nat /\ 1 \in 1 .. Len(idle)
        /\ Len(idle') = Len(idle) - 1
        /\ \A i \in 1 .. Len(idle') :
              /\ i + 1 \in 1 .. Len(idle) /\ i + 1 # 1
              /\ idle'[i] = idle[i + 1]
    <2>1. idle \in Seq(Callback \X Op)
      BY DEF Inv, TypeOK
    <2>2. /\ Len(idle) \in Nat /\ 1 \in 1 .. Len(idle)
          /\ Len(idle') = Len(idle) - 1
          /\ \A i \in 1 .. Len(idle') : i + 1 \in 1 .. Len(idle) /\ idle'[i] = idle[i + 1]
      BY <1>2, <2>1, TakeHead
    <2>3. \A i \in 1 .. Len(idle') : i + 1 # 1
      BY <2>2
    <2> QED
      BY <2>2, <2>3
  <1>9. /\ 1 \in 1 .. Len(idle) /\ Len(idle') = Len(idle) - 1 /\ Len(idle') # Len(idle)
         /\ \A i \in 1 .. Len(idle) - 1 : idle'[i] = idle[i + 1]
    BY <1>3
  <1>4. \/ hooked' = hooked
        \/ idle[1] = <<"ask", o>> /\ hooked' = hooked \cup {o}
    BY <1>1 DEF Ask, Tell, TurnedOff, AddOp, StatusChanged, OpCommandIssued, screen
  <1>5. AsksOnce'
    <2> SUFFICES ASSUME NEW i \in 1 .. Len(idle'), idle'[i][1] = "ask"
                 PROVE  /\ idle'[i][2] \notin hooked'
                        /\ \A j \in 1 .. Len(idle') :
                              idle'[j][1] = "ask" /\ idle'[j][2] = idle'[i][2] => j = i
      BY DEF AsksOnce
    <2>1. i + 1 \in 1 .. Len(idle) /\ i + 1 # 1 /\ idle'[i] = idle[i + 1]
      BY <1>3
    <2>2. idle[i + 1][2] \notin hooked
      BY <2>1 DEF Approval, AsksOnce
    <2>3. \A j \in 1 .. Len(idle) :
              idle[j][1] = "ask" /\ idle[j][2] = idle[i + 1][2] => j = i + 1
      BY <2>1 DEF Approval, AsksOnce
    <2>4. idle[1] = <<"ask", o>> => idle[i + 1][2] # o
      BY <1>3, <2>1, <2>3
    <2>5. \A j \in 1 .. Len(idle') :
              idle'[j][1] = "ask" /\ idle'[j][2] = idle'[i][2] => j + 1 = i + 1
      BY <1>3, <2>1, <2>3
    <2> QED
      BY <1>4, <2>1, <2>2, <2>4, <2>5
  <1>6. CASE idle[1] = <<"ask", o>> /\ Ask(o)
    <2>1. o \notin hooked
      BY <1>3, <1>6 DEF Approval, AsksOnce
    <2>2. o \notin pressed
      BY <2>1 DEF Inv, TypeOK
    <2>3. /\ handlers' = Append(handlers, o) /\ hooked' = hooked \cup {o}
          /\ beside' = (beside \/ hooked \ pressed # {})
          /\ pressed' = pressed
      BY <1>2, <1>6 DEF Ask
    <2>4. \A r \in Remote, q \in Op : shown'[r] = <<"ask", q>> => q \notin pressed'
      BY <1>2, <1>6, <2>2, AskShows DEF Approval, OneHandler
    <2>5. ASSUME ~beside'
          PROVE  /\ ~beside
                 /\ \A p, q \in hooked' \ pressed' : p = q
                 /\ handlers' = <<o>>
      <3>1. ~beside /\ hooked \ pressed = {}
        BY <2>3, <2>5
      <3>2. handlers \in Seq(hooked)
        BY DEF Inv, TypeOK
      <3>3. \A i \in 1 .. Len(handlers) : handlers[i] \in hooked \ pressed
        BY <3>1, <3>2 DEF Approval, OneHandler
      <3>4. handlers = <<>>
        BY <3>1, <3>2, <3>3
      <3> QED
        BY <2>3, <3>1, <3>4
    <2>6. OneHandler'
      <3>1. ~beside' => /\ Len(handlers') = 1
                        /\ \A i \in 1 .. Len(handlers') : handlers'[i] = o
        BY <2>5
      <3> QED
        BY <2>2, <2>3, <2>4, <2>5, <3>1 DEF OneHandler
    <2>7. jobs' = jobs
      BY <1>6 DEF Ask
    <2>8. ASSUME ~beside', NEW q \in Op PROVE Owed(q)' <= consents'[q]
      <3>1. idle[1] # <<"accept", q>>
        BY <1>6
      <3>2. Waiting(q) \ {1} = Waiting(q)
        BY <3>1 DEF Waiting
      <3>3. Cardinality(Waiting(q)') = Cardinality(Waiting(q))
        BY <1>9, <3>2, WaitingMoved
      <3>4. Owed(q)' = Owed(q)
        BY <1>2, <2>7, <3>3 DEF Owed
      <3> QED
        BY <1>2, <2>5, <2>8, <3>4 DEF Approval
    <2> QED
      BY <1>5, <2>6, <2>8 DEF Approval
  <1>7. CASE ~(idle[1] = <<"ask", o>> /\ Ask(o))
    <2>1. UNCHANGED <<handlers, hooked, beside>>
      BY <1>1, <1>7 DEF Tell, TurnedOff, AddOp, StatusChanged, OpCommandIssued, screen
    <2>2. \A r \in Remote, q \in Op : shown'[r] = <<"ask", q>> => shown[r] = <<"ask", q>>
      <3>1. \/ Tell(o) \/ TurnedOff \/ AddOp(o) \/ StatusChanged(o)
            \/ \E c \in Command : OpCommandIssued(o, c)
            \/ UNCHANGED <<screen, listed, jobs>>
        BY <1>1, <1>7
      <3> QED
        BY <3>1, OthersShow
    <2>3. OneHandler'
      BY <1>2, <2>1, <2>2 DEF Approval, OneHandler
    <2>4. ASSUME NEW q \in Op PROVE Owed(q)' = Owed(q)
      <3>1. /\ Cardinality(Waiting(q)) \in Nat /\ IsFiniteSet(Waiting(q))
            /\ jobs[q]["accept"] \in Nat /\ starts[q] \in Nat
        BY OwedFacts
      <3>2. Cardinality(Waiting(q)') = Cardinality(Waiting(q) \ {1})
        BY <1>9, WaitingMoved
      <3>3. jobs \in [Op -> [Command -> Nat]]
        BY DEF Inv, TypeOK
      <3>4. CASE idle[1] = <<"accept", q>>
        <4>1. q = o /\ OpCommandIssued(o, "accept")
          BY <1>1, <3>4
        <4>2. jobs'[q]["accept"] = jobs[q]["accept"] + 1
          BY <3>3, <4>1 DEF OpCommandIssued, Command
        <4>3. 1 \in Waiting(q)
          BY <1>3, <3>4 DEF Waiting
        <4>4. Cardinality(Waiting(q)') = Cardinality(Waiting(q)) - 1
          BY <3>1, <3>2, <4>3, FS_RemoveElement
        <4>5. Owed(q)' = Cardinality(Waiting(q)') + jobs'[q]["accept"] + starts[q]
          BY <1>2 DEF Owed
        <4> QED
          BY <3>1, <4>2, <4>4, <4>5 DEF Owed
      <3>5. CASE idle[1] # <<"accept", q>>
        <4>1. Waiting(q) \ {1} = Waiting(q)
          BY <3>5 DEF Waiting
        <4>2. jobs'[q]["accept"] = jobs[q]["accept"]
          <5>1. CASE jobs' = jobs
            BY <5>1
          <5>2. CASE \E c \in Command : idle[1] = <<c, o>> /\ OpCommandIssued(o, c)
            BY <3>3, <3>5, <5>2 DEF OpCommandIssued, Command
          <5> QED
            BY <1>1, <1>7, <5>1, <5>2 DEF Tell, TurnedOff, AddOp, StatusChanged
        <4> QED
          BY <1>2, <3>2, <4>1, <4>2 DEF Owed
      <3> QED
        BY <3>4, <3>5
    <2> QED
      BY <1>2, <1>5, <2>1, <2>3, <2>4 DEF Approval
  <1> QED
    BY <1>6, <1>7

\* The callback that lists an op takes the place of another one.
LEMMA SetupApproval == ASSUME Inv, Approval, InitialSetupComplete PROVE Approval'
  <1>1. /\ Len(idle) \in Nat /\ 1 \in 1 .. Len(idle)
        /\ Len(idle') = Len(idle)
        /\ \A i \in 1 .. Len(idle) - 1 : i + 1 \in 1 .. Len(idle) /\ idle'[i] = idle[i + 1]
        /\ idle'[Len(idle)] = <<"list", idle[1][2]>>
        /\ idle[1][1] = "setup"
    BY SetupFacts DEF Inv, TypeOK
  <1>2. UNCHANGED <<shown, handlers, hooked, beside, consents, pressed, jobs, starts>>
    BY DEF InitialSetupComplete, screen, user
  <1>3. \A i \in 1 .. Len(idle') :
            idle'[i][1] = "ask" => i + 1 \in 1 .. Len(idle) /\ idle'[i] = idle[i + 1]
    <2> SUFFICES ASSUME NEW i \in 1 .. Len(idle'), idle'[i][1] = "ask"
                 PROVE  i + 1 \in 1 .. Len(idle) /\ idle'[i] = idle[i + 1]
      OBVIOUS
    <2>1. i # Len(idle)
      BY <1>1
    <2>2. i \in 1 .. Len(idle) - 1
      BY <1>1, <2>1
    <2> QED
      BY <1>1, <2>2
  <1>4. AsksOnce'
    <2> SUFFICES ASSUME NEW i \in 1 .. Len(idle'), idle'[i][1] = "ask"
                 PROVE  /\ idle'[i][2] \notin hooked
                        /\ \A j \in 1 .. Len(idle') :
                              idle'[j][1] = "ask" /\ idle'[j][2] = idle'[i][2] => j = i
      BY <1>2 DEF AsksOnce
    <2>1. i + 1 \in 1 .. Len(idle) /\ idle'[i] = idle[i + 1]
      BY <1>3
    <2>2. /\ idle[i + 1][2] \notin hooked
          /\ \A j \in 1 .. Len(idle) :
                idle[j][1] = "ask" /\ idle[j][2] = idle[i + 1][2] => j = i + 1
      BY <2>1 DEF Approval, AsksOnce
    <2>3. \A j \in 1 .. Len(idle') :
              idle'[j][1] = "ask" /\ idle'[j][2] = idle'[i][2] => j + 1 = i + 1
      BY <1>3, <2>1, <2>2
    <2> QED
      BY <2>1, <2>2, <2>3
  <1>5. OneHandler'
    BY <1>2 DEF Approval, OneHandler
  <1>6. ASSUME NEW q \in Op PROVE Owed(q)' = Owed(q)
    <2>1. idle[1] # <<"accept", q>> /\ idle'[Len(idle)] # <<"accept", q>>
      BY <1>1
    <2>2. Cardinality(Waiting(q)') = Cardinality(Waiting(q) \ {1})
      BY <1>1, <2>1, WaitingMoved
    <2>3. Waiting(q) \ {1} = Waiting(q)
      BY <2>1 DEF Waiting
    <2> QED
      BY <1>2, <2>2, <2>3 DEF Owed
  <1> QED
    BY <1>2, <1>4, <1>5, <1>6 DEF Approval

LEMMA ApprovalNext == Approval /\ Inv /\ [Next]_vars => Approval'
  <1> SUFFICES ASSUME Approval, Inv, [Next]_vars
               PROVE  Approval'
    OBVIOUS
  <1>0. Inv'
    BY InvNext
  <1>1. ASSUME NEW o \in Op, Offer(o) PROVE Approval'
    BY <1>1, OfferApproval
  <1>2. ASSUME NEW o \in Op,
               OfferAgain(o) \/ EndsTold(o) \/ EndsQuietly(o)
        PROVE  Approval'
    <2>1. PICK cs \in {<< <<"tell", o>>, <<"status", o>> >>, << <<"status", o>> >>} :
              /\ Queue(cs)
              /\ UNCHANGED <<shown, handlers, hooked, beside, consents, pressed, jobs, starts>>
      BY <1>2 DEF OfferAgain, EndsTold, EndsQuietly, screen, user
    <2>2. /\ cs \in Seq(Callback \X Op)
          /\ \A k \in 1 .. Len(cs) : cs[k][1] # "ask" /\ cs[k][1] # "accept"
      <3>1. CASE cs = << <<"tell", o>>, <<"status", o>> >>
        BY <3>1, CallbackNames
      <3>2. CASE cs = << <<"status", o>> >>
        BY <3>2, CallbackNames
      <3> QED
        BY <2>1, <3>1, <3>2
    <2> QED
      BY <1>0, <2>1, <2>2, OpsApproval
  <1>3. ASSUME NEW o \in Op, StartTransferOp(o) \/ CancelTransferOpRequest(o)
        PROVE  Approval'
    <2> DEFINE cs == << <<"status", o>> >>
    <2>1. /\ Queue(cs)
          /\ UNCHANGED <<shown, handlers, hooked, beside, consents, pressed>>
      BY <1>3 DEF StartTransferOp, CancelTransferOpRequest, Take, screen, user
    <2>2. /\ cs \in Seq(Callback \X Op)
          /\ \A k \in 1 .. Len(cs) : cs[k][1] # "ask" /\ cs[k][1] # "accept"
      BY CallbackNames
    <2>3. ASSUME NEW q \in Op
          PROVE  jobs'[q]["accept"] + starts'[q] = jobs[q]["accept"] + starts[q]
      BY <1>3, JobKept
    <2> HIDE DEF cs
    <2> QED
      BY <1>0, <2>1, <2>2, <2>3, OpsApproval
  <1>4. ASSUME NEW o \in Op, NEW c \in Command, AnswerInWindow(o, c) PROVE Approval'
    BY <1>4, WindowApproval
  <1>5. ASSUME NEW r \in Remote, NEW c \in Response, Press(r, c) PROVE Approval'
    BY <1>5, PressApproval
  <1>6. CASE RunIdle
    BY <1>6, IdleApproval
  <1>7. CASE UNCHANGED vars
    <2>1. UNCHANGED <<idle, shown, handlers, hooked, beside, consents, pressed, jobs, starts>>
      BY <1>7 DEF vars, screen, user
    <2>2. AsksOnce' /\ OneHandler'
      BY <2>1 DEF Approval, AsksOnce, OneHandler
    <2>3. \A q \in Op : Owed(q)' = Owed(q)
      BY <2>1 DEF Owed, Waiting
    <2> QED
      BY <2>1, <2>2, <2>3 DEF Approval
  <1>8. CASE InitialSetupComplete
    BY <1>8, SetupApproval
  <1> QED
    BY <1>1, <1>2, <1>3, <1>4, <1>5, <1>6, <1>7, <1>8 DEF Next

\* As long as no notification is shown before those of other ops have been pressed, every
\* stream has an acceptance of its own, for any number of transfers, remotes and answers.
\* (notifications._notification_response)
THEOREM EachApproved == Spec => []ApprovedEach
  <1>1. Init => Approval
    <2> SUFFICES ASSUME Init PROVE Approval
      OBVIOUS
    <2>1. /\ Len(idle) = 0 /\ Len(handlers) = 0 /\ hooked = {}
          /\ \A r \in Remote : shown[r] = Nothing
      BY DEF Init
    <2>2. AsksOnce
      BY <2>1 DEF AsksOnce
    <2>3. OneHandler
      <3>1. \A r \in Remote, o \in Op : shown[r] # <<"ask", o>>
        BY <2>1, NotNothing
      <3> QED
        BY <2>1, <3>1 DEF OneHandler
    <2>4. ASSUME NEW o \in Op PROVE Owed(o) <= consents[o]
      <3>1. Waiting(o) = {}
        BY <2>1 DEF Waiting
      <3>2. Cardinality(Waiting(o)) = 0
        BY <3>1, FS_EmptySet
      <3>3. jobs[o]["accept"] = 0 /\ starts[o] = 0 /\ consents[o] = 0
        BY DEF Init, Command
      <3> QED
        BY <3>2, <3>3 DEF Owed
    <2> QED
      BY <2>2, <2>3, <2>4 DEF Approval
  <1>2. Inv /\ Approval => ApprovedEach
    <2> SUFFICES ASSUME Inv, Approval PROVE ApprovedEach
      OBVIOUS
    <2>1. \A o \in Op : Owed(o) <= consents[o] => starts[o] <= consents[o]
      BY StartsOwed
    <2>2. ~beside => \A o \in Op : Owed(o) <= consents[o]
      BY Zenon DEF Approval
    <2>3. ~beside => \A o \in Op : starts[o] <= consents[o]
      BY <2>1, <2>2, Zenon
    <2> QED
      BY <2>3, Zenon DEF ApprovedEach
  <1> QED
    BY <1>1, <1>2, InvInit, InvNext, ApprovalNext, PTL DEF Spec
=============================================================================
