----------------------------- MODULE Notifications -----------------------------
(***************************************************************************)
(* How a user answers the offers of transfers through notifications, when  *)
(* permission is required.  NewOpUserNotification shows one with the       *)
(* buttons Accept and Decline, under the ident of the remote: a later one  *)
(* of that remote takes its place.  The buttons activate the one action    *)
(* "notification-response" of the program, without saying of which         *)
(* notification; every notification connects a handler of its own to it,   *)
(* which acts upon the op of that notification and disconnects itself.  It *)
(* acts by a signal of the op, "op-command", to which nothing is connected *)
(* until add_op has listed the op.                                         *)
(*                                                                         *)
(* idle is the queue of idle callbacks, first in first out; jobs are what  *)
(* was given to the RPC thread pool.  The other kinds of notifications     *)
(* ("tell") are shown under the same ident; their handlers can do no more  *)
(* than raise the window, and are left out.  A transfer that is over may   *)
(* be offered again, which shows no notification.  TransferOp has the      *)
(* whole life of one transfer.                                             *)
(*                                                                         *)
(* A definition whose comment begins with (slip) is a plausible mistake in *)
(* the definition that follows it; no action uses it.                      *)
(***************************************************************************)
EXTENDS Integers, Sequences

CONSTANTS
    Op,         \* incoming transfers
    Remote,     \* who sends them
    Senders,    \* which remotes may send which ops
    MaxOffers,  \* bound: how many offers are made
    MaxAnswers  \* bound: how often the user answers

ASSUME SendersAssumption == Senders \subseteq [Op -> Remote]
ASSUME BoundsAssumption == MaxOffers \in Nat /\ MaxAnswers \in Nat

Response == {"accept", "decline", "focus"}
Callback ==
    {"ask", "tell", "setup", "list", "status", "accept", "decline", "unheard"}
Nothing == <<>>

VARIABLES
    from,       \* from[o]: the remote that sends o
    status,     \* "none", "waiting", "transferring" or "over"
    listed,     \* ops in the window
    offers,     \* how many offers were made
    answers,    \* how often the user answered
    idle,       \* the callbacks <<what, op>> that wait
    jobs,       \* jobs[o][c]: how many jobs of the pool accept, or decline, o
    shown,      \* shown[r]: the notification <<what, op>> of r, or Nothing
    handlers,   \* the ops with a handler on the action, in order of connection
    hooked,     \* ops whose change of status withdraws what is shown
    consents,   \* history: consents[o]: how often the user accepted o
    starts,     \* history: starts[o]: how often a stream of o was begun
    pressed,    \* history: ops whose notification was pressed
    deaf,       \* history: ops whose notification was shown while another one
                \* was pressed
    beside,     \* history: a notification was shown while the one of another op
                \* had not been pressed
    lost        \* history: ops whose notification was pressed before they were
                \* listed, and which were not accepted in the window since

ops == <<from, status, listed, offers>>
screen == <<shown, handlers, hooked, beside>>
user == <<answers, consents, pressed, deaf, lost>>
vars == <<ops, screen, user, idle, jobs, starts>>

Command == {"accept", "decline"}

TypeOK ==
    /\ from \in Senders
    /\ status \in [Op -> {"none", "waiting", "transferring", "over"}]
    /\ listed \subseteq {o \in Op : status[o] # "none"}
    /\ offers \in 0 .. MaxOffers
    /\ answers \in 0 .. MaxAnswers
    /\ idle \in Seq(Callback \X Op)
    /\ jobs \in [Op -> [Command -> Nat]]
    /\ shown \in [Remote -> {Nothing} \cup ({"ask", "tell"} \X Op)]
    /\ \A r \in Remote : shown[r] # Nothing => from[shown[r][2]] = r
    /\ handlers \in Seq(hooked)
    /\ hooked \subseteq Op
    /\ consents \in [Op -> 0 .. MaxAnswers]
    /\ starts \in [Op -> Nat]
    /\ pressed \subseteq hooked
    /\ deaf \subseteq hooked
    /\ beside \in BOOLEAN
    /\ lost \subseteq hooked

Init ==
    /\ from \in Senders
    /\ status = [o \in Op |-> "none"]
    /\ listed = {}
    /\ offers = 0
    /\ answers = 0
    /\ idle = <<>>
    /\ jobs = [o \in Op |-> [c \in Command |-> 0]]
    /\ shown = [r \in Remote |-> Nothing]
    /\ handlers = <<>>
    /\ hooked = {}
    /\ consents = [o \in Op |-> 0]
    /\ starts = [o \in Op |-> 0]
    /\ pressed = {}
    /\ deaf = {}
    /\ beside = FALSE
    /\ lost = {}

-----------------------------------------------------------------------------
(***************************************************************************)
(* Calls of the remote, and the threads that receive.                      *)
(***************************************************************************)
SetStatus(o, s) == status' = [status EXCEPT ![o] = s]

Queue(cs) == idle' = idle \o cs

Offered(o) ==
    /\ offers < MaxOffers
    /\ offers' = offers + 1
    /\ SetStatus(o, "waiting")

\* ProcessTransferOpRequest for an op that is not known: update_ui_info has the
\* notification shown and emit_initial_setup_complete run.
Offer(o) ==
    /\ status[o] = "none"
    /\ Offered(o)
    /\ Queue(<< <<"ask", o>>, <<"setup", o>> >>)
    /\ UNCHANGED <<from, listed, screen, user, jobs, starts>>

\* ProcessTransferOpRequest for one that is listed.
OfferAgain(o) ==
    /\ o \in listed
    /\ status[o] = "over"
    /\ Offered(o)
    /\ Queue(<< <<"status", o>> >>)
    /\ UNCHANGED <<from, listed, screen, user, jobs, starts>>

\* FINISHED, FAILED and STOPPED_BY_SENDER, or a connection that is lost while the
\* op waits: set_status makes a notification of it.
EndsTold(o) ==
    /\ o \in listed
    /\ status[o] \in {"waiting", "transferring"}
    /\ SetStatus(o, "over")
    /\ Queue(<< <<"tell", o>>, <<"status", o>> >>)
    /\ UNCHANGED <<from, listed, offers, screen, user, jobs, starts>>

\* The sender cancels the offer, or the user stops the transfer: it does not.
EndsQuietly(o) ==
    /\ o \in listed
    /\ status[o] \in {"waiting", "transferring"}
    /\ SetStatus(o, "over")
    /\ Queue(<< <<"status", o>> >>)
    /\ UNCHANGED <<from, listed, offers, screen, user, jobs, starts>>

-----------------------------------------------------------------------------
(***************************************************************************)
(* Jobs of the pool: start_transfer_op and cancel_transfer_op_request do   *)
(* not ask what status the op has.                                         *)
(***************************************************************************)
Take(o, c) ==
    /\ jobs[o][c] > 0
    /\ jobs' = [jobs EXCEPT ![o][c] = @ - 1]
    /\ Queue(<< <<"status", o>> >>)
    /\ UNCHANGED <<from, listed, offers, screen, user>>

StartTransferOp(o) ==
    /\ Take(o, "accept")
    /\ SetStatus(o, "transferring")
    /\ starts' = [starts EXCEPT ![o] = @ + 1]

CancelTransferOpRequest(o) ==
    /\ Take(o, "decline")
    /\ SetStatus(o, "over")
    /\ UNCHANGED starts

-----------------------------------------------------------------------------
(***************************************************************************)
(* Idle callbacks.                                                         *)
(***************************************************************************)
Withdraw(r) == shown' = [shown EXCEPT ![r] = Nothing]

\* (slip) one handler is thought to be enough
AskOnce(o) ==
    /\ shown' = [shown EXCEPT ![from[o]] = <<"ask", o>>]
    /\ handlers' = IF handlers = <<>> THEN <<o>> ELSE handlers
    /\ hooked' = hooked \cup {o}
    /\ beside' = (beside \/ hooked \ pressed # {})
    /\ UNCHANGED <<listed, jobs>>

\* NewOpUserNotification.send_notification
Ask(o) ==
    /\ shown' = [shown EXCEPT ![from[o]] = <<"ask", o>>]
    /\ handlers' = Append(handlers, o)
    /\ hooked' = hooked \cup {o}
    /\ beside' = (beside \/ hooked \ pressed # {})
    /\ UNCHANGED <<listed, jobs>>

\* (slip) one id for the notifications of all remotes
TellAll(o) ==
    /\ shown' = [r \in Remote |-> <<"tell", o>>]
    /\ UNCHANGED <<handlers, hooked, beside, listed, jobs>>

\* send_notification of the other kinds
Tell(o) ==
    /\ shown' = [shown EXCEPT ![from[o]] = <<"tell", o>>]
    /\ UNCHANGED <<handlers, hooked, beside, listed, jobs>>

\* show-notifications is off.
TurnedOff == UNCHANGED <<screen, listed, jobs>>

\* add_op, which connects op_command_issued to the op
AddOp(o) ==
    /\ listed' = listed \cup {o}
    /\ UNCHANGED <<screen, jobs>>

\* (slip) the notification stays
StatusUnnoticed(o) == UNCHANGED <<screen, listed, jobs>>

\* "status-changed": whatever is shown for the remote is withdrawn.
StatusChanged(o) ==
    /\ IF o \in hooked /\ status[o] # "waiting" THEN Withdraw(from[o])
                                               ELSE UNCHANGED shown
    /\ UNCHANGED <<handlers, hooked, beside, listed, jobs>>

\* op_command_issued
OpCommandIssued(o, c) ==
    /\ jobs' = [jobs EXCEPT ![o][c] = @ + 1]
    /\ UNCHANGED <<screen, listed>>

\* The callback at the head of the queue
Dispatch(c, o) ==
    CASE c = "ask"       -> Ask(o) \/ TurnedOff
      [] c = "tell"      -> Tell(o) \/ TurnedOff
      [] c = "list"      -> AddOp(o)
      [] c = "status"    -> StatusChanged(o)
      [] c \in Command   -> OpCommandIssued(o, c)
      [] c = "unheard"   -> UNCHANGED <<screen, listed, jobs>>

\* emit_initial_setup_complete: add_op is a callback of its own.
InitialSetupComplete ==
    /\ idle # <<>>
    /\ idle[1][1] = "setup"
    /\ idle' = Append(Tail(idle), <<"list", idle[1][2]>>)
    /\ UNCHANGED <<ops, screen, user, jobs, starts>>

RunIdle ==
    /\ idle # <<>>
    /\ idle[1][1] # "setup"
    /\ idle' = Tail(idle)
    /\ Dispatch(idle[1][1], idle[1][2])
    /\ UNCHANGED <<from, status, offers, user, starts>>

-----------------------------------------------------------------------------
(***************************************************************************)
(* The user.                                                               *)
(***************************************************************************)
Consent(o, c) ==
    /\ answers < MaxAnswers
    /\ answers' = answers + 1
    /\ consents' = IF c = "accept" THEN [consents EXCEPT ![o] = @ + 1] ELSE consents

\* Accept, or Decline, in the window
AnswerInWindow(o, c) ==
    /\ o \in listed
    /\ status[o] = "waiting"
    /\ Consent(o, c)
    /\ lost' = IF c = "accept" THEN lost \ {o} ELSE lost
    /\ Queue(<< <<c, o>> >>)
    /\ UNCHANGED <<ops, screen, pressed, deaf, jobs, starts>>

\* An op emits "op-command": before add_op nobody hears it, and what is queued
\* stands for nothing.
Emitted(o, c) == IF o \in listed THEN <<c, o>> ELSE <<"unheard", o>>

\* What handlers do with a response: raising the window changes nothing here.
Commands(hs, c) ==
    IF c = "focus" THEN <<>> ELSE [i \in 1 .. Len(hs) |-> Emitted(hs[i], c)]

\* (slip) the handlers stay connected
RespondAgain(c) ==
    /\ Queue(Commands(handlers, c))
    /\ UNCHANGED handlers

\* (slip) the handler that was connected first is the only one to act
RespondFirst(c) ==
    /\ Queue(IF handlers = <<>> THEN <<>> ELSE Commands(<<Head(handlers)>>, c))
    /\ handlers' = <<>>

\* Each handler runs _notification_response, and disconnects itself.
Respond(c) ==
    /\ Queue(Commands(handlers, c))
    /\ handlers' = <<>>

\* The notifications of other remotes, of ops that wait for an answer
AskedBeside(r) ==
    {o \in hooked : \E q \in Remote \ {r} : shown[q] = <<"ask", o>>}

\* A notification goes when the user presses a button of it, or the whole of it.
Press(r, c) ==
    /\ shown[r] # Nothing
    /\ shown[r][1] = "tell" => c = "focus"
    /\ Consent(shown[r][2], c)
    /\ Respond(c)
    /\ Withdraw(r)
    /\ IF shown[r][1] = "ask"
         THEN /\ pressed' = pressed \cup {shown[r][2]}
              /\ lost' = lost \cup ({shown[r][2]} \ listed)
         ELSE UNCHANGED <<pressed, lost>>
    /\ deaf' = deaf \cup AskedBeside(r)
    /\ UNCHANGED <<ops, hooked, beside, jobs, starts>>

-----------------------------------------------------------------------------
Next ==
    \/ \E o \in Op :
          \/ Offer(o) \/ OfferAgain(o)
          \/ EndsTold(o) \/ EndsQuietly(o)
          \/ StartTransferOp(o) \/ CancelTransferOpRequest(o)
          \/ \E c \in Command : AnswerInWindow(o, c)
    \/ \E r \in Remote, c \in Response : Press(r, c)
    \/ RunIdle \/ InitialSetupComplete

Spec == Init /\ [][Next]_vars

\* The main loop runs its callbacks, and the pool its jobs.
FairSpec ==
    /\ Spec
    /\ WF_vars(RunIdle \/ InitialSetupComplete)
    /\ \A o \in Op : WF_vars(StartTransferOp(o))

-----------------------------------------------------------------------------
(***************************************************************************)
(* Properties.                                                             *)
(***************************************************************************)

\* "If true, every transfer initiated must first be approved by the receiving user."
\* (data/org.x.Warpinator.gschema.xml:32; notifications.NewOpUserNotification)
Approved == \A o \in Op : starts[o] > 0 => consents[o] > 0

\* As long as no notification is shown before those of other ops have been pressed,
\* every stream has an acceptance of its own, whatever was answered in the window and
\* offered again: no handler answers twice, or later.
\* (notifications._notification_response)
ApprovedEach == ~beside => \A o \in Op : starts[o] <= consents[o]

\* An offer that was answered, cancelled or lost is not on the screen any more, as
\* soon as the main loop has caught up with its status.
\* (notifications.NewOpUserNotification.send_notification)
NoStaleOffer ==
    \A r \in Remote, o \in Op :
        /\ shown[r] = <<"ask", o>>
        /\ \A i \in 1 .. Len(idle) : idle[i] # <<"status", o>>
        => status[o] = "waiting"

\* The buttons of a notification that is shown do something, unless another one was
\* pressed while it was shown: that disconnects the handlers of all.
\* (notifications.NewOpUserNotification)
ButtonsWork ==
    \A r \in Remote, o \in Op :
        shown[r] = <<"ask", o>> =>
            o \in deaf \/ \E i \in 1 .. Len(handlers) : handlers[i] = o

\* What the user accepts is started in the end, wherever it was accepted, with the
\* same exception and one more: when a notification is pressed before add_op has
\* run, two callbacks after it was shown, the answer is lost with the handler, and
\* only a later one in the window counts.
\* (notifications._notification_response, remote.add_op, op_command_issued)
AcceptedStarts ==
    \A o \in Op :
        consents[o] > 0 /\ o \notin lost ~> starts[o] > 0 \/ o \in deaf
=============================================================================
