----------------------------- MODULE Notifications -----------------------------
(***************************************************************************)
(* What the server tells people: mails (Mailer), which a request starts    *)
(* and waits for, and the notice to the recipient of an order by Teams,    *)
(* whose automatic mode may be switched while a call is on its way.        *)
(***************************************************************************)
EXTENDS Mailer

CONSTANTS
  Order,   \* orders with their delivery_details
  Idle,    \* a slot with no request
  NoOrder  \* the request mails and is about no order

\* Each request slot has at most one mail on its way.
Request == Send

Mode == {"AUTOMATIC", "MANUAL"}

\* "sent" is the value a call of notify is going to write.
Call == [step : {"mail", "mode", "mark"}, order : Order \cup {NoOrder}, sent : BOOLEAN]

ASSUME NullsAssumption == NoOrder \notin Order /\ Idle \notin Call

VARIABLES
  selfPickup,  \* delivery_details.selfPickup
  sent,        \* delivery_details.teamsNotificationSent
  byHand,      \* whether a call of notify ever read the mode MANUAL
  mode,        \* app_settings.notificationMode
  req          \* the call each slot works on, or Idle

noticeVars == <<selfPickup, sent, byHand, mode>>
vars == <<mailVars, noticeVars, req>>

TypeOK ==
  /\ MailTypeOK
  /\ selfPickup \in [Order -> BOOLEAN]
  /\ sent \in [Order -> BOOLEAN] /\ byHand \in [Order -> BOOLEAN]
  /\ mode \in Mode
  /\ req \in [Request -> Call \cup {Idle}]

Init ==
  /\ MailInit
  /\ selfPickup \in [Order -> BOOLEAN]
  /\ sent = [o \in Order |-> FALSE] /\ byHand = [o \in Order |-> FALSE]
  /\ mode \in Mode
  /\ req = [r \in Request |-> Idle]

-----------------------------------------------------------------------------
At(r, step) == req[r] # Idle /\ req[r].step = step
End(r) == req' = [req EXCEPT ![r] = Idle]

(* A request that mails: a registration, a forgotten password (awaited), an *)
(* approved dedication, a delivery (courtesy).                             *)

BeginMail(r) ==
  /\ req[r] = Idle
  /\ \E k \in Kind : StartSend(r, k)
  /\ req' = [req EXCEPT ![r] = [step |-> "mail", order |-> NoOrder, sent |-> FALSE]]
  /\ UNCHANGED noticeVars

Mailing(r) == MailStep(r) /\ UNCHANGED <<noticeVars, req>>

AnswerMail(r) == ResetSend(r) /\ End(r) /\ UNCHANGED noticeVars

(* notify                                                                  *)

ToldAtOnce(o) == selfPickup[o]

ReadNotify(r, o) ==
  /\ req[r] = Idle
  /\ req' = [req EXCEPT ![r] =
       [step |-> IF ToldAtOnce(o) THEN "mark" ELSE "mode", order |-> o,
        sent |-> ToldAtOnce(o)]]
  /\ UNCHANGED <<mailVars, noticeVars>>

\* In the automatic mode the Graph client always throws, and the catch marks
\* the notice for sending by hand.
SentAnyway(m) == TRUE   \* mutant
SentIn(m) == m = "MANUAL"

ReadMode(r) ==
  /\ At(r, "mode")
  /\ req' = [req EXCEPT ![r].step = "mark", ![r].sent = SentIn(mode)]
  /\ byHand' = [byHand EXCEPT ![req[r].order] = @ \/ mode = "MANUAL"]
  /\ UNCHANGED <<mailVars, selfPickup, sent, mode>>

MarkNotified(r) ==
  /\ At(r, "mark")
  /\ sent' = [sent EXCEPT ![req[r].order] = req[r].sent]
  /\ End(r)
  /\ UNCHANGED <<mailVars, selfPickup, byHand, mode>>

updateNotificationMode(m) ==
  /\ mode' = m
  /\ UNCHANGED <<mailVars, selfPickup, sent, byHand, req>>

\* What the server does by itself once a request arrived.
Progress(r) == Mailing(r) \/ AnswerMail(r) \/ ReadMode(r) \/ MarkNotified(r)

Next ==
  \/ \E r \in Request :
       \/ Progress(r)
       \/ BeginMail(r)
       \/ \E o \in Order : ReadNotify(r, o)
  \/ \E m \in Mode : updateNotificationMode(m)

\* Servers and the database answer, with an error or without, and timers ring.
Spec == Init /\ [][Next]_vars /\ \A r \in Request : WF_vars(Progress(r))

-----------------------------------------------------------------------------
\* A notice counts as sent only if a person sent it or there was nobody to
\* tell: a failed call to Graph never marks it, even when the mode changes
\* during the call.
NoticeHonest == \A o \in Order : sent[o] => selfPickup[o] \/ byHand[o]

\* Every request ends: no mail is tried for ever, and none is forgotten.
Answered == \A r \in Request : req[r] # Idle ~> req[r] = Idle
=============================================================================
