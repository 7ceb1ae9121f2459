------------------------- MODULE NotificationsProofs -------------------------
(***************************************************************************)
(* Mails and notices, for any number of requests, orders and retries and   *)
(* for any settings: no mail let through lacks a server, no caller is told *)
(* of a mail that was not taken, and no notice counts as sent that nobody  *)
(* sent.  (That every request is answered is left to TLC.)                 *)
(***************************************************************************)
EXTENDS Notifications, TLAPS

\* A mail on its way was let through and has not been answered; the server
\* took at most one copy for each attempt that is over.
SendOK(s) ==
  /\ phase[s] \in {"connect", "send", "delay"} => isConfigured /\ result[s] = "none"
  /\ phase[s] \in {"idle", "connect", "send"} => accepted[s] <= attempt[s]
  /\ phase[s] = "delay" => RetriesLeft(s)
  /\ phase[s] = "idle" => result[s] = "none"
  /\ accepted[s] <= attempt[s] + 1

\* A call that is going to write knows what it writes.
NoticeOK(r) ==
  req[r] # Idle /\ req[r].step \in {"mode", "mark"} =>
    /\ req[r].order \in Order
    /\ req[r].step = "mark" /\ req[r].sent => selfPickup[req[r].order] \/ byHand[req[r].order]

IInv ==
  /\ TypeOK
  /\ \A s \in Send : SendOK(s)
  /\ \A r \in Request : NoticeOK(r)
  /\ NeverWithoutTransport /\ AnsweredTruly /\ NoticeHonest

MailInv ==
  /\ MailTypeOK
  /\ \A s \in Send : SendOK(s)
  /\ NeverWithoutTransport /\ AnsweredTruly

NoticeInv ==
  /\ selfPickup \in [Order -> BOOLEAN]
  /\ sent \in [Order -> BOOLEAN] /\ byHand \in [Order -> BOOLEAN]
  /\ mode \in Mode
  /\ req \in [Request -> Call \cup {Idle}]
  /\ \A r \in Request : NoticeOK(r)
  /\ NoticeHonest

\* The invariant of the mails and that of the notices make the whole.
LEMMA TwoParts == IInv <=> MailInv /\ NoticeInv
BY DEF IInv, MailInv, NoticeInv, TypeOK

-----------------------------------------------------------------------------
(* The mails.                                                              *)

\* The mail invariant holds before any mail.
LEMMA InitMail == MailInit => MailInv
BY RetriesAssumption, EnvironmentsAssumption
DEF MailInit, MailInv, MailTypeOK, SendOK, NeverWithoutTransport, AnsweredTruly, Cause, Kind

\* What every step of a mail does: it moves one send, of which the rest follows.
SendMoves(s) ==
  /\ env' = env
  /\ MailTypeOK'
  /\ \A x \in Send \ {s} :
       /\ phase'[x] = phase[x] /\ kind'[x] = kind[x] /\ attempt'[x] = attempt[x]
       /\ cause'[x] = cause[x] /\ accepted'[x] = accepted[x] /\ result'[x] = result[x]
  /\ SendOK(s)'
  /\ cause'[s] # "noTransport"
  /\ result'[s] = "ok" /\ kind'[s] = "awaited" => accepted'[s] >= 1

\* A step of one send keeps the mail invariant.
LEMMA MoveKeeps ==
  ASSUME MailInv, NEW s \in Send, SendMoves(s)
  PROVE  MailInv'
<1>1. \A x \in Send : SendOK(x)'
  BY DEF MailInv, SendMoves, SendOK, isConfigured, hasOAuthConfig, getSmtpUser,
     SecretsOnly, RetriesLeft
<1>2. NeverWithoutTransport' /\ AnsweredTruly'
  BY <1>1 DEF MailInv, SendMoves, SendOK, NeverWithoutTransport, AnsweredTruly
<1> QED
  BY <1>1, <1>2 DEF MailInv, SendMoves

\* The start of a send is such a step.
LEMMA StartMoves ==
  ASSUME MailInv, NEW s \in Send, NEW k \in Kind, StartSend(s, k)
  PROVE  SendMoves(s)
<1> USE DEF StartSend, MailInv, MailTypeOK
<1>1. MailTypeOK'
  BY DEF Kind, Cause, FailureSeen
<1>2. CASE isConfigured
  BY <1>1, <1>2 DEF SendMoves, SendOK, NeverWithoutTransport, isConfigured, hasOAuthConfig,
     getSmtpUser, SecretsOnly, RetriesLeft
<1>3. CASE ~isConfigured
  BY <1>1, <1>3 DEF SendMoves, SendOK, NeverWithoutTransport, FailureSeen, Kind, RetriesLeft
<1> QED
  BY <1>2, <1>3

\* A caught error is either tried again or told.
LEMMA CaughtMoves ==
  ASSUME MailInv, NEW s \in Send, phase[s] \in {"connect", "send"},
         NEW c \in Cause \ {"noTransport"}, Caught(s, c),
         UNCHANGED <<env, kind, attempt>>,
         \/ UNCHANGED accepted
         \/ phase[s] = "send" /\ accepted' = [accepted EXCEPT ![s] = accepted[s] + 1]
  PROVE  SendMoves(s)
<1> USE RetriesAssumption DEF MailInv, MailTypeOK
<1>1. accepted' \in [Send -> Nat] /\ accepted'[s] <= attempt[s] + 1
  BY DEF SendOK
<1>2. /\ phase' \in [Send -> {"idle", "connect", "send", "delay", "done"}]
      /\ cause' \in [Send -> Cause] /\ cause'[s] # "noTransport"
      /\ result' \in [Send -> {"none", "ok", "unavailable"}]
  BY DEF Caught, FailureSeen
<1>3. MailTypeOK'
  BY <1>1, <1>2
<1>4. \/ phase'[s] = "delay" /\ RetriesLeft(s) /\ result'[s] = result[s]
      \/ phase'[s] = "done" /\ result'[s] = FailureSeen(kind[s])
  BY DEF Caught
<1>5. SendOK(s)'
  BY <1>1, <1>4 DEF SendOK, RetriesLeft, isConfigured, hasOAuthConfig, getSmtpUser, SecretsOnly
<1>6. result'[s] = "ok" /\ kind'[s] = "awaited" => accepted'[s] >= 1
  BY <1>4 DEF FailureSeen, SendOK
<1> QED
  BY <1>2, <1>3, <1>5, <1>6 DEF SendMoves, Caught

\* A mail that was let through has a server: isConfigured and getTransporter
\* agree.
LEMMA TransporterMoves ==
  ASSUME MailInv, NEW s \in Send, GetTransporter(s)
  PROVE  SendMoves(s)
<1> USE DEF GetTransporter
<1>1. isConfigured /\ result[s] = "none" /\ accepted[s] <= attempt[s]
  BY DEF MailInv, SendOK
<1>2. CASE phase' = [phase EXCEPT ![s] = "send"] /\ UNCHANGED <<cause, result>>
  BY <1>1, <1>2 DEF MailInv, MailTypeOK, SendMoves, SendOK, NeverWithoutTransport,
     isConfigured, hasOAuthConfig, getSmtpUser, SecretsOnly
<1>3. ASSUME NEW c \in TransportErrors, Caught(s, c)
      PROVE  SendMoves(s)
  <2>1. c = "dns"
    BY <1>1, <1>3 DEF TransportErrors, isConfigured
  <2> QED
    BY <1>3, <2>1, CaughtMoves DEF Cause
<1> QED
  BY <1>2, <1>3

\* So is an attempt the server takes.
LEMMA SendMailMoves ==
  ASSUME MailInv, NEW s \in Send, SendMail(s)
  PROVE  SendMoves(s)
<1> USE DEF SendMail, MailInv, MailTypeOK
<1>1. accepted[s] <= attempt[s] /\ accepted[s] \in Nat /\ attempt[s] \in Nat
  BY RetriesAssumption DEF SendOK
<1>2. MailTypeOK'
  BY DEF Cause
<1>3. accepted'[s] = accepted[s] + 1 /\ phase'[s] = "done" /\ attempt'[s] = attempt[s]
  OBVIOUS
<1>4. SendOK(s)'
  BY <1>1, <1>3 DEF SendOK
<1> QED
  BY <1>1, <1>2, <1>3, <1>4 DEF SendMoves

\* So is an attempt that fails.
LEMMA SendMailFailsMoves ==
  ASSUME MailInv, NEW s \in Send, SendMailFails(s)
  PROVE  SendMoves(s)
<1>1. "transient" \in Cause \ {"noTransport"} /\ "permanent" \in Cause \ {"noTransport"}
  BY DEF Cause
<1>2. CASE Caught(s, "transient") /\ accepted' = [accepted EXCEPT ![s] = accepted[s] + 1]
  BY <1>1, <1>2, CaughtMoves DEF SendMailFails
<1>3. CASE Caught(s, "transient") /\ UNCHANGED accepted
  BY <1>1, <1>3, CaughtMoves DEF SendMailFails
<1>4. CASE Caught(s, "permanent") /\ UNCHANGED accepted
  BY <1>1, <1>4, CaughtMoves DEF SendMailFails
<1>5. Caught(s, "transient") /\ accepted' = [accepted EXCEPT ![s] = @ + 1]
        => accepted' = [accepted EXCEPT ![s] = accepted[s] + 1]
  OBVIOUS
<1> QED
  BY <1>2, <1>3, <1>4, <1>5 DEF SendMailFails

\* So is the wait before a retry.
LEMMA DelayMoves ==
  ASSUME MailInv, NEW s \in Send, Delay(s)
  PROVE  SendMoves(s)
<1> USE RetriesAssumption DEF Delay, MailInv, MailTypeOK
<1>1. /\ attempt[s] \in 0..MaxRetries /\ attempt[s] < MaxRetries
      /\ accepted[s] <= attempt[s] + 1 /\ accepted[s] \in Nat
      /\ isConfigured /\ result[s] = "none"
  BY DEF SendOK, RetriesLeft
<1>2. attempt'[s] = attempt[s] + 1 /\ attempt'[s] \in 0..MaxRetries /\ phase'[s] = "connect"
  BY <1>1 DEF NextAttempt
<1>3. MailTypeOK'
  BY <1>1, <1>2 DEF NextAttempt
<1>4. SendOK(s)'
  BY <1>1, <1>2 DEF SendOK, isConfigured, hasOAuthConfig, getSmtpUser, SecretsOnly
<1> QED
  BY <1>1, <1>3, <1>4 DEF SendMoves, NeverWithoutTransport

\* So is the end of a send.
LEMMA ResetMoves ==
  ASSUME MailInv, NEW s \in Send, ResetSend(s)
  PROVE  SendMoves(s)
BY RetriesAssumption
DEF ResetSend, MailInv, MailTypeOK, SendMoves, SendOK, Kind, Cause

\* What changes no mail keeps the mail invariant.
LEMMA MailKept ==
  ASSUME MailInv, UNCHANGED mailVars
  PROVE  MailInv'
BY DEF mailVars, MailInv, MailTypeOK, SendOK, NeverWithoutTransport, AnsweredTruly,
   isConfigured, hasOAuthConfig, getSmtpUser, SecretsOnly, RetriesLeft

\* Every step of the notifications keeps the mail invariant.
LEMMA MailStepKeeps ==
  ASSUME MailInv, Next
  PROVE  MailInv'
<1>1. ASSUME NEW r \in Request, Mailing(r)
      PROVE  MailInv'
  BY <1>1, TransporterMoves, SendMailMoves, SendMailFailsMoves, DelayMoves, MoveKeeps
  DEF Mailing, MailStep, Request
<1>2. ASSUME NEW r \in Request, AnswerMail(r)
      PROVE  MailInv'
  BY <1>2, ResetMoves, MoveKeeps DEF AnswerMail, Request
<1>3. ASSUME NEW r \in Request, BeginMail(r)
      PROVE  MailInv'
  BY <1>3, StartMoves, MoveKeeps DEF BeginMail, Request
<1>4. CASE UNCHANGED mailVars
  BY <1>4, MailKept
<1> QED
  BY <1>1, <1>2, <1>3, <1>4
  DEF Next, Progress, ReadMode, MarkNotified, ReadNotify, updateNotificationMode

-----------------------------------------------------------------------------
(* The notices.                                                            *)

\* The notice invariant holds before any notice.
LEMMA InitNotice == Init => NoticeInv
BY DEF Init, NoticeInv, NoticeOK, NoticeHonest, Request

\* A busy slot holds a call.
LEMMA BusyCall ==
  ASSUME NoticeInv, NEW r \in Request, req[r] # Idle
  PROVE  req[r] \in Call
BY DEF NoticeInv

\* A step of one call, which leaves the notices alone or only adds to what
\* was read to be sent by hand.
LEMMA CallMoved ==
  ASSUME NoticeInv, NEW r \in Request, NEW c \in Call \cup {Idle},
         req' = [req EXCEPT ![r] = c],
         UNCHANGED <<selfPickup, sent, mode>>, byHand' \in [Order -> BOOLEAN],
         \A o \in Order : byHand[o] => byHand'[o],
         c # Idle /\ c.step \in {"mode", "mark"} =>
           /\ c.order \in Order
           /\ c.step = "mark" /\ c.sent => selfPickup[c.order] \/ byHand'[c.order]
  PROVE  NoticeInv'
<1>1. \A q \in Request : req'[q] = IF q = r THEN c ELSE req[q]
  BY DEF NoticeInv
<1>2. \A q \in Request : NoticeOK(q)'
  BY <1>1 DEF NoticeInv, NoticeOK
<1> QED
  BY <1>2 DEF NoticeInv, NoticeHonest

\* Every step keeps the notice invariant.
LEMMA NoticeStepKeeps ==
  ASSUME NoticeInv, Next
  PROVE  NoticeInv'
<1>1. ASSUME NEW r \in Request, Mailing(r)
      PROVE  NoticeInv'
  BY <1>1 DEF Mailing, noticeVars, NoticeInv, NoticeOK, NoticeHonest
<1>2. ASSUME NEW r \in Request, AnswerMail(r)
      PROVE  NoticeInv'
  BY <1>2, CallMoved DEF AnswerMail, End, noticeVars, NoticeInv
<1>3. ASSUME NEW r \in Request, BeginMail(r)
      PROVE  NoticeInv'
  <2> DEFINE c == [step |-> "mail", order |-> NoOrder, sent |-> FALSE]
  <2>1. c \in Call /\ c.step = "mail"
    BY DEF Call
  <2>2. req' = [req EXCEPT ![r] = c] /\ UNCHANGED noticeVars
    BY <1>3 DEF BeginMail
  <2> HIDE DEF c
  <2> QED
    BY <2>1, <2>2, CallMoved DEF noticeVars, NoticeInv
<1>4. ASSUME NEW r \in Request, NEW o \in Order, ReadNotify(r, o)
      PROVE  NoticeInv'
  <2> DEFINE c == [step |-> IF ToldAtOnce(o) THEN "mark" ELSE "mode", order |-> o,
                   sent |-> ToldAtOnce(o)]
  <2>1. c \in Call /\ c.order = o /\ (c.sent <=> selfPickup[o])
    BY DEF Call, ToldAtOnce, NoticeInv
  <2>2. req' = [req EXCEPT ![r] = c] /\ UNCHANGED noticeVars
    BY <1>4 DEF ReadNotify
  <2> HIDE DEF c
  <2> QED
    BY <2>1, <2>2, CallMoved DEF noticeVars, NoticeInv
<1>5. ASSUME NEW r \in Request, ReadMode(r)
      PROVE  NoticeInv'
  <2> DEFINE o == req[r].order
             b == mode = "MANUAL"
             c == [req[r] EXCEPT !.step = "mark", !.sent = b]
  <2>1. req[r] \in Call /\ o \in Order
    BY <1>5, BusyCall DEF ReadMode, At, NoticeInv, NoticeOK
  <2>2. c \in Call /\ c.order = o /\ (c.sent <=> b)
    BY <2>1 DEF Call
  <2>3. req' = [req EXCEPT ![r] = c]
    BY <1>5, <2>1 DEF ReadMode, SentIn, Call, NoticeInv
  <2>4. /\ byHand' = [byHand EXCEPT ![o] = byHand[o] \/ b]
        /\ UNCHANGED <<selfPickup, sent, mode>>
    BY <1>5 DEF ReadMode
  <2>5. /\ byHand' \in [Order -> BOOLEAN]
        /\ \A x \in Order : byHand[x] => byHand'[x]
        /\ b => byHand'[o]
    BY <2>1, <2>4 DEF NoticeInv
  <2> HIDE DEF c, b
  <2> QED
    BY <2>1, <2>2, <2>3, <2>4, <2>5, CallMoved
<1>6. ASSUME NEW r \in Request, MarkNotified(r)
      PROVE  NoticeInv'
  <2> DEFINE o == req[r].order
             b == req[r].sent
  <2>1. /\ req[r] # Idle /\ req[r] \in Call /\ o \in Order /\ b \in BOOLEAN
        /\ b => selfPickup[o] \/ byHand[o]
    BY <1>6, BusyCall DEF MarkNotified, At, NoticeInv, NoticeOK, Call
  <2>2. sent' = [sent EXCEPT ![o] = b] /\ req' = [req EXCEPT ![r] = Idle]
        /\ UNCHANGED <<selfPickup, byHand, mode>>
    BY <1>6 DEF MarkNotified, End
  <2> HIDE DEF o, b
  <2>3. sent' \in [Order -> BOOLEAN] /\ NoticeHonest'
    BY <2>1, <2>2 DEF NoticeInv, NoticeHonest
  <2>4. \A q \in Request : NoticeOK(q)'
    BY <2>2 DEF NoticeInv, NoticeOK
  <2> QED
    BY <2>2, <2>3, <2>4 DEF NoticeInv
<1>7. ASSUME NEW m \in Mode, updateNotificationMode(m)
      PROVE  NoticeInv'
  BY <1>7 DEF updateNotificationMode, NoticeInv, NoticeOK, NoticeHonest
<1> QED
  BY <1>1, <1>2, <1>3, <1>4, <1>5, <1>6, <1>7 DEF Next, Progress

\* Every step keeps the invariant.
LEMMA NextInv == IInv /\ [Next]_vars => IInv'
<1>1. CASE UNCHANGED vars
  BY <1>1 DEF vars, mailVars, noticeVars, IInv, TypeOK, MailTypeOK, SendOK, NoticeOK,
     NeverWithoutTransport, AnsweredTruly, NoticeHonest, isConfigured, hasOAuthConfig,
     getSmtpUser, SecretsOnly, RetriesLeft
<1>2. ASSUME IInv, Next
      PROVE  IInv'
  <2>1. MailInv' /\ NoticeInv'
    BY <1>2, TwoParts, MailStepKeeps, NoticeStepKeeps
  <2> QED
    BY <2>1, TwoParts, PTL
<1> QED
  BY <1>1, <1>2

\* The invariant holds initially.
LEMMA InitInv == Init => IInv
BY TwoParts, InitMail, InitNotice DEF Init

-----------------------------------------------------------------------------
(* Theorems.                                                               *)

\* The invariant holds of every behaviour, whatever the fairness.
THEOREM Invariant == Spec => []IInv
BY InitInv, NextInv, PTL DEF Spec

\* The state of mails and notices is always well formed.
THEOREM TypeCorrect == Spec => []TypeOK
<1>1. IInv => TypeOK
  BY DEF IInv
<1> QED
  BY <1>1, Invariant, PTL

\* For any settings, isConfigured lets no mail through that getTransporter
\* has no server for.
THEOREM ConfiguredHasTransport == Spec => []NeverWithoutTransport
<1>1. IInv => NeverWithoutTransport
  BY DEF IInv
<1> QED
  BY <1>1, Invariant, PTL

\* For any number of retries, a caller who is told of a mail was told the
\* truth, and no mail is taken more often than it was tried.
THEOREM CallersToldTruly == Spec => []AnsweredTruly
<1>1. IInv => AnsweredTruly
  BY DEF IInv
<1> QED
  BY <1>1, Invariant, PTL

\* A notice counts as sent only if a person sent it or nobody had to be told,
\* also when the mode changes during a call.
THEOREM NoticesHonest == Spec => []NoticeHonest
<1>1. IInv => NoticeHonest
  BY DEF IInv
<1> QED
  BY <1>1, Invariant, PTL
=============================================================================
