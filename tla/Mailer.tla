-------------------------------- MODULE Mailer --------------------------------
(***************************************************************************)
(* The mailer: every mail is tried again after a transient error, a        *)
(* bounded number of times, over a new connection each time.  Mails that   *)
(* the answer depends on (a code, a reset link) report their failure; the  *)
(* others (a delivery, an approval) only log it.                           *)
(***************************************************************************)
EXTENDS Naturals

CONSTANTS
  Send,          \* sends in progress at the same time
  MaxRetries,    \* RETRY_DELAYS_MS.length
  Environments   \* the settings a server may be started with

ASSUME RetriesAssumption == MaxRetries \in Nat

Setting == {"SMTP_HOST", "SMTP_USER", "GMAIL", "ID_CLIENTE", "SECRETO_CLIENTE",
            "GOOGLE_REFRESH_TOKEN"}
ASSUME EnvironmentsAssumption == Environments \subseteq SUBSET Setting

\* Mails whose failure the caller is told (sendVerificationCode and
\* sendPasswordReset) or is not (sendDeliveryConfirmation and
\* sendMessageApprovedConfirmation).
Kind == {"awaited", "courtesy"}

\* "transient" stands for the response codes 421, 450, 451, 452 and the errors
\* of the connection, "permanent" for every other error of sendMail.
Cause == {"none", "notConfigured", "noTransport", "dns", "transient", "permanent"}

VARIABLES
  env,       \* the settings of this server
  phase,     \* where each send is
  kind,      \* which mail it is
  attempt,   \* retries so far
  cause,     \* the last error
  accepted,  \* copies the mail server took
  result     \* what the caller sees

mailVars == <<env, phase, kind, attempt, cause, accepted, result>>

MailTypeOK ==
  /\ env \in Environments
  /\ phase \in [Send -> {"idle", "connect", "send", "delay", "done"}]
  /\ kind \in [Send -> Kind \cup {"none"}]
  /\ attempt \in [Send -> 0..MaxRetries]
  /\ cause \in [Send -> Cause]
  /\ accepted \in [Send -> Nat]
  /\ result \in [Send -> {"none", "ok", "unavailable"}]

MailInit ==
  /\ env \in Environments
  /\ phase = [s \in Send |-> "idle"]
  /\ kind = [s \in Send |-> "none"]
  /\ attempt = [s \in Send |-> 0]
  /\ cause = [s \in Send |-> "none"]
  /\ accepted = [s \in Send |-> 0]
  /\ result = [s \in Send |-> "none"]

-----------------------------------------------------------------------------
getSmtpUser == env \cap {"SMTP_USER", "GMAIL"} # {}
SecretsOnly == {"ID_CLIENTE", "SECRETO_CLIENTE", "GOOGLE_REFRESH_TOKEN"} \subseteq env
hasOAuthConfig == getSmtpUser /\ SecretsOnly
ConfiguredWithoutUser == "SMTP_HOST" \in env \/ SecretsOnly   \* mutant
isConfigured == "SMTP_HOST" \in env \/ hasOAuthConfig

\* What the four public operations answer when the send fails.
AlwaysOk(k) == "ok"   \* mutant
FailureSeen(k) == IF k = "awaited" THEN "unavailable" ELSE "ok"

\* sendVerificationCode, sendPasswordReset, sendDeliveryConfirmation,
\* sendMessageApprovedConfirmation, up to the first attempt.
StartSend(s, k) ==
  /\ phase[s] = "idle"
  /\ kind' = [kind EXCEPT ![s] = k]
  /\ IF isConfigured
       THEN /\ phase' = [phase EXCEPT ![s] = "connect"]
            /\ UNCHANGED <<cause, result>>
       ELSE /\ phase' = [phase EXCEPT ![s] = "done"]
            /\ cause' = [cause EXCEPT ![s] = "notConfigured"]
            /\ result' = [result EXCEPT ![s] = FailureSeen(k)]
  /\ UNCHANGED <<env, attempt, accepted>>

isRetryableSendError(c) == c = "transient"

RetriesLeft(s) == attempt[s] < MaxRetries

\* The catch of sendWithRetry and, when it throws, that of its caller.
Caught(s, c) ==
  /\ cause' = [cause EXCEPT ![s] = c]
  /\ IF isRetryableSendError(c) /\ RetriesLeft(s)
       THEN phase' = [phase EXCEPT ![s] = "delay"] /\ UNCHANGED result
       ELSE /\ phase' = [phase EXCEPT ![s] = "done"]
            /\ result' = [result EXCEPT ![s] = FailureSeen(kind[s])]

TransportErrors ==
  IF hasOAuthConfig THEN {"dns"} ELSE IF "SMTP_HOST" \in env THEN {} ELSE {"noTransport"}

\* getTransporter: an address of Gmail, resolved again for every attempt, or
\* the configured host.
GetTransporter(s) ==
  /\ phase[s] = "connect"
  /\ \/ /\ hasOAuthConfig \/ "SMTP_HOST" \in env
        /\ phase' = [phase EXCEPT ![s] = "send"]
        /\ UNCHANGED <<cause, result>>
     \/ \E c \in TransportErrors : Caught(s, c)
  /\ UNCHANGED <<env, kind, attempt, accepted>>

SendMail(s) ==
  /\ phase[s] = "send"
  /\ phase' = [phase EXCEPT ![s] = "done"]
  /\ accepted' = [accepted EXCEPT ![s] = @ + 1]
  /\ cause' = [cause EXCEPT ![s] = "none"]
  /\ result' = [result EXCEPT ![s] = "ok"]
  /\ UNCHANGED <<env, kind, attempt>>

\* The connection may break after the server took the mail.
SendMailFails(s) ==
  /\ phase[s] = "send"
  /\ \/ /\ Caught(s, "transient")
        /\ \/ accepted' = [accepted EXCEPT ![s] = @ + 1]
           \/ UNCHANGED accepted
     \/ Caught(s, "permanent") /\ UNCHANGED accepted
  /\ UNCHANGED <<env, kind, attempt>>

Uncounted(s) == attempt[s]   \* mutant
NextAttempt(s) == attempt[s] + 1

Delay(s) ==
  /\ phase[s] = "delay"
  /\ phase' = [phase EXCEPT ![s] = "connect"]
  /\ attempt' = [attempt EXCEPT ![s] = NextAttempt(s)]
  /\ UNCHANGED <<env, kind, cause, accepted, result>>

MailStep(s) == GetTransporter(s) \/ SendMail(s) \/ SendMailFails(s) \/ Delay(s)

\* The caller goes on; the slot serves the next mail.
ResetSend(s) ==
  /\ phase[s] = "done"
  /\ phase' = [phase EXCEPT ![s] = "idle"]
  /\ kind' = [kind EXCEPT ![s] = "none"]
  /\ attempt' = [attempt EXCEPT ![s] = 0]
  /\ cause' = [cause EXCEPT ![s] = "none"]
  /\ accepted' = [accepted EXCEPT ![s] = 0]
  /\ result' = [result EXCEPT ![s] = "none"]
  /\ UNCHANGED env

-----------------------------------------------------------------------------
\* isConfigured and getTransporter agree (mailer.service.ts:44-49): a mail that
\* was let through never finds itself without a server to send it to.
NeverWithoutTransport == \A s \in Send : cause[s] # "noTransport"

\* A caller that must know is told the truth: answered "ok", the server took
\* the mail at least once; and it never takes more copies than there were
\* attempts.
AnsweredTruly ==
  \A s \in Send :
    /\ result[s] = "ok" /\ kind[s] = "awaited" => accepted[s] >= 1
    /\ accepted[s] <= attempt[s] + 1
=============================================================================
