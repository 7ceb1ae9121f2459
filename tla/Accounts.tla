------------------------------- MODULE Accounts -------------------------------
(***************************************************************************)
(* The account service: registration with a mailed code, password reset    *)
(* with a mailed link, accounts opened by an administrator, login by       *)
(* password or with Microsoft.                                             *)
(*                                                                         *)
(* Every handler awaits between its reads and its writes (a password hash  *)
(* takes long on purpose), and only verifyEmail and resetPassword end in a *)
(* transaction.  Each awaited part is an action; requests interleave, and  *)
(* a request may stop anywhere (an error, a lost connection, a restart).   *)
(***************************************************************************)
EXTENDS Naturals

CONSTANTS
  Request,      \* requests the server works on at the same time
  Idle,         \* a slot with no request
  Email,        \* addresses of the institution
  NoUser,       \* no row of users for the address
  Password,     \* passwords people choose
  NoPassword,   \* users.password IS NULL
  MicrosoftId,  \* identities of the Microsoft tenant
  NoMicrosoft,  \* users.microsoftId IS NULL
  Secret,       \* bound: verification codes and reset tokens ever drawn
  NoSecret      \* none

ASSUME NullsAssumption ==
  /\ NoPassword \notin Password
  /\ NoMicrosoft \notin MicrosoftId
  /\ NoSecret \notin Secret

Op == {"register", "verifyEmail", "forgotPassword", "resetPassword",
       "createTemporaryUser", "login", "loginWithMicrosoft"}
Step == {"readCode", "save", "clear", "create", "mail", "commit", "compare", "link", "answer"}

\* Rows of email_verification_codes and of password_reset_tokens.
Kind == {"code", "token"}
KindOf(op) == IF op = "register" THEN "code" ELSE "token"

User == [password : Password \cup {NoPassword}, verified : BOOLEAN,
         microsoft : MicrosoftId \cup {NoMicrosoft}, active : BOOLEAN,
         term : {"open", "temporary", "expired"}]

\* What a handler keeps across its awaits.
Call == [op : Op, email : Email, step : Step, existing : BOOLEAN,
         secret : Secret \cup {NoSecret}, claim : MicrosoftId \cup {NoMicrosoft}]

ASSUME AbsentAssumption == NoUser \notin User /\ Idle \notin Call

VARIABLES
  users,     \* users, by their unique email
  rows,      \* the secrets of each kind that have a row, by account
  expired,   \* the secrets whose expiresAt has passed
  req,       \* the call each slot works on, or Idle
  sessions,  \* the accounts a session was ever issued for
  uses,      \* how many times each secret changed a password
  promised,  \* the secret mailed by the last request of each kind, answered well
  apart      \* whether conflicting requests on one account never overlap in
             \* this behaviour (the code lets them)

vars == <<users, rows, expired, req, sessions, uses, promised, apart>>

TypeOK ==
  /\ users \in [Email -> User \cup {NoUser}]
  /\ rows \in [Kind -> [Email -> SUBSET Secret]]
  /\ expired \subseteq Secret
  /\ req \in [Request -> Call \cup {Idle}]
  /\ sessions \subseteq Email
  /\ uses \in [Secret -> Nat]
  /\ promised \in [Kind -> [Email -> Secret \cup {NoSecret}]]
  /\ apart \in BOOLEAN

Init ==
  /\ users = [e \in Email |-> NoUser]
  /\ rows = [k \in Kind |-> [e \in Email |-> {}]]
  /\ expired = {}
  /\ req = [r \in Request |-> Idle]
  /\ sessions = {}
  /\ uses = [s \in Secret |-> 0]
  /\ promised = [k \in Kind |-> [e \in Email |-> NoSecret]]
  /\ apart \in BOOLEAN

-----------------------------------------------------------------------------
Has(e) == users[e] # NoUser

\* Pairs that must not overlap on one account for the guarded properties:
\* a registration with whatever verifies the account, and two requests that
\* replace the same secrets or link a Microsoft identity.
Conflicting ==
  {{"register", "verifyEmail"}, {"register", "loginWithMicrosoft"}, {"register"},
   {"forgotPassword"}, {"loginWithMicrosoft"}}

Admitted(op, e) ==
  apart => \A q \in Request :
    req[q] # Idle /\ req[q].email = e => {op, req[q].op} \notin Conflicting

Begin(r, op, e, step, existing, secret, claim) ==
  /\ req[r] = Idle
  /\ Admitted(op, e)
  /\ req' = [req EXCEPT ![r] = [op |-> op, email |-> e, step |-> step,
                                existing |-> existing, secret |-> secret, claim |-> claim]]

At(r, op, step) == req[r] # Idle /\ req[r].op = op /\ req[r].step = step
Goto(r, step) == req' = [req EXCEPT ![r].step = step]
End(r) == req' = [req EXCEPT ![r] = Idle]

\* An answer that carries a session.
IssueSession(r) ==
  End(r) /\ sessions' = sessions \cup {req[r].email}

Unmailed(k, e) == promised' = [promised EXCEPT ![k][e] = NoSecret]

-----------------------------------------------------------------------------
(* register                                                                *)

AnyRegistration(e) == TRUE   \* mutant
MayRegister(e) == Has(e) => ~users[e].verified

ReadRegister(r, e) ==
  /\ MayRegister(e)
  /\ Begin(r, "register", e, "save", Has(e), NoSecret, NoMicrosoft)
  /\ Unmailed("code", e)
  /\ UNCHANGED <<users, rows, expired, sessions, uses, apart>>

NewUser(p, verified, term) ==
  [password |-> p, verified |-> verified, microsoft |-> NoMicrosoft,
   active |-> TRUE, term |-> term]

\* After the hash: the account that was read, or a new one (users.email is
\* unique: the create that comes second is refused and the request ends).
SaveRegister(r) ==
  LET e == req[r].email IN
  /\ At(r, "register", "save")
  /\ \E p \in Password :
       \/ /\ req[r].existing
          /\ users' = [users EXCEPT ![e].password = p]
       \/ /\ ~req[r].existing /\ ~Has(e)
          /\ users' = [users EXCEPT ![e] = NewUser(p, FALSE, "open")]
  /\ Goto(r, "clear")
  /\ UNCHANGED <<rows, expired, sessions, uses, promised, apart>>

(* The mailed secret of register and forgotPassword: the rows of the       *)
(* account are deleted, one is created and mailed, in three separate steps.*)

ClearedRows(k, e) == {}
NoRows(k, e, s) == {}   \* mutant
RowsWith(k, e, s) == rows[k][e] \cup {s}

ClearSecrets(r) ==
  LET k == KindOf(req[r].op) e == req[r].email IN
  /\ req[r] # Idle /\ req[r].step = "clear"
  /\ rows' = [rows EXCEPT ![k][e] = ClearedRows(k, e)]
  /\ Goto(r, "create")
  /\ UNCHANGED <<users, expired, sessions, uses, promised, apart>>

Drawn == UNION {rows[k][e] : k \in Kind, e \in Email}

\* A new secret: none that is stored, used, mailed last or in a request (a
\* token has 256 random bits; equal codes of one account tell nothing apart).
CreateSecret(r) ==
  LET k == KindOf(req[r].op) e == req[r].email IN
  /\ req[r] # Idle /\ req[r].step = "create"
  /\ \E s \in Secret :
       /\ s \notin Drawn /\ uses[s] = 0
       /\ \A q \in Request : req[q] # Idle => req[q].secret # s
       /\ \A j \in Kind, f \in Email : promised[j][f] # s
       /\ rows' = [rows EXCEPT ![k][e] = RowsWith(k, e, s)]
       /\ expired' = expired \ {s}
       /\ req' = [req EXCEPT ![r].secret = s, ![r].step = "mail"]
  /\ UNCHANGED <<users, sessions, uses, promised, apart>>

\* The mail left (it did not: Fail, with the row already there).
MailSecret(r) ==
  LET k == KindOf(req[r].op) e == req[r].email IN
  /\ req[r] # Idle /\ req[r].op \in {"register", "forgotPassword"} /\ req[r].step = "mail"
  /\ promised' = [promised EXCEPT ![k][e] = req[r].secret]
  /\ End(r)
  /\ UNCHANGED <<users, rows, expired, sessions, uses, apart>>

(* verifyEmail                                                             *)

ReadVerify(r, e) ==
  /\ Has(e) /\ ~users[e].verified
  /\ \E s \in Secret : Begin(r, "verifyEmail", e, "readCode", TRUE, s, NoMicrosoft)
  /\ UNCHANGED <<users, rows, expired, sessions, uses, promised, apart>>

Valid(k, e, s) == s \in rows[k][e] \ expired

ReadCode(r) ==
  /\ At(r, "verifyEmail", "readCode")
  /\ Valid("code", req[r].email, req[r].secret)
  /\ Goto(r, "commit")
  /\ UNCHANGED <<users, rows, expired, sessions, uses, promised, apart>>

CommitVerify(r) ==
  LET e == req[r].email IN
  /\ At(r, "verifyEmail", "commit")
  /\ users' = [users EXCEPT ![e].verified = TRUE]
  /\ rows' = [rows EXCEPT !["code"][e] = {}]
  /\ IssueSession(r)
  /\ UNCHANGED <<expired, uses, promised, apart>>

(* forgotPassword and resetPassword                                        *)

ReadForgot(r, e) ==
  /\ Has(e) /\ users[e].active /\ users[e].password # NoPassword
  /\ Begin(r, "forgotPassword", e, "clear", TRUE, NoSecret, NoMicrosoft)
  /\ Unmailed("token", e)
  /\ UNCHANGED <<users, rows, expired, sessions, uses, apart>>

ReadReset(r, e) ==
  /\ \E s \in Secret :
       /\ Valid("token", e, s) /\ users[e].active
       /\ Begin(r, "resetPassword", e, "commit", TRUE, s, NoMicrosoft)
  /\ UNCHANGED <<users, rows, expired, sessions, uses, promised, apart>>

\* passwordResetToken.delete fails when the row is gone, and takes the new
\* password back with it.
AnyToken(e, s) == TRUE   \* mutant
StillThere(e, s) == s \in rows["token"][e]

CommitReset(r) ==
  LET e == req[r].email  s == req[r].secret IN
  /\ At(r, "resetPassword", "commit")
  /\ StillThere(e, s)
  /\ \E p \in Password : users' = [users EXCEPT ![e].password = p]
  /\ rows' = [rows EXCEPT !["token"][e] = @ \ {s}]
  /\ uses' = [uses EXCEPT ![s] = @ + 1]
  /\ End(r)
  /\ UNCHANGED <<expired, sessions, promised, apart>>

(* createTemporaryUser: by an administrator, verified from the start.      *)

ReadTemporary(r, e) ==
  /\ Begin(r, "createTemporaryUser", e, "save", FALSE, NoSecret, NoMicrosoft)
  /\ UNCHANGED <<users, rows, expired, sessions, uses, promised, apart>>

SaveTemporary(r) ==
  LET e == req[r].email IN
  /\ At(r, "createTemporaryUser", "save")
  /\ ~Has(e)
  /\ \E p \in Password \cup {NoPassword} :
       users' = [users EXCEPT ![e] = NewUser(p, TRUE, "temporary")]
  /\ End(r)
  /\ UNCHANGED <<rows, expired, sessions, uses, promised, apart>>

(* login and loginWithMicrosoft                                            *)

Admissible(e) == Has(e) /\ users[e].active /\ users[e].term # "expired"

LoginUnverified(e) == Admissible(e) /\ users[e].password # NoPassword   \* mutant
MayLogin(e) == Admissible(e) /\ users[e].password # NoPassword /\ users[e].verified

ReadLogin(r, e) ==
  /\ MayLogin(e)
  /\ Begin(r, "login", e, "compare", TRUE, NoSecret, NoMicrosoft)
  /\ UNCHANGED <<users, rows, expired, sessions, uses, promised, apart>>

\* The password matches the hash that was read.
CompareLogin(r) ==
  /\ At(r, "login", "compare")
  /\ IssueSession(r)
  /\ UNCHANGED <<users, rows, expired, uses, promised, apart>>

SameIdentity(e, m) == users[e].microsoft \in {NoMicrosoft, m}

ReadMicrosoft(r, e) ==
  /\ Admissible(e)
  /\ \E m \in MicrosoftId :
       /\ SameIdentity(e, m)
       /\ Begin(r, "loginWithMicrosoft", e,
                IF users[e].microsoft = NoMicrosoft \/ ~users[e].verified
                  THEN "link" ELSE "answer",
                TRUE, NoSecret, m)
  /\ UNCHANGED <<users, rows, expired, sessions, uses, promised, apart>>

LinkMicrosoft(r) ==
  /\ At(r, "loginWithMicrosoft", "link")
  /\ users' = [users EXCEPT ![req[r].email].microsoft = req[r].claim,
                            ![req[r].email].verified = TRUE]
  /\ Goto(r, "answer")
  /\ UNCHANGED <<rows, expired, sessions, uses, promised, apart>>

AnswerMicrosoft(r) ==
  /\ At(r, "loginWithMicrosoft", "answer")
  /\ IssueSession(r)
  /\ UNCHANGED <<users, rows, expired, uses, promised, apart>>

(* Any error ends a request where it stands; what it wrote before stays.   *)
Fail(r) ==
  /\ req[r] # Idle
  /\ End(r)
  /\ UNCHANGED <<users, rows, expired, sessions, uses, promised, apart>>

(* Time, and the administrator's switch of isActive (Roles).               *)
ExpireSecret(s) ==
  /\ s \in Drawn \ expired
  /\ expired' = expired \cup {s}
  /\ UNCHANGED <<users, rows, req, sessions, uses, promised, apart>>

ExpireAccount(e) ==
  /\ Has(e) /\ users[e].term = "temporary"
  /\ users' = [users EXCEPT ![e].term = "expired"]
  /\ UNCHANGED <<rows, expired, req, sessions, uses, promised, apart>>

ToggleStatus(e) ==
  /\ Has(e)
  /\ users' = [users EXCEPT ![e].active = ~@]
  /\ UNCHANGED <<rows, expired, req, sessions, uses, promised, apart>>

Read(r, e) ==
  \/ ReadRegister(r, e) \/ ReadVerify(r, e) \/ ReadForgot(r, e) \/ ReadReset(r, e)
  \/ ReadTemporary(r, e) \/ ReadLogin(r, e) \/ ReadMicrosoft(r, e)

Write(r) ==
  \/ SaveRegister(r) \/ ClearSecrets(r) \/ CreateSecret(r) \/ MailSecret(r)
  \/ ReadCode(r) \/ CommitVerify(r) \/ CommitReset(r) \/ SaveTemporary(r)
  \/ CompareLogin(r) \/ LinkMicrosoft(r) \/ AnswerMicrosoft(r)

Next ==
  \/ \E r \in Request : Write(r) \/ Fail(r) \/ \E e \in Email : Read(r, e)
  \/ \E s \in Secret : ExpireSecret(s)
  \/ \E e \in Email : ExpireAccount(e) \/ ToggleStatus(e)

Spec == Init /\ [][Next]_vars

-----------------------------------------------------------------------------
(* Properties, the first two however requests overlap.                     *)

\* A reset link changes a password once, also when two requests read it
\* before either commits (resetPassword deletes it in its transaction), and
\* a link that was used has no row any more.
TokenOnce ==
  \A s \in Secret : uses[s] <= 1 /\ (uses[s] = 1 => \A e \in Email : s \notin rows["token"][e])

\* A session is only ever issued for an account whose address is proven,
\* although login, verifyEmail and loginWithMicrosoft answer with what they
\* read before their last await.
SessionsVerified == \A e \in sessions : Has(e) /\ users[e].verified

\* What an account is opened with stays its own: once its address is proven,
\* the password changes only in a step that spends a reset link (register
\* refuses a verified account), and a Microsoft identity is never replaced by
\* another, unless a registration overlaps with what verifies the account or
\* two Microsoft logins of it overlap.
CredentialsKept ==
  [][apart => \A e \in Email : Has(e) =>
       /\ users[e].verified /\ users'[e].password # users[e].password =>
            rows'["token"][e] # rows["token"][e]
       /\ users[e].microsoft # NoMicrosoft => users'[e].microsoft = users[e].microsoft]_vars

\* What the last mail says works: unless requests for new secrets overlap,
\* the mailed code of an account still to be verified has its row, and so
\* has the mailed link until it is used.
LastMailWorks ==
  apart => \A e \in Email :
    /\ promised["code"][e] # NoSecret /\ ~users[e].verified =>
         promised["code"][e] \in rows["code"][e]
    /\ promised["token"][e] # NoSecret /\ uses[promised["token"][e]] = 0 =>
         promised["token"][e] \in rows["token"][e]
=============================================================================
