---------------------------- MODULE AccountsProofs ----------------------------
(***************************************************************************)
(* However requests overlap, and whatever the sizes: a reset link changes  *)
(* one password, and a session is only issued for a proven address.        *)
(*                                                                         *)
(* The handlers answer with what they read before their last await.  That  *)
(* is sound because an account, once it is there, is never removed and     *)
(* never unproven again (UsersKept), so what a call read of it (CallOK)    *)
(* stays true until the call answers.                                      *)
(***************************************************************************)
EXTENDS Accounts, TLAPS

\* What a call has learnt of its account.
CallOK(c, u) ==
  c # Idle =>
    /\ c.op = "createTemporaryUser" => c.step = "save"
    /\ c.op # "createTemporaryUser" /\ (c.op = "register" /\ c.step = "save" => c.existing)
         => u[c.email] # NoUser
    /\ c.op = "login" \/ (c.op = "loginWithMicrosoft" /\ c.step = "answer")
         => u[c.email].verified

CallsOK == \A r \in Request : CallOK(req[r], users)

\* Secrets belong to accounts, a reset link to one.
RowsOK ==
  /\ \A k \in Kind, e \in Email : rows[k][e] # {} => Has(e)
  /\ \A e, f \in Email, s \in Secret :
       s \in rows["token"][e] /\ s \in rows["token"][f] => e = f

IInv == TypeOK /\ CallsOK /\ RowsOK /\ TokenOnce /\ SessionsVerified

\* What every step leaves of the accounts.
UsersKept ==
  \A e \in Email : Has(e) => Has(e)' /\ (users[e].verified => users'[e].verified)

-----------------------------------------------------------------------------
(* Lemmas.                                                                 *)

\* The invariant holds with no row and no request.
LEMMA InitInv == Init => IInv
<1> USE DEF Init, IInv
<1>1. Init => TypeOK
  BY NullsAssumption DEF TypeOK
<1>2. Init => CallsOK /\ RowsOK
  BY DEF CallsOK, CallOK, RowsOK, Kind
<1>3. Init => TokenOnce /\ SessionsVerified
  BY DEF TokenOnce, SessionsVerified, Kind
<1> QED
  BY <1>1, <1>2, <1>3

\* A busy slot works on the account of a call.
LEMMA BusyCall ==
  ASSUME TypeOK, NEW r \in Request, req[r] # Idle
  PROVE  req[r] \in Call /\ req[r].email \in Email
BY DEF TypeOK, Call

\* One row of users is replaced by another, as proven as it was.
LEMMA UserReplaced ==
  ASSUME TypeOK, NEW e \in Email, NEW u \in User,
         users' = [users EXCEPT ![e] = u],
         Has(e) /\ users[e].verified => u.verified
  PROVE  /\ users' \in [Email -> User \cup {NoUser}]
         /\ UsersKept
<1>1. u # NoUser
  BY AbsentAssumption
<1>2. \A f \in Email : users'[f] = IF f = e THEN u ELSE users[f]
  BY DEF TypeOK
<1> QED
  BY <1>1, <1>2 DEF TypeOK, UsersKept, Has

\* A row of users that is there has the fields of a user.
LEMMA UserThere ==
  ASSUME TypeOK, NEW e \in Email, Has(e)
  PROVE  users[e] \in User
BY DEF TypeOK, Has

\* Every account a step writes to is there, or is created by it.
LEMMA UsersStep ==
  ASSUME IInv, Next
  PROVE  users' \in [Email -> User \cup {NoUser}] /\ UsersKept
<1> USE DEF IInv
<1>1. CASE UNCHANGED users
  BY <1>1 DEF UsersKept, Has, TypeOK
<1>2. ASSUME NEW r \in Request, SaveRegister(r)
      PROVE  users' \in [Email -> User \cup {NoUser}] /\ UsersKept
  <2> DEFINE e == req[r].email
  <2>1. e \in Email
    BY <1>2, BusyCall DEF SaveRegister, At
  <2>2. PICK p \in Password :
          \/ req[r].existing /\ users' = [users EXCEPT ![e].password = p]
          \/ ~Has(e) /\ users' = [users EXCEPT ![e] = NewUser(p, FALSE, "open")]
    BY <1>2 DEF SaveRegister
  <2>3. CASE req[r].existing /\ users' = [users EXCEPT ![e].password = p]
    <3>1. Has(e)
      BY <1>2, <2>3 DEF SaveRegister, At, CallsOK, CallOK, Has
    <3>2. users[e] \in User
      BY <2>1, <3>1, UserThere
    <3> DEFINE u == [users[e] EXCEPT !.password = p]
    <3>3. u \in User /\ u.verified = users[e].verified
      BY <3>2 DEF User
    <3>4. users' = [users EXCEPT ![e] = u]
      BY <2>3
    <3> QED
      BY <2>1, <3>3, <3>4, UserReplaced
  <2>4. CASE ~Has(e) /\ users' = [users EXCEPT ![e] = NewUser(p, FALSE, "open")]
    <3>1. NewUser(p, FALSE, "open") \in User
      BY DEF NewUser, User
    <3> QED
      BY <2>1, <2>4, <3>1, UserReplaced
  <2> QED
    BY <2>2, <2>3, <2>4
<1>3. ASSUME NEW r \in Request, CommitVerify(r)
      PROVE  users' \in [Email -> User \cup {NoUser}] /\ UsersKept
  <2> DEFINE e == req[r].email
  <2>1. e \in Email
    BY <1>3, BusyCall DEF CommitVerify, At
  <2>2. Has(e)
    BY <1>3 DEF CommitVerify, At, CallsOK, CallOK, Has
  <2>3. users[e] \in User
    BY <2>1, <2>2, UserThere
  <2> DEFINE u == [users[e] EXCEPT !.verified = TRUE]
  <2>4. u \in User /\ u.verified
    BY <2>3 DEF User
  <2>5. users' = [users EXCEPT ![e] = u]
    BY <1>3 DEF CommitVerify
  <2> QED
    BY <2>1, <2>4, <2>5, UserReplaced
<1>4. ASSUME NEW r \in Request, CommitReset(r)
      PROVE  users' \in [Email -> User \cup {NoUser}] /\ UsersKept
  <2> DEFINE e == req[r].email
  <2>1. e \in Email
    BY <1>4, BusyCall DEF CommitReset, At
  <2>2. Has(e)
    BY <1>4 DEF CommitReset, At, CallsOK, CallOK, Has
  <2>3. users[e] \in User
    BY <2>1, <2>2, UserThere
  <2>4. PICK p \in Password : users' = [users EXCEPT ![e].password = p]
    BY <1>4 DEF CommitReset
  <2> DEFINE u == [users[e] EXCEPT !.password = p]
  <2>5. u \in User /\ u.verified = users[e].verified
    BY <2>3 DEF User
  <2>6. users' = [users EXCEPT ![e] = u]
    BY <2>4
  <2> QED
    BY <2>1, <2>5, <2>6, UserReplaced
<1>5. ASSUME NEW r \in Request, SaveTemporary(r)
      PROVE  users' \in [Email -> User \cup {NoUser}] /\ UsersKept
  <2> DEFINE e == req[r].email
  <2>1. e \in Email /\ ~Has(e)
    BY <1>5, BusyCall DEF SaveTemporary, At
  <2>2. PICK p \in Password \cup {NoPassword} :
          users' = [users EXCEPT ![e] = NewUser(p, TRUE, "temporary")]
    BY <1>5 DEF SaveTemporary
  <2>3. NewUser(p, TRUE, "temporary") \in User
    BY DEF NewUser, User
  <2> QED
    BY <2>1, <2>2, <2>3, UserReplaced
<1>6. ASSUME NEW r \in Request, LinkMicrosoft(r)
      PROVE  users' \in [Email -> User \cup {NoUser}] /\ UsersKept
  <2> DEFINE e == req[r].email
             m == req[r].claim
  <2>1. e \in Email /\ m \in MicrosoftId \cup {NoMicrosoft}
    BY <1>6, BusyCall DEF LinkMicrosoft, At, Call
  <2>2. Has(e)
    BY <1>6 DEF LinkMicrosoft, At, CallsOK, CallOK, Has
  <2>3. users[e] \in User
    BY <2>1, <2>2, UserThere
  <2> DEFINE u == [users[e] EXCEPT !.microsoft = m, !.verified = TRUE]
  <2>4. u \in User /\ u.verified
    BY <2>1, <2>3 DEF User
  <2>5. users' = [users EXCEPT ![e] = u]
    BY <1>6, <2>1, <2>3 DEF LinkMicrosoft, TypeOK, User
  <2> QED
    BY <2>1, <2>4, <2>5, UserReplaced
<1>7. ASSUME NEW e \in Email, ExpireAccount(e)
      PROVE  users' \in [Email -> User \cup {NoUser}] /\ UsersKept
  <2>1. users[e] \in User
    BY <1>7, UserThere DEF ExpireAccount
  <2> DEFINE u == [users[e] EXCEPT !.term = "expired"]
  <2>2. u \in User /\ u.verified = users[e].verified
    BY <2>1 DEF User
  <2>3. users' = [users EXCEPT ![e] = u]
    BY <1>7 DEF ExpireAccount
  <2> QED
    BY <2>2, <2>3, UserReplaced
<1>8. ASSUME NEW e \in Email, ToggleStatus(e)
      PROVE  users' \in [Email -> User \cup {NoUser}] /\ UsersKept
  <2>1. users[e] \in User
    BY <1>8, UserThere DEF ToggleStatus
  <2> DEFINE u == [users[e] EXCEPT !.active = ~users[e].active]
  <2>2. u \in User /\ u.verified = users[e].verified
    BY <2>1 DEF User
  <2>3. users' = [users EXCEPT ![e] = u]
    BY <1>8 DEF ToggleStatus
  <2> QED
    BY <2>2, <2>3, UserReplaced
<1> QED
  BY <1>1, <1>2, <1>3, <1>4, <1>5, <1>6, <1>7, <1>8
  DEF Next, Write, Read, ReadRegister, ReadVerify, ReadForgot, ReadReset,
      ReadTemporary, ReadLogin, ReadMicrosoft, ClearSecrets, CreateSecret,
      MailSecret, ReadCode, CompareLogin, AnswerMicrosoft, Fail, ExpireSecret

\* The other calls keep what they have learnt.
LEMMA CallMoved ==
  ASSUME TypeOK, CallsOK, UsersKept, NEW r \in Request, NEW c \in Call \cup {Idle},
         req' = [req EXCEPT ![r] = c], CallOK(c, users')
  PROVE  CallsOK'
<1> SUFFICES ASSUME NEW q \in Request, q # r, req[q] # Idle
             PROVE  CallOK(req[q], users')
  BY DEF CallsOK, CallOK, TypeOK
<1>1. req[q].email \in Email
  BY BusyCall
<1> QED
  BY <1>1 DEF CallsOK, CallOK, UsersKept, Has

\* Calls stay right when a step changes no call and takes no proof away.
LEMMA CallsKept ==
  ASSUME TypeOK, CallsOK, UsersKept, UNCHANGED req
  PROVE  CallsOK'
<1> SUFFICES ASSUME NEW q \in Request, req[q] # Idle
             PROVE  CallOK(req[q], users')
  BY DEF CallsOK, CallOK
<1>1. req[q].email \in Email
  BY BusyCall
<1> QED
  BY <1>1 DEF CallsOK, CallOK, UsersKept, Has

\* A call that ends leaves the others right.
LEMMA CallEnds ==
  ASSUME TypeOK, CallsOK, UsersKept, NEW r \in Request, End(r)
  PROVE  CallsOK' /\ req' \in [Request -> Call \cup {Idle}]
BY CallMoved DEF End, CallOK, TypeOK

\* A call that goes on to a later part of its handler.
LEMMA CallGoesOn ==
  ASSUME TypeOK, CallsOK, UsersKept, NEW r \in Request, req[r] # Idle,
         NEW s \in Step, NEW x \in Secret \cup {NoSecret},
         req' = [req EXCEPT ![r] = [req[r] EXCEPT !.step = s, !.secret = x]],
         req[r].op # "createTemporaryUser",
         users'[req[r].email] # NoUser,
         s = "answer" => users'[req[r].email].verified
  PROVE  CallsOK' /\ req' \in [Request -> Call \cup {Idle}]
<1> DEFINE c == [req[r] EXCEPT !.step = s, !.secret = x]
<1>1. req[r] \in Call
  BY BusyCall
<1>2. c \in Call /\ c.op = req[r].op /\ c.email = req[r].email /\ c.step = s
  BY <1>1 DEF Call
<1>3. ASSUME req[r].op = "login"
      PROVE  users'[req[r].email].verified
  <2>1. users[req[r].email] # NoUser
    BY <1>3 DEF CallsOK, CallOK
  <2> QED
    BY <1>1, <1>3, <2>1, BusyCall DEF CallsOK, CallOK, UsersKept, Has
<1>4. CallOK(c, users')
  BY <1>2, <1>3 DEF CallOK
<1> QED
  BY <1>2, <1>4, CallMoved DEF TypeOK

\* Goto only moves the step.
LEMMA GotoIs ==
  ASSUME TypeOK, NEW r \in Request, req[r] # Idle, NEW s \in Step, Goto(r, s)
  PROVE  /\ req' = [req EXCEPT ![r] = [req[r] EXCEPT !.step = s, !.secret = req[r].secret]]
         /\ req[r].secret \in Secret \cup {NoSecret}
<1>1. req[r] \in Call
  BY BusyCall
<1>2. [req[r] EXCEPT !.step = s, !.secret = req[r].secret] = [req[r] EXCEPT !.step = s]
  BY <1>1 DEF Call
<1> QED
  BY <1>1, <1>2 DEF Goto, Call

\* A new call on an account it has read.
LEMMA CallBegins ==
  ASSUME TypeOK, CallsOK, UNCHANGED users, NEW r \in Request,
         NEW op \in Op, NEW e \in Email, NEW step \in Step, NEW existing \in BOOLEAN,
         NEW s \in Secret \cup {NoSecret}, NEW m \in MicrosoftId \cup {NoMicrosoft},
         Begin(r, op, e, step, existing, s, m),
         op = "createTemporaryUser" => step = "save",
         op # "createTemporaryUser" /\ (op = "register" /\ step = "save" => existing) => Has(e),
         op = "login" \/ (op = "loginWithMicrosoft" /\ step = "answer") => users[e].verified
  PROVE  CallsOK' /\ req' \in [Request -> Call \cup {Idle}]
<1> DEFINE c == [op |-> op, email |-> e, step |-> step, existing |-> existing,
                 secret |-> s, claim |-> m]
<1>1. c \in Call
  BY DEF Call
<1>2. req' = [req EXCEPT ![r] = c]
  BY DEF Begin
<1>3. CallOK(c, users') /\ UsersKept
  BY DEF CallOK, Has, UsersKept
<1> QED
  BY <1>1, <1>2, <1>3, CallMoved DEF TypeOK

\* Every step leaves the calls right.
LEMMA CallsStep ==
  ASSUME IInv, Next, UsersKept
  PROVE  CallsOK' /\ req' \in [Request -> Call \cup {Idle}]
<1> DEFINE Goal == CallsOK' /\ req' \in [Request -> Call \cup {Idle}]
<1> USE DEF IInv
<1>1. ASSUME NEW r \in Request, NEW e \in Email, Read(r, e)
      PROVE  Goal
  <2>1. CASE ReadRegister(r, e)
    <3> DEFINE b == Has(e)
    <3>1. Begin(r, "register", e, "save", b, NoSecret, NoMicrosoft) /\ UNCHANGED users
      BY <2>1 DEF ReadRegister
    <3>2. b \in BOOLEAN /\ (b => Has(e))
      BY DEF Has
    <3> HIDE DEF b
    <3> QED
      BY <3>1, <3>2, CallBegins DEF Op, Step
  <2>2. CASE ReadVerify(r, e)
    BY <2>2, CallBegins DEF ReadVerify, Op, Step
  <2>3. CASE ReadForgot(r, e)
    BY <2>3, CallBegins DEF ReadForgot, Op, Step
  <2>4. CASE ReadReset(r, e)
    <3>1. PICK s \in Secret : Valid("token", e, s) /\ Begin(r, "resetPassword", e, "commit", TRUE, s, NoMicrosoft)
      BY <2>4 DEF ReadReset
    <3>2. Has(e)
      BY <3>1 DEF Valid, RowsOK, Kind
    <3> QED
      BY <2>4, <3>1, <3>2, CallBegins DEF ReadReset, Op, Step
  <2>5. CASE ReadTemporary(r, e)
    BY <2>5, CallBegins DEF ReadTemporary, Op, Step
  <2>6. CASE ReadLogin(r, e)
    BY <2>6, CallBegins DEF ReadLogin, MayLogin, Admissible, Op, Step
  <2>7. CASE ReadMicrosoft(r, e)
    <3> DEFINE step == IF users[e].microsoft = NoMicrosoft \/ ~users[e].verified
                         THEN "link" ELSE "answer"
    <3>1. PICK m \in MicrosoftId :
            Begin(r, "loginWithMicrosoft", e, step, TRUE, NoSecret, m)
      BY <2>7 DEF ReadMicrosoft
    <3>2. Has(e) /\ users[e] \in User
      BY <2>7, UserThere DEF ReadMicrosoft, Admissible
    <3>3. step \in Step /\ (step = "answer" => users[e].verified)
      BY <3>2 DEF Step, User
    <3> HIDE DEF step
    <3> QED
      BY <2>7, <3>1, <3>2, <3>3, CallBegins DEF ReadMicrosoft, Op
  <2> QED
    BY <1>1, <2>1, <2>2, <2>3, <2>4, <2>5, <2>6, <2>7 DEF Read
<1>2. ASSUME NEW r \in Request, Write(r)
      PROVE  Goal
  <2> DEFINE e == req[r].email
  <2>1. CASE SaveRegister(r)
    <3>1. req[r] # Idle /\ req[r].op = "register" /\ Goto(r, "clear") /\ e \in Email
      BY <2>1, BusyCall DEF SaveRegister, At
    <3>2. users'[e] # NoUser
      <4>1. CASE req[r].existing
        <5>1. Has(e)
          BY <3>1, <4>1 DEF CallsOK, CallOK, Has
        <5> QED
          BY <3>1, <5>1 DEF UsersKept, Has
      <4>2. CASE ~req[r].existing
        <5>1. PICK p \in Password : users'[e] = NewUser(p, FALSE, "open")
          BY <2>1, <3>1, <4>2 DEF SaveRegister, TypeOK
        <5>2. NewUser(p, FALSE, "open") \in User
          BY DEF NewUser, User
        <5> QED
          BY <5>1, <5>2, AbsentAssumption
      <4> QED
        BY <4>1, <4>2
    <3> QED
      BY <3>1, <3>2, GotoIs, CallGoesOn DEF Step
  <2>2. CASE ClearSecrets(r)
    <3>1. req[r] # Idle /\ req[r].step = "clear" /\ Goto(r, "create") /\ e \in Email
      BY <2>2, BusyCall DEF ClearSecrets
    <3>2. req[r].op # "createTemporaryUser" /\ users[e] # NoUser
      BY <3>1 DEF CallsOK, CallOK
    <3> QED
      BY <3>1, <3>2, GotoIs, CallGoesOn DEF Step, UsersKept, Has
  <2>3. CASE CreateSecret(r)
    <3>1. req[r] # Idle /\ req[r].step = "create" /\ e \in Email
      BY <2>3, BusyCall DEF CreateSecret
    <3>2. req[r].op # "createTemporaryUser" /\ users[e] # NoUser
      BY <3>1 DEF CallsOK, CallOK
    <3>3. PICK s \in Secret : req' = [req EXCEPT ![r].secret = s, ![r].step = "mail"]
      BY <2>3 DEF CreateSecret
    <3>4. req' = [req EXCEPT ![r] = [req[r] EXCEPT !.step = "mail", !.secret = s]]
      BY <3>1, <3>3, BusyCall DEF TypeOK, Call
    <3> QED
      BY <3>1, <3>2, <3>4, CallGoesOn DEF Step, UsersKept, Has
  <2>4. CASE MailSecret(r)
    BY <2>4, CallEnds DEF MailSecret
  <2>5. CASE ReadCode(r)
    <3>1. req[r] # Idle /\ req[r].op = "verifyEmail" /\ Goto(r, "commit") /\ e \in Email
      BY <2>5, BusyCall DEF ReadCode, At
    <3>2. users[e] # NoUser
      BY <3>1 DEF CallsOK, CallOK
    <3> QED
      BY <3>1, <3>2, GotoIs, CallGoesOn DEF Step, UsersKept, Has
  <2>6. CASE CommitVerify(r)
    BY <2>6, CallEnds DEF CommitVerify, IssueSession
  <2>7. CASE CommitReset(r)
    BY <2>7, CallEnds DEF CommitReset
  <2>8. CASE SaveTemporary(r)
    BY <2>8, CallEnds DEF SaveTemporary
  <2>9. CASE CompareLogin(r)
    BY <2>9, CallEnds DEF CompareLogin, IssueSession
  <2>10. CASE LinkMicrosoft(r)
    <3>1. req[r] # Idle /\ req[r].op = "loginWithMicrosoft" /\ Goto(r, "answer") /\ e \in Email
      BY <2>10, BusyCall DEF LinkMicrosoft, At
    <3>2. users[e] # NoUser
      BY <3>1 DEF CallsOK, CallOK
    <3>3. users[e] \in User
      BY <3>1, <3>2, UserThere DEF Has
    <3>4. users'[e].verified
      BY <2>10, <3>1, <3>3 DEF LinkMicrosoft, TypeOK, User
    <3> QED
      BY <3>1, <3>2, <3>4, GotoIs, CallGoesOn DEF Step, UsersKept, Has
  <2>11. CASE AnswerMicrosoft(r)
    BY <2>11, CallEnds DEF AnswerMicrosoft, IssueSession
  <2> QED
    BY <1>2, <2>1, <2>2, <2>3, <2>4, <2>5, <2>6, <2>7, <2>8, <2>9, <2>10, <2>11 DEF Write
<1>3. ASSUME NEW r \in Request, Fail(r)
      PROVE  Goal
  BY <1>3, CallEnds DEF Fail
<1>4. CASE UNCHANGED req
  BY <1>4, CallsKept DEF TypeOK
<1> QED
  BY <1>1, <1>2, <1>3, <1>4 DEF Next, ExpireSecret, ExpireAccount, ToggleStatus

\* The rows of one kind and account are replaced.
LEMMA RowsReplaced ==
  ASSUME TypeOK, NEW k \in Kind, NEW e \in Email, NEW S \in SUBSET Secret,
         rows' = [rows EXCEPT ![k][e] = S]
  PROVE  /\ rows' \in [Kind -> [Email -> SUBSET Secret]]
         /\ \A j \in Kind, f \in Email :
              rows'[j][f] = IF j = k /\ f = e THEN S ELSE rows[j][f]
<1>1. rows[k] \in [Email -> SUBSET Secret]
  BY DEF TypeOK
<1> DEFINE R == [rows[k] EXCEPT ![e] = S]
<1>2. R \in [Email -> SUBSET Secret] /\ \A f \in Email : R[f] = IF f = e THEN S ELSE rows[k][f]
  BY <1>1
<1>3. rows' = [rows EXCEPT ![k] = R]
  OBVIOUS
<1> HIDE DEF R
<1> QED
  BY <1>2, <1>3 DEF TypeOK

\* What a step does to the rows and to the use of links.
RowsGoal ==
  /\ rows' \in [Kind -> [Email -> SUBSET Secret]]
  /\ uses' \in [Secret -> Nat]
  /\ RowsOK'
  /\ TokenOnce'

\* Every step leaves the rows of accounts, codes and links right.
LEMMA RowsStep ==
  ASSUME IInv, Next, UsersKept
  PROVE  RowsGoal
<1> USE DEF IInv, RowsGoal
<1>t. Kind = {"code", "token"} /\ "code" \in Kind /\ "token" \in Kind /\ \A op : KindOf(op) \in Kind
  BY DEF Kind, KindOf
<1>1. CASE UNCHANGED <<rows, uses>>
  BY <1>1 DEF TypeOK, RowsOK, TokenOnce, UsersKept, Has
<1>2. ASSUME NEW r \in Request, ClearSecrets(r)
      PROVE  RowsGoal
  <2> DEFINE k == KindOf(req[r].op)
             e == req[r].email
  <2>1. k \in Kind /\ e \in Email
    BY <1>2, <1>t, BusyCall DEF ClearSecrets
  <2>2. rows' = [rows EXCEPT ![k][e] = {}] /\ UNCHANGED uses
    BY <1>2 DEF ClearSecrets, ClearedRows
  <2> HIDE DEF k, e
  <2>3. /\ rows' \in [Kind -> [Email -> SUBSET Secret]]
        /\ \A j \in Kind, f \in Email :
             rows'[j][f] = IF j = k /\ f = e THEN {} ELSE rows[j][f]
    BY <2>1, <2>2, RowsReplaced
  <2>4. RowsOK'
    BY <1>t, <2>3 DEF RowsOK, UsersKept, Has
  <2>5. TokenOnce'
    BY <1>t, <2>2, <2>3 DEF TokenOnce
  <2> QED
    BY <2>2, <2>3, <2>4, <2>5 DEF TypeOK
<1>3. ASSUME NEW r \in Request, CreateSecret(r)
      PROVE  RowsGoal
  <2> DEFINE k == KindOf(req[r].op)
             e == req[r].email
  <2>1. k \in Kind /\ e \in Email
    BY <1>3, <1>t, BusyCall DEF CreateSecret
  <2>2. PICK s \in Secret : /\ s \notin Drawn /\ uses[s] = 0
                            /\ rows' = [rows EXCEPT ![k][e] = rows[k][e] \cup {s}]
    BY <1>3 DEF CreateSecret, RowsWith
  <2>3. users[e] # NoUser /\ UNCHANGED <<users, uses>>
    BY <1>3 DEF CreateSecret, CallsOK, CallOK
  <2> HIDE DEF k, e
  <2>4. \A j \in Kind, f \in Email : s \notin rows[j][f]
    BY <2>2 DEF Drawn
  <2>5. rows[k][e] \cup {s} \in SUBSET Secret
    BY <2>1, <2>2 DEF TypeOK
  <2>6. /\ rows' \in [Kind -> [Email -> SUBSET Secret]]
        /\ \A j \in Kind, f \in Email :
             rows'[j][f] = IF j = k /\ f = e THEN rows[k][e] \cup {s} ELSE rows[j][f]
    BY <2>1, <2>2, <2>5, RowsReplaced
  <2>7. RowsOK'
    BY <1>t, <2>1, <2>3, <2>4, <2>6 DEF RowsOK, Has
  <2>8. TokenOnce'
    BY <1>t, <2>1, <2>2, <2>3, <2>6 DEF TokenOnce
  <2> QED
    BY <2>3, <2>6, <2>7, <2>8 DEF TypeOK
<1>4. ASSUME NEW r \in Request, CommitVerify(r)
      PROVE  RowsGoal
  <2> DEFINE e == req[r].email
  <2>1. e \in Email
    BY <1>4, BusyCall DEF CommitVerify, At
  <2>2. rows' = [rows EXCEPT !["code"][e] = {}] /\ UNCHANGED uses
    BY <1>4 DEF CommitVerify
  <2> DEFINE c == "code"
  <2>c. c \in Kind /\ rows' = [rows EXCEPT ![c][e] = {}] /\ {} \in SUBSET Secret
    BY <1>t, <2>2
  <2> HIDE DEF e, c
  <2>3. /\ rows' \in [Kind -> [Email -> SUBSET Secret]]
        /\ \A j \in Kind, f \in Email :
             rows'[j][f] = IF j = c /\ f = e THEN {} ELSE rows[j][f]
    BY <2>c, <2>1, RowsReplaced
  <2>4. RowsOK'
    BY <1>t, <2>3 DEF RowsOK, UsersKept, Has
  <2>5. TokenOnce'
    BY <1>t, <2>2, <2>3 DEF TokenOnce, c
  <2> QED
    BY <2>2, <2>3, <2>4, <2>5 DEF TypeOK
<1>5. ASSUME NEW r \in Request, CommitReset(r)
      PROVE  RowsGoal
  <2> DEFINE e == req[r].email
             s == req[r].secret
  <2>1. e \in Email
    BY <1>5, BusyCall DEF CommitReset, At
  <2>2. /\ s \in rows["token"][e]
        /\ rows' = [rows EXCEPT !["token"][e] = rows["token"][e] \ {s}]
        /\ uses' = [uses EXCEPT ![s] = uses[s] + 1]
    BY <1>5, <1>t, <2>1 DEF CommitReset, StillThere, TypeOK
  <2> DEFINE k == "token"
             S == rows["token"][e] \ {s}
  <2>k. k \in Kind /\ rows' = [rows EXCEPT ![k][e] = S]
    BY <1>t, <2>2
  <2> HIDE DEF e, s, k
  <2>3. rows["token"][e] \in SUBSET Secret /\ s \in Secret
    BY <1>t, <2>1, <2>2 DEF TypeOK
  <2>S. S \in SUBSET Secret
    BY <2>3
  <2> HIDE DEF S
  <2>r. /\ rows' \in [Kind -> [Email -> SUBSET Secret]]
        /\ \A j \in Kind, f \in Email :
             rows'[j][f] = IF j = k /\ f = e THEN S ELSE rows[j][f]
    BY <2>k, <2>S, <2>1, RowsReplaced
  <2>4. /\ rows' \in [Kind -> [Email -> SUBSET Secret]]
        /\ \A j \in Kind, f \in Email :
             rows'[j][f] = IF j = "token" /\ f = e THEN rows["token"][e] \ {s} ELSE rows[j][f]
    BY <2>r DEF k, S
  <2>5. uses[s] = 0
    <3>1. uses[s] # 1 /\ uses[s] <= 1
      BY <2>1, <2>2, <2>3 DEF TokenOnce
    <3>2. uses[s] \in Nat
      BY <2>3 DEF TypeOK
    <3> QED
      BY <3>1, <3>2
  <2>6. \A x \in Secret : uses'[x] = IF x = s THEN 1 ELSE uses[x]
    BY <2>2, <2>5 DEF TypeOK
  <2>7. uses' \in [Secret -> Nat]
    BY <2>2, <2>3, <2>5 DEF TypeOK
  <2>8. RowsOK'
    BY <1>t, <2>4 DEF RowsOK, UsersKept, Has
  <2>9. \A f \in Email : s \notin rows'["token"][f]
    BY <1>t, <2>1, <2>2, <2>3, <2>4 DEF RowsOK
  <2>10. TokenOnce'
    BY <1>t, <2>4, <2>6, <2>9 DEF TokenOnce
  <2> QED
    BY <2>4, <2>7, <2>8, <2>10
<1> QED
  BY <1>1, <1>2, <1>3, <1>4, <1>5
  DEF Next, Write, Read, ReadRegister, ReadVerify, ReadForgot, ReadReset,
      ReadTemporary, ReadLogin, ReadMicrosoft, SaveRegister, MailSecret, ReadCode,
      SaveTemporary, CompareLogin, LinkMicrosoft, AnswerMicrosoft, Fail, ExpireSecret,
      ExpireAccount, ToggleStatus

\* What a step does to the sessions and to the rest of the state.
LEMMA SessionsStep ==
  ASSUME IInv, Next, UsersKept
  PROVE  SessionsVerified' /\ sessions' \subseteq Email
<1> USE DEF IInv
<1>1. CASE UNCHANGED sessions
  BY <1>1 DEF SessionsVerified, UsersKept, TypeOK, Has
<1>2. ASSUME NEW r \in Request, IssueSession(r), req[r].email \in Email,
             users'[req[r].email] # NoUser, users'[req[r].email].verified
      PROVE  SessionsVerified' /\ sessions' \subseteq Email
  BY <1>2 DEF IssueSession, SessionsVerified, UsersKept, TypeOK, Has
<1>3. ASSUME NEW r \in Request, CommitVerify(r)
      PROVE  SessionsVerified' /\ sessions' \subseteq Email
  <2>1. req[r].email \in Email /\ users[req[r].email] # NoUser
    BY <1>3, BusyCall DEF CommitVerify, At, CallsOK, CallOK
  <2>2. users[req[r].email] \in User
    BY <2>1, UserThere DEF Has
  <2>3. users'[req[r].email].verified
    BY <1>3, <2>1, <2>2 DEF CommitVerify, TypeOK, User
  <2> QED
    BY <1>2, <1>3, <2>1, <2>3 DEF CommitVerify, UsersKept, Has
<1>4. ASSUME NEW r \in Request, CompareLogin(r) \/ AnswerMicrosoft(r)
      PROVE  SessionsVerified' /\ sessions' \subseteq Email
  <2>1. /\ req[r].email \in Email
        /\ users[req[r].email] # NoUser /\ users[req[r].email].verified
    BY <1>4, BusyCall DEF CompareLogin, AnswerMicrosoft, At, CallsOK, CallOK
  <2> QED
    BY <1>2, <1>4, <2>1 DEF CompareLogin, AnswerMicrosoft
<1> QED
  BY <1>1, <1>3, <1>4
  DEF Next, Write, Read, ReadRegister, ReadVerify, ReadForgot, ReadReset,
      ReadTemporary, ReadLogin, ReadMicrosoft, SaveRegister, ClearSecrets, CreateSecret,
      MailSecret, ReadCode, CommitReset, SaveTemporary, LinkMicrosoft, Fail,
      ExpireSecret, ExpireAccount, ToggleStatus

\* The last secret mailed of each kind is replaced.
LEMMA PromiseReplaced ==
  ASSUME TypeOK, NEW k \in Kind, NEW e \in Email, NEW s \in Secret \cup {NoSecret},
         promised' = [promised EXCEPT ![k][e] = s]
  PROVE  promised' \in [Kind -> [Email -> Secret \cup {NoSecret}]]
<1>1. promised[k] \in [Email -> Secret \cup {NoSecret}]
  BY DEF TypeOK
<1> DEFINE P == [promised[k] EXCEPT ![e] = s]
<1>2. P \in [Email -> Secret \cup {NoSecret}]
  BY <1>1
<1>3. promised' = [promised EXCEPT ![k] = P]
  OBVIOUS
<1> HIDE DEF P
<1> QED
  BY <1>2, <1>3 DEF TypeOK

\* Every step leaves the history and the bounds of their types.
LEMMA OthersStep ==
  ASSUME IInv, Next
  PROVE  /\ promised' \in [Kind -> [Email -> Secret \cup {NoSecret}]]
         /\ expired' \subseteq Secret
         /\ apart' \in BOOLEAN
<1> USE DEF IInv
<1>1. apart' \in BOOLEAN
  BY DEF Next, Write, Read, ReadRegister, ReadVerify, ReadForgot, ReadReset,
      ReadTemporary, ReadLogin, ReadMicrosoft, SaveRegister, ClearSecrets, CreateSecret,
      MailSecret, ReadCode, CommitVerify, CommitReset, SaveTemporary, CompareLogin,
      LinkMicrosoft, AnswerMicrosoft, Fail, ExpireSecret, ExpireAccount, ToggleStatus, TypeOK
<1>2. expired' \subseteq Secret
  BY DEF Next, Write, Read, ReadRegister, ReadVerify, ReadForgot, ReadReset,
      ReadTemporary, ReadLogin, ReadMicrosoft, SaveRegister, ClearSecrets, CreateSecret,
      MailSecret, ReadCode, CommitVerify, CommitReset, SaveTemporary, CompareLogin,
      LinkMicrosoft, AnswerMicrosoft, Fail, ExpireSecret, ExpireAccount, ToggleStatus, TypeOK
<1>3. ASSUME NEW e \in Email, NEW k \in Kind, Unmailed(k, e)
      PROVE  promised' \in [Kind -> [Email -> Secret \cup {NoSecret}]]
  BY <1>3, PromiseReplaced DEF Unmailed
<1>4. ASSUME NEW r \in Request, MailSecret(r)
      PROVE  promised' \in [Kind -> [Email -> Secret \cup {NoSecret}]]
  <2>1. req[r] \in Call /\ req[r].email \in Email /\ KindOf(req[r].op) \in Kind
    BY <1>4, BusyCall DEF MailSecret, Kind, KindOf
  <2> QED
    BY <1>4, <2>1, PromiseReplaced DEF MailSecret, Call
<1>5. ASSUME NEW r \in Request, NEW e \in Email, ReadRegister(r, e) \/ ReadForgot(r, e)
      PROVE  promised' \in [Kind -> [Email -> Secret \cup {NoSecret}]]
  <2>1. PICK k \in Kind : Unmailed(k, e)
    BY <1>5 DEF ReadRegister, ReadForgot, Kind
  <2> QED
    BY <1>3, <2>1
<1>6. ASSUME UNCHANGED promised
      PROVE  promised' \in [Kind -> [Email -> Secret \cup {NoSecret}]]
  BY <1>6 DEF TypeOK
<1>7. promised' \in [Kind -> [Email -> Secret \cup {NoSecret}]]
  BY <1>4, <1>5, <1>6
  DEF Next, Write, Read, ReadVerify, ReadReset, ReadTemporary, ReadLogin, ReadMicrosoft,
      SaveRegister, ClearSecrets, CreateSecret, ReadCode, CommitVerify, CommitReset,
      SaveTemporary, CompareLogin, LinkMicrosoft, AnswerMicrosoft, Fail, ExpireSecret,
      ExpireAccount, ToggleStatus
<1> QED
  BY <1>1, <1>2, <1>7

\* Every step keeps the invariant.
LEMMA NextInv == IInv /\ [Next]_vars => IInv'
<1>1. CASE UNCHANGED vars
  BY <1>1 DEF vars, IInv, TypeOK, CallsOK, CallOK, RowsOK, TokenOnce, SessionsVerified, Has
<1>2. ASSUME IInv, Next
      PROVE  IInv'
  <2>1. users' \in [Email -> User \cup {NoUser}] /\ UsersKept
    BY <1>2, UsersStep
  <2>2. CallsOK' /\ req' \in [Request -> Call \cup {Idle}]
    BY <1>2, <2>1, CallsStep
  <2>3. RowsGoal
    BY <1>2, <2>1, RowsStep
  <2>4. SessionsVerified' /\ sessions' \subseteq Email
    BY <1>2, <2>1, SessionsStep
  <2>5. /\ promised' \in [Kind -> [Email -> Secret \cup {NoSecret}]]
        /\ expired' \subseteq Secret
        /\ apart' \in BOOLEAN
    BY <1>2, OthersStep
  <2>6. TypeOK'
    BY <2>1, <2>2, <2>3, <2>4, <2>5 DEF TypeOK, RowsGoal
  <2> QED
    BY <2>2, <2>3, <2>4, <2>6 DEF IInv, RowsGoal
<1> QED
  BY <1>1, <1>2

-----------------------------------------------------------------------------
(* Theorems.                                                               *)

\* The invariant holds of every behaviour of the account service.
THEOREM Invariant == Spec => []IInv
BY InitInv, NextInv, PTL DEF Spec

\* The state of the account service is always well formed.
THEOREM TypeCorrect == Spec => []TypeOK
<1>1. IInv => TypeOK
  BY DEF IInv
<1> QED
  BY <1>1, Invariant, PTL

\* A reset link changes a password once (resetPassword).
THEOREM LinkUsedOnce == Spec => []TokenOnce
<1>1. IInv => TokenOnce
  BY DEF IInv
<1> QED
  BY <1>1, Invariant, PTL

\* Sessions are issued for proven addresses only (login, verifyEmail,
\* loginWithMicrosoft).
THEOREM SessionsOfProven == Spec => []SessionsVerified
<1>1. IInv => SessionsVerified
  BY DEF IInv
<1> QED
  BY <1>1, Invariant, PTL

-----------------------------------------------------------------------------
(* What is known when conflicting requests are kept apart.                 *)

\* Two calls on one account are no conflicting pair.
PairsApart ==
  \A q, r \in Request :
    q # r /\ req[q] # Idle /\ req[r] # Idle /\ req[q].email = req[r].email
      => {req[q].op, req[r].op} \notin Conflicting

\* What register and loginWithMicrosoft read of an account they are about to
\* write still holds.
ReadFresh(c, u) ==
  c # Idle =>
    /\ c.op = "register" /\ c.step = "save" /\ c.existing => ~u[c.email].verified
    /\ c.op = "loginWithMicrosoft" /\ c.step = "link"
         => u[c.email].microsoft \in {NoMicrosoft, c.claim}

ApartInv == apart => PairsApart /\ \A r \in Request : ReadFresh(req[r], users)

\* What a step does to one call: it ends, goes on to a later part that reads
\* nothing to write, or begins with what it reads now.
Moved(r) ==
  /\ \A q \in Request : q # r => req'[q] = req[q]
  /\ \/ req'[r] = Idle
     \/ /\ req[r] # Idle
        /\ req'[r].op = req[r].op /\ req'[r].email = req[r].email
        /\ req'[r].step \notin {"save", "link"}
     \/ /\ req[r] = Idle /\ UNCHANGED users
        /\ Admitted(req'[r].op, req'[r].email)
        /\ ReadFresh(req'[r], users')

\* apart never changes.
LEMMA ApartKept == IInv /\ Next => UNCHANGED apart
BY DEF Next, Write, Read, ReadRegister, ReadVerify, ReadForgot, ReadReset,
  ReadTemporary, ReadLogin, ReadMicrosoft, SaveRegister, ClearSecrets, CreateSecret,
  MailSecret, ReadCode, CommitVerify, CommitReset, SaveTemporary, CompareLogin,
  LinkMicrosoft, AnswerMicrosoft, Fail, ExpireSecret, ExpireAccount, ToggleStatus

\* A request that ends its call is one that moved.
LEMMA EndMoves ==
  ASSUME TypeOK, NEW r \in Request, End(r)
  PROVE  Moved(r)
BY DEF Moved, End, TypeOK

\* So is one that goes on to another step than the two that write.
LEMMA GotoMoves ==
  ASSUME TypeOK, NEW r \in Request, req[r] # Idle, NEW s \in Step \ {"save", "link"},
         Goto(r, s)
  PROVE  Moved(r)
<1>1. req[r] \in Call
  BY BusyCall
<1> DEFINE c == [req[r] EXCEPT !.step = s]
<1>2. c.op = req[r].op /\ c.email = req[r].email /\ c.step \notin {"save", "link"}
  BY <1>1 DEF Call
<1>3. \A q \in Request : req'[q] = IF q = r THEN c ELSE req[q]
  BY DEF Goto, TypeOK
<1> HIDE DEF c
<1> QED
  BY <1>2, <1>3 DEF Moved

\* So is one that begins, having tested the account it is about to write.
LEMMA BeginMoves ==
  ASSUME TypeOK, NEW r \in Request, UNCHANGED users, NEW op, NEW e, NEW step,
         NEW existing, NEW s, NEW m, Begin(r, op, e, step, existing, s, m),
         op = "register" /\ step = "save" /\ existing => ~users[e].verified,
         op = "loginWithMicrosoft" /\ step = "link" => users[e].microsoft \in {NoMicrosoft, m}
  PROVE  Moved(r)
<1> DEFINE c == [op |-> op, email |-> e, step |-> step, existing |-> existing,
                 secret |-> s, claim |-> m]
<1>1. \A q \in Request : req'[q] = IF q = r THEN c ELSE req[q]
  BY DEF Begin, TypeOK
<1>2. req[r] = Idle /\ Admitted(c.op, c.email)
  BY DEF Begin
<1>3. ReadFresh(c, users')
  BY DEF ReadFresh
<1> HIDE DEF c
<1> QED
  BY <1>1, <1>2, <1>3 DEF Moved

\* A step moves one request at most.
LEMMA RequestsMove ==
  ASSUME IInv, Next
  PROVE  UNCHANGED req \/ \E r \in Request : Moved(r)
<1> USE DEF IInv
<1>1. ASSUME NEW r \in Request, NEW e \in Email, Read(r, e)
      PROVE  Moved(r)
  <2>1. CASE ReadRegister(r, e)
    BY <2>1, BeginMoves DEF ReadRegister, MayRegister
  <2>2. CASE ReadMicrosoft(r, e)
    BY <2>2, BeginMoves DEF ReadMicrosoft, SameIdentity
  <2>3. CASE \/ ReadVerify(r, e) \/ ReadForgot(r, e) \/ ReadReset(r, e)
             \/ ReadTemporary(r, e) \/ ReadLogin(r, e)
    BY <2>3, BeginMoves DEF ReadVerify, ReadForgot, ReadReset, ReadTemporary, ReadLogin
  <2> QED
    BY <1>1, <2>1, <2>2, <2>3 DEF Read
<1>2. ASSUME NEW r \in Request, Write(r)
      PROVE  Moved(r)
  <2>1. CASE CreateSecret(r)
    <3>1. req[r] # Idle /\ req[r] \in Call
      BY <2>1, BusyCall DEF CreateSecret
    <3>2. PICK s \in Secret : req' = [req EXCEPT ![r].secret = s, ![r].step = "mail"]
      BY <2>1 DEF CreateSecret
    <3> DEFINE c == [req[r] EXCEPT !.secret = s, !.step = "mail"]
    <3>3. c.op = req[r].op /\ c.email = req[r].email /\ c.step = "mail"
      BY <3>1 DEF Call
    <3>4. \A q \in Request : req'[q] = IF q = r THEN c ELSE req[q]
      BY <3>1, <3>2 DEF TypeOK, Call
    <3> HIDE DEF c
    <3> QED
      BY <3>1, <3>3, <3>4 DEF Moved
  <2>2. CASE SaveRegister(r) \/ ClearSecrets(r) \/ ReadCode(r) \/ LinkMicrosoft(r)
    BY <2>2, GotoMoves DEF SaveRegister, ClearSecrets, ReadCode, LinkMicrosoft, At, Step
  <2>3. CASE \/ MailSecret(r) \/ CommitVerify(r) \/ CommitReset(r) \/ SaveTemporary(r)
             \/ CompareLogin(r) \/ AnswerMicrosoft(r)
    BY <2>3, EndMoves DEF MailSecret, CommitVerify, CommitReset, SaveTemporary,
       CompareLogin, AnswerMicrosoft, IssueSession
  <2> QED
    BY <1>2, <2>1, <2>2, <2>3 DEF Write
<1>3. ASSUME NEW r \in Request, Fail(r)
      PROVE  Moved(r)
  BY <1>3, EndMoves DEF Fail
<1> QED
  BY <1>1, <1>2, <1>3 DEF Next, ExpireSecret, ExpireAccount, ToggleStatus

\* A call at a part of its handler, on an account.
Doing(r, op, step, e) == req[r] # Idle /\ req[r].op = op /\ req[r].step = step /\ req[r].email = e

\* Who changes an account that is there.
ChangedBy(e) ==
  /\ users'[e].verified = users[e].verified \/ \E r \in Request :
       Doing(r, "verifyEmail", "commit", e) \/ Doing(r, "loginWithMicrosoft", "link", e)
  /\ users'[e].microsoft = users[e].microsoft \/ \E r \in Request :
       Doing(r, "loginWithMicrosoft", "link", e) /\ users'[e].microsoft = req[r].claim
  /\ users'[e].password = users[e].password \/ \E r \in Request :
       \/ Doing(r, "register", "save", e) /\ req[r].existing
       \/ CommitReset(r) /\ req[r].email = e

\* What changes an account is one of the operations that may.
LEMMA UserChanges ==
  ASSUME IInv, Next, NEW e \in Email, Has(e)
  PROVE  ChangedBy(e)
<1> USE DEF IInv
<1>1. users[e] \in User
  BY UserThere
<1>2. CASE UNCHANGED users
  BY <1>2 DEF ChangedBy
<1>3. ASSUME NEW r \in Request, SaveRegister(r)
      PROVE  ChangedBy(e)
  <2>1. req[r] # Idle /\ req[r].op = "register" /\ req[r].step = "save"
    BY <1>3 DEF SaveRegister, At
  <2>2. CASE req[r].email # e
    BY <1>3, <2>2 DEF SaveRegister, TypeOK, ChangedBy
  <2>3. CASE req[r].email = e
    <3>1. PICK p \in Password : req[r].existing /\ users' = [users EXCEPT ![e].password = p]
      BY <1>3, <2>3 DEF SaveRegister
    <3>2. users'[e].verified = users[e].verified /\ users'[e].microsoft = users[e].microsoft
      BY <1>1, <3>1 DEF TypeOK, User
    <3> QED
      BY <2>1, <2>3, <3>1, <3>2 DEF ChangedBy, Doing
  <2> QED
    BY <2>2, <2>3
<1>4. ASSUME NEW r \in Request, CommitVerify(r)
      PROVE  ChangedBy(e)
  <2>1. CASE req[r].email # e
    BY <1>4, <2>1 DEF CommitVerify, TypeOK, ChangedBy
  <2>2. CASE req[r].email = e
    BY <1>1, <1>4, <2>2 DEF CommitVerify, At, Doing, TypeOK, User, ChangedBy
  <2> QED
    BY <2>1, <2>2
<1>5. ASSUME NEW r \in Request, CommitReset(r)
      PROVE  ChangedBy(e)
  <2>1. PICK p \in Password : users' = [users EXCEPT ![req[r].email].password = p]
    BY <1>5 DEF CommitReset
  <2>2. CASE req[r].email # e
    BY <2>1, <2>2 DEF TypeOK, ChangedBy
  <2>3. CASE req[r].email = e
    <3>1. users'[e].verified = users[e].verified /\ users'[e].microsoft = users[e].microsoft
      BY <1>1, <2>1, <2>3 DEF TypeOK, User
    <3> QED
      BY <1>5, <2>3, <3>1 DEF ChangedBy
  <2> QED
    BY <2>2, <2>3
<1>6. ASSUME NEW r \in Request, SaveTemporary(r)
      PROVE  ChangedBy(e)
  BY <1>6 DEF SaveTemporary, TypeOK, ChangedBy
<1>7. ASSUME NEW r \in Request, LinkMicrosoft(r)
      PROVE  ChangedBy(e)
  <2>1. CASE req[r].email # e
    BY <1>7, <2>1 DEF LinkMicrosoft, TypeOK, ChangedBy
  <2>2. CASE req[r].email = e
    <3>1. users'[e] = [users[e] EXCEPT !.microsoft = req[r].claim, !.verified = TRUE]
      BY <1>1, <1>7, <2>2 DEF LinkMicrosoft, TypeOK, User
    <3>2. /\ users'[e].password = users[e].password
          /\ users'[e].microsoft = req[r].claim
      BY <1>1, <3>1 DEF User
    <3>3. Doing(r, "loginWithMicrosoft", "link", e)
      BY <1>7, <2>2 DEF LinkMicrosoft, At, Doing
    <3> QED
      BY <3>2, <3>3 DEF ChangedBy
  <2> QED
    BY <2>1, <2>2
<1>8. ASSUME NEW f \in Email, ExpireAccount(f) \/ ToggleStatus(f)
      PROVE  ChangedBy(e)
  <2>1. CASE f # e
    BY <1>8, <2>1 DEF ExpireAccount, ToggleStatus, TypeOK, ChangedBy
  <2>2. CASE f = e
    BY <1>1, <1>8, <2>2 DEF ExpireAccount, ToggleStatus, TypeOK, User, ChangedBy
  <2> QED
    BY <2>1, <2>2
<1> QED
  BY <1>2, <1>3, <1>4, <1>5, <1>6, <1>7, <1>8
  DEF Next, Write, Read, ReadRegister, ReadVerify, ReadForgot, ReadReset,
      ReadTemporary, ReadLogin, ReadMicrosoft, ClearSecrets, CreateSecret,
      MailSecret, ReadCode, CompareLogin, AnswerMicrosoft, Fail, ExpireSecret

\* A conflicting pair is on the list.
LEMMA Pairs ==
  /\ {"register", "verifyEmail"} \in Conflicting
  /\ {"register", "loginWithMicrosoft"} \in Conflicting
  /\ {"loginWithMicrosoft", "loginWithMicrosoft"} \in Conflicting
<1>1. {"loginWithMicrosoft", "loginWithMicrosoft"} = {"loginWithMicrosoft"}
  OBVIOUS
<1> QED
  BY <1>1 DEF Conflicting

\* A call that is about to write, and stands where it stood, is overtaken by
\* no conflicting one.
LEMMA FreshStays ==
  ASSUME IInv, Next, PairsApart, NEW q \in Request, ReadFresh(req[q], users)
  PROVE  ReadFresh(req[q], users')
<1> USE DEF IInv
<1> SUFFICES ASSUME req[q] # Idle PROVE ReadFresh(req[q], users')
  BY DEF ReadFresh
<1> DEFINE e == req[q].email
<1>1. e \in Email
  BY BusyCall
<1>2. ASSUME req[q].op = "register", req[q].step = "save", req[q].existing
      PROVE  ~users'[e].verified
  <2>1. Has(e)
    BY <1>2 DEF CallsOK, CallOK, Has
  <2>2. ~users[e].verified
    BY <1>2 DEF ReadFresh
  <2>3. \A r \in Request : /\ ~Doing(r, "verifyEmail", "commit", e)
                           /\ ~Doing(r, "loginWithMicrosoft", "link", e)
    BY <1>2, Pairs DEF Doing, PairsApart
  <2> QED
    BY <1>1, <2>1, <2>2, <2>3, UserChanges DEF ChangedBy
<1>3. ASSUME req[q].op = "loginWithMicrosoft", req[q].step = "link"
      PROVE  users'[e].microsoft \in {NoMicrosoft, req[q].claim}
  <2>1. Has(e)
    BY <1>3 DEF CallsOK, CallOK, Has
  <2>2. users[e].microsoft \in {NoMicrosoft, req[q].claim}
    BY <1>3 DEF ReadFresh
  <2>3. \A r \in Request : Doing(r, "loginWithMicrosoft", "link", e) => r = q
    BY <1>3, Pairs DEF Doing, PairsApart
  <2> QED
    BY <1>1, <2>1, <2>2, <2>3, UserChanges DEF ChangedBy
<1> QED
  BY <1>2, <1>3 DEF ReadFresh

\* Every step keeps what the operations kept apart give.
LEMMA ApartStep == IInv /\ ApartInv /\ [Next]_vars => ApartInv'
<1>1. CASE UNCHANGED vars
  BY <1>1 DEF vars, ApartInv, PairsApart, ReadFresh
<1>2. ASSUME IInv, ApartInv, Next, apart
      PROVE  PairsApart' /\ \A r \in Request : ReadFresh(req'[r], users')
  <2>1. PairsApart /\ \A r \in Request : ReadFresh(req[r], users')
    BY <1>2, FreshStays DEF ApartInv
  <2>2. CASE UNCHANGED req
    BY <2>1, <2>2 DEF PairsApart
  <2>3. ASSUME NEW r \in Request, Moved(r)
        PROVE  PairsApart' /\ \A q \in Request : ReadFresh(req'[q], users')
    <3>1. \A q \in Request : q # r => req'[q] = req[q]
      BY <2>3 DEF Moved
    <3>2. CASE req'[r] = Idle
      BY <2>1, <3>1, <3>2 DEF PairsApart, ReadFresh
    <3>3. CASE /\ req[r] # Idle
               /\ req'[r].op = req[r].op /\ req'[r].email = req[r].email
               /\ req'[r].step \notin {"save", "link"}
      <4>1. PairsApart'
        BY <2>1, <3>1, <3>3 DEF PairsApart
      <4>2. ReadFresh(req'[r], users')
        BY <3>3 DEF ReadFresh
      <4> QED
        BY <2>1, <3>1, <4>1, <4>2
    <3>4. CASE /\ Admitted(req'[r].op, req'[r].email)
               /\ ReadFresh(req'[r], users')
      <4>1. \A q \in Request : req[q] # Idle /\ req[q].email = req'[r].email
              => {req'[r].op, req[q].op} \notin Conflicting
        BY <1>2, <3>4 DEF Admitted
      <4>2. \A a, b : {a, b} = {b, a}
        OBVIOUS
      <4>3. PairsApart'
        <5> SUFFICES ASSUME NEW p \in Request, NEW q \in Request, p # q,
                            req'[p] # Idle, req'[q] # Idle, req'[p].email = req'[q].email
                     PROVE  {req'[p].op, req'[q].op} \notin Conflicting
          BY DEF PairsApart
        <5>1. CASE p = r
          BY <3>1, <4>1, <5>1
        <5>2. CASE q = r
          <6>1. {req'[q].op, req'[p].op} \notin Conflicting
            BY <3>1, <4>1, <5>2
          <6> QED
            BY <4>2, <6>1
        <5>3. CASE p # r /\ q # r
          BY <2>1, <3>1, <5>3 DEF PairsApart
        <5> QED
          BY <5>1, <5>2, <5>3
      <4> QED
        BY <2>1, <3>1, <3>4, <4>3
    <3> QED
      BY <2>3, <3>2, <3>3, <3>4 DEF Moved
  <2> QED
    BY <1>2, <2>2, <2>3, RequestsMove
<1>3. ASSUME IInv, Next
      PROVE  UNCHANGED apart
  BY <1>3, ApartKept
<1> QED
  BY <1>1, <1>2, <1>3 DEF ApartInv

\* No request has tested anything at first.
LEMMA InitApart == Init => ApartInv
BY DEF Init, ApartInv, PairsApart, ReadFresh

\* The step property behind CredentialsKept.
LEMMA CredentialsStep ==
  ASSUME IInv, ApartInv, Next, apart, NEW e \in Email, Has(e)
  PROVE  /\ users[e].verified /\ users'[e].password # users[e].password =>
              rows'["token"][e] # rows["token"][e]
         /\ users[e].microsoft # NoMicrosoft => users'[e].microsoft = users[e].microsoft
<1> USE DEF IInv
<1>1. \A r \in Request : ReadFresh(req[r], users)
  BY DEF ApartInv
<1>2. ChangedBy(e)
  BY UserChanges
<1>3. ASSUME users[e].verified, users'[e].password # users[e].password
      PROVE  rows'["token"][e] # rows["token"][e]
  <2>1. PICK r \in Request : CommitReset(r) /\ req[r].email = e
    BY <1>1, <1>2, <1>3 DEF ChangedBy, Doing, ReadFresh
  <2>2. req[r].secret \in rows["token"][e]
    BY <2>1 DEF CommitReset, StillThere
  <2>3. "token" \in Kind
    BY DEF Kind
  <2>4. req[r].secret \notin rows'["token"][e]
    BY <2>1, <2>3 DEF CommitReset, TypeOK
  <2> QED
    BY <2>2, <2>4
<1>4. ASSUME users[e].microsoft # NoMicrosoft
      PROVE  users'[e].microsoft = users[e].microsoft
  BY <1>1, <1>2, <1>4 DEF ChangedBy, Doing, ReadFresh
<1> QED
  BY <1>3, <1>4

\* A proven account keeps its credentials as long as conflicting requests
\* never overlap on it: register never replaces the password of a proven
\* account, loginWithMicrosoft no identity.
THEOREM CredentialsOfProven == Spec => CredentialsKept
<1>1. IInv /\ ApartInv /\ [Next]_vars =>
        [apart => \A e \in Email : Has(e) =>
           /\ users[e].verified /\ users'[e].password # users[e].password =>
                rows'["token"][e] # rows["token"][e]
           /\ users[e].microsoft # NoMicrosoft => users'[e].microsoft = users[e].microsoft]_vars
  BY CredentialsStep
<1> QED
  BY <1>1, InitApart, ApartStep, Invariant, PTL DEF Spec, CredentialsKept

-----------------------------------------------------------------------------
(* What the last mail says.                                                *)

\* A call that is to mail a secret of the kind to the account.
Mailing(c, k, e) ==
  c # Idle /\ c.op \in {"register", "forgotPassword"} /\ KindOf(c.op) = k /\ c.email = e

\* A mailed secret does what its mail says, or has done it.
Alive(k, e, s) ==
  IF k = "code" THEN users[e].verified \/ s \in rows[k][e]
                ELSE uses[s] # 0 \/ s \in rows[k][e]

\* Only register and forgotPassword replace the rows of secrets.
StepsOK ==
  \A r \in Request : req[r] # Idle /\ req[r].step \in {"clear", "create", "mail"}
    => req[r].op \in {"register", "forgotPassword"}

\* While a call is to mail a secret nothing is promised, and the secret it has
\* drawn is alive; what is promised is alive.
MailOK(k, e) ==
  /\ promised[k][e] # NoSecret => Has(e) /\ Alive(k, e, promised[k][e])
  /\ \A r \in Request : Mailing(req[r], k, e) =>
       /\ promised[k][e] = NoSecret
       /\ req[r].step = "mail" => req[r].secret \in Secret /\ Alive(k, e, req[r].secret)

MailInv == StepsOK /\ (apart => \A k \in Kind, e \in Email : MailOK(k, e))

\* No code and no link was mailed at first.
LEMMA InitMail == Init => MailInv
BY DEF Init, MailInv, StepsOK, MailOK, Mailing

\* Registrations mail codes and forgotten passwords links.
LEMMA Kinds ==
  /\ Kind = {"code", "token"}
  /\ KindOf("register") = "code" /\ KindOf("forgotPassword") = "token"
  /\ \A op : KindOf(op) \in Kind
BY DEF Kind, KindOf

\* The calls that mail one kind of secret to one account conflict.
LEMMA OneMails ==
  ASSUME PairsApart, NEW q \in Request, NEW r \in Request, NEW k, NEW e,
         Mailing(req[q], k, e), Mailing(req[r], k, e)
  PROVE  q = r
<1>1. req[q].op = req[r].op /\ req[q].op \in {"register", "forgotPassword"}
  BY Kinds DEF Mailing
<1>2. {req[q].op, req[r].op} = {req[q].op}
  BY <1>1
<1>3. {"register"} \in Conflicting /\ {"forgotPassword"} \in Conflicting
  BY DEF Conflicting
<1>4. {req[q].op, req[r].op} \in Conflicting
  BY <1>1, <1>2, <1>3
<1> QED
  BY <1>4 DEF PairsApart, Mailing

\* Only the calls that mail secrets reach the parts of mailing one.
LEMMA StepsStep ==
  ASSUME IInv, StepsOK, Next
  PROVE  StepsOK'
<1> USE DEF IInv
<1> DEFINE OK(c) == c # Idle /\ c.step \in {"clear", "create", "mail"}
                      => c.op \in {"register", "forgotPassword"}
<1>0. \A q \in Request : OK(req[q])
  BY DEF StepsOK
<1>1. ASSUME NEW r \in Request, NEW c, req' = [req EXCEPT ![r] = c], OK(c)
      PROVE  StepsOK'
  <2>1. \A q \in Request : req'[q] = IF q = r THEN c ELSE req[q]
    BY <1>1 DEF TypeOK
  <2>2. \A q \in Request : OK(req'[q])
    BY <1>0, <1>1, <2>1
  <2> QED
    BY <2>2 DEF StepsOK
<1>2. ASSUME NEW r \in Request, End(r)
      PROVE  StepsOK'
  BY <1>1, <1>2 DEF End
<1>3. ASSUME NEW r \in Request, req[r] # Idle, NEW s, Goto(r, s),
             s \notin {"clear", "create", "mail"} \/ req[r].op \in {"register", "forgotPassword"}
      PROVE  StepsOK'
  <2> DEFINE c == [req[r] EXCEPT !.step = s]
  <2>1. c.step = s /\ c.op = req[r].op
    BY <1>3, BusyCall DEF Call
  <2>2. req' = [req EXCEPT ![r] = c]
    BY <1>3 DEF Goto
  <2> HIDE DEF c
  <2> QED
    BY <1>1, <1>3, <2>1, <2>2
<1>4. ASSUME NEW r \in Request, NEW op, NEW e, NEW step, NEW existing, NEW s, NEW m,
             Begin(r, op, e, step, existing, s, m),
             step \notin {"clear", "create", "mail"} \/ op \in {"register", "forgotPassword"}
      PROVE  StepsOK'
  <2> DEFINE c == [op |-> op, email |-> e, step |-> step, existing |-> existing,
                   secret |-> s, claim |-> m]
  <2>1. c.step = step /\ c.op = op
    OBVIOUS
  <2>2. req' = [req EXCEPT ![r] = c]
    BY <1>4 DEF Begin
  <2> HIDE DEF c
  <2> QED
    BY <1>1, <1>4, <2>1, <2>2
<1>5. ASSUME NEW r \in Request, NEW e \in Email, Read(r, e)
      PROVE  StepsOK'
  <2>1. CASE ReadMicrosoft(r, e)
    <3>1. PICK m \in MicrosoftId, step \in {"link", "answer"} :
            Begin(r, "loginWithMicrosoft", e, step, TRUE, NoSecret, m)
      BY <2>1 DEF ReadMicrosoft
    <3> QED
      BY <1>4, <3>1
  <2>2. CASE \/ ReadRegister(r, e) \/ ReadVerify(r, e) \/ ReadForgot(r, e)
             \/ ReadReset(r, e) \/ ReadTemporary(r, e) \/ ReadLogin(r, e)
    BY <1>4, <2>2 DEF ReadRegister, ReadVerify, ReadForgot, ReadReset, ReadTemporary, ReadLogin
  <2> QED
    BY <1>5, <2>1, <2>2 DEF Read
<1>6. ASSUME NEW r \in Request, Write(r)
      PROVE  StepsOK'
  <2>1. CASE CreateSecret(r)
    <3>1. req[r] # Idle /\ req[r] \in Call /\ req[r].op \in {"register", "forgotPassword"}
      BY <1>0, <2>1, BusyCall DEF CreateSecret
    <3>2. PICK s \in Secret : req' = [req EXCEPT ![r].secret = s, ![r].step = "mail"]
      BY <2>1 DEF CreateSecret
    <3> DEFINE c == [req[r] EXCEPT !.secret = s, !.step = "mail"]
    <3>3. c.op = req[r].op
      BY <3>1 DEF Call
    <3>4. req' = [req EXCEPT ![r] = c]
      BY <3>1, <3>2 DEF TypeOK, Call
    <3> HIDE DEF c
    <3> QED
      BY <1>1, <3>1, <3>3, <3>4
  <2>2. CASE SaveRegister(r) \/ ClearSecrets(r) \/ ReadCode(r) \/ LinkMicrosoft(r)
    BY <1>0, <1>3, <2>2 DEF SaveRegister, ClearSecrets, ReadCode, LinkMicrosoft, At
  <2>3. CASE \/ MailSecret(r) \/ CommitVerify(r) \/ CommitReset(r) \/ SaveTemporary(r)
             \/ CompareLogin(r) \/ AnswerMicrosoft(r)
    BY <1>2, <2>3 DEF MailSecret, CommitVerify, CommitReset, SaveTemporary,
       CompareLogin, AnswerMicrosoft, IssueSession
  <2> QED
    BY <1>6, <2>1, <2>2, <2>3 DEF Write
<1>7. ASSUME NEW r \in Request, Fail(r)
      PROVE  StepsOK'
  BY <1>2, <1>7 DEF Fail
<1>8. CASE UNCHANGED req
  BY <1>8 DEF StepsOK
<1> QED
  BY <1>5, <1>6, <1>7, <1>8 DEF Next, ExpireSecret, ExpireAccount, ToggleStatus

\* Who takes the row of a secret away.
LEMMA RowKept ==
  ASSUME IInv, StepsOK, Next, NEW k \in Kind, NEW e \in Email, NEW s \in rows[k][e]
  PROVE  \/ s \in rows'[k][e]
         \/ \E r \in Request : Mailing(req[r], k, e) /\ req[r].step = "clear"
         \/ k = "code" /\ users'[e].verified
         \/ k = "token" /\ uses'[s] # 0
<1> DEFINE Goal ==
         \/ s \in rows'[k][e]
         \/ \E r \in Request : Mailing(req[r], k, e) /\ req[r].step = "clear"
         \/ k = "code" /\ users'[e].verified
         \/ k = "token" /\ uses'[s] # 0
<1> USE DEF IInv
<1>1. CASE UNCHANGED rows
  BY <1>1
<1>2. ASSUME NEW r \in Request, ClearSecrets(r)
      PROVE  Goal
  <2> DEFINE j == KindOf(req[r].op)
             f == req[r].email
  <2>1. /\ req[r] # Idle /\ req[r].step = "clear" /\ rows' = [rows EXCEPT ![j][f] = {}]
        /\ req[r].op \in {"register", "forgotPassword"} /\ f \in Email /\ j \in Kind
    BY <1>2, Kinds, BusyCall DEF ClearSecrets, ClearedRows, StepsOK
  <2>2. CASE j = k /\ f = e
    BY <2>1, <2>2 DEF Mailing
  <2>3. CASE ~(j = k /\ f = e)
    <3> HIDE DEF j, f
    <3>1. rows'[k][e] = rows[k][e]
      BY <2>1, <2>3, RowsReplaced
    <3> QED
      BY <3>1
  <2> QED
    BY <2>2, <2>3
<1>3. ASSUME NEW r \in Request, CreateSecret(r)
      PROVE  Goal
  <2> DEFINE j == KindOf(req[r].op)
             f == req[r].email
  <2>1. j \in Kind /\ f \in Email
    BY <1>3, Kinds, BusyCall DEF CreateSecret
  <2>2. PICK x \in Secret : rows' = [rows EXCEPT ![j][f] = rows[j][f] \cup {x}]
    BY <1>3 DEF CreateSecret, RowsWith
  <2> DEFINE S == rows[j][f] \cup {x}
  <2>3. S \in SUBSET Secret /\ rows' = [rows EXCEPT ![j][f] = S]
    BY <2>1, <2>2 DEF TypeOK
  <2> HIDE DEF j, f, S
  <2>4. rows'[k][e] = IF k = j /\ e = f THEN S ELSE rows[k][e]
    BY <2>1, <2>3, RowsReplaced
  <2> QED
    BY <2>4 DEF S
<1>4. ASSUME NEW r \in Request, CommitVerify(r)
      PROVE  Goal
  <2> DEFINE f == req[r].email
             c == "code"
  <2>1. f \in Email /\ req[r] # Idle /\ req[r].op = "verifyEmail"
    BY <1>4, BusyCall DEF CommitVerify, At
  <2>2. c \in Kind /\ rows' = [rows EXCEPT ![c][f] = {}] /\ {} \in SUBSET Secret
    BY <1>4, Kinds DEF CommitVerify
  <2>3. users[f] \in User
    BY <2>1, UserThere DEF CallsOK, CallOK, Has
  <2>4. users'[f].verified
    BY <1>4, <2>1, <2>3 DEF CommitVerify, TypeOK, User
  <2>5. CASE c = k /\ f = e
    BY <2>4, <2>5
  <2>6. CASE ~(c = k /\ f = e)
    <3> HIDE DEF c, f
    <3>1. rows'[k][e] = rows[k][e]
      BY <2>1, <2>2, <2>6, RowsReplaced
    <3> QED
      BY <3>1
  <2> QED
    BY <2>5, <2>6
<1>5. ASSUME NEW r \in Request, CommitReset(r)
      PROVE  Goal
  <2> DEFINE f == req[r].email
             x == req[r].secret
             c == "token"
             S == rows["token"][f] \ {x}
  <2>1. f \in Email
    BY <1>5, BusyCall DEF CommitReset, At
  <2>2. /\ x \in rows["token"][f]
        /\ uses' = [uses EXCEPT ![x] = uses[x] + 1]
        /\ c \in Kind /\ rows' = [rows EXCEPT ![c][f] = S]
    BY <1>5, <2>1, Kinds DEF CommitReset, StillThere, TypeOK
  <2>3. x \in Secret /\ S \in SUBSET Secret
    BY <2>1, <2>2, Kinds DEF TypeOK
  <2>4. uses'[x] # 0
    <3>1. uses[x] \in Nat /\ uses'[x] = uses[x] + 1
      BY <2>2, <2>3 DEF TypeOK
    <3> QED
      BY <3>1
  <2> HIDE DEF c, f, S, x
  <2>5. rows'[k][e] = IF k = c /\ e = f THEN S ELSE rows[k][e]
    BY <2>1, <2>2, <2>3, RowsReplaced
  <2> QED
    BY <2>4, <2>5 DEF S, c
<1> QED
  BY <1>1, <1>2, <1>3, <1>4, <1>5
  DEF Next, Write, Read, ReadRegister, ReadVerify, ReadForgot, ReadReset,
      ReadTemporary, ReadLogin, ReadMicrosoft, SaveRegister, MailSecret, ReadCode,
      SaveTemporary, CompareLogin, LinkMicrosoft, AnswerMicrosoft, Fail, ExpireSecret,
      ExpireAccount, ToggleStatus

\* A secret that was used stays used.
LEMMA UsesKept ==
  ASSUME IInv, Next, NEW s \in Secret, uses[s] # 0
  PROVE  uses'[s] # 0
<1> USE DEF IInv
<1>1. ASSUME NEW r \in Request, CommitReset(r)
      PROVE  uses'[s] # 0
  <2>1. uses' = [uses EXCEPT ![req[r].secret] = uses[req[r].secret] + 1]
    BY <1>1 DEF CommitReset
  <2>2. uses[s] \in Nat
    BY DEF TypeOK
  <2>3. uses'[s] = IF s = req[r].secret THEN uses[s] + 1 ELSE uses[s]
    BY <2>1 DEF TypeOK
  <2> QED
    BY <2>2, <2>3
<1>2. CASE UNCHANGED uses
  BY <1>2
<1> QED
  BY <1>1, <1>2
  DEF Next, Write, Read, ReadRegister, ReadVerify, ReadForgot, ReadReset,
      ReadTemporary, ReadLogin, ReadMicrosoft, SaveRegister, ClearSecrets, CreateSecret,
      MailSecret, ReadCode, CommitVerify, SaveTemporary, CompareLogin, LinkMicrosoft,
      AnswerMicrosoft, Fail, ExpireSecret, ExpireAccount, ToggleStatus

\* A secret stays alive unless a call of its kind is about to clear the rows.
LEMMA AliveKept ==
  ASSUME IInv, StepsOK, Next, UsersKept, NEW k \in Kind, NEW e \in Email, NEW s \in Secret,
         Has(e), Alive(k, e, s),
         \A r \in Request : ~(Mailing(req[r], k, e) /\ req[r].step = "clear")
  PROVE  Has(e)' /\ IF k = "code" THEN users'[e].verified \/ s \in rows'[k][e]
                                  ELSE uses'[s] # 0 \/ s \in rows'[k][e]
<1>1. Has(e)' /\ (users[e].verified => users'[e].verified)
  BY DEF UsersKept
<1>2. CASE s \in rows[k][e]
  BY <1>1, <1>2, RowKept, Kinds
<1>3. CASE s \notin rows[k][e]
  BY <1>1, <1>3, UsesKept, Kinds DEF Alive
<1> QED
  BY <1>2, <1>3

\* What a step makes of the last secret mailed.
LEMMA PromiseStep ==
  ASSUME IInv, Next, NEW k \in Kind, NEW e \in Email
  PROVE  \/ promised'[k][e] \in {promised[k][e], NoSecret}
         \/ \E r \in Request : /\ Mailing(req[r], k, e) /\ req[r].step = "mail"
                               /\ promised'[k][e] = req[r].secret
                               /\ req' = [req EXCEPT ![r] = Idle]
<1> DEFINE Goal ==
         \/ promised'[k][e] \in {promised[k][e], NoSecret}
         \/ \E r \in Request : /\ Mailing(req[r], k, e) /\ req[r].step = "mail"
                               /\ promised'[k][e] = req[r].secret
                               /\ req' = [req EXCEPT ![r] = Idle]
<1> USE DEF IInv
<1>1. CASE UNCHANGED promised
  BY <1>1
<1>2. ASSUME NEW j \in Kind, NEW f \in Email, NEW s,
             promised' = [promised EXCEPT ![j][f] = s]
      PROVE  promised'[k][e] = IF j = k /\ f = e THEN s ELSE promised[k][e]
  BY <1>2 DEF TypeOK
<1>3. ASSUME NEW r \in Request, NEW f \in Email, ReadRegister(r, f) \/ ReadForgot(r, f)
      PROVE  Goal
  <2>1. PICK j \in Kind : promised' = [promised EXCEPT ![j][f] = NoSecret]
    BY <1>3, Kinds DEF ReadRegister, ReadForgot, Unmailed
  <2> QED
    BY <1>2, <2>1
<1>4. ASSUME NEW r \in Request, MailSecret(r)
      PROVE  Goal
  <2> DEFINE j == KindOf(req[r].op)
             f == req[r].email
  <2>1. /\ j \in Kind /\ f \in Email /\ req[r] # Idle /\ req[r].step = "mail"
        /\ req[r].op \in {"register", "forgotPassword"}
        /\ promised' = [promised EXCEPT ![j][f] = req[r].secret]
        /\ req' = [req EXCEPT ![r] = Idle]
    BY <1>4, Kinds, BusyCall DEF MailSecret, End
  <2>2. promised'[k][e] = IF j = k /\ f = e THEN req[r].secret ELSE promised[k][e]
    BY <1>2, <2>1
  <2> QED
    BY <2>1, <2>2 DEF Mailing
<1> QED
  BY <1>1, <1>3, <1>4
  DEF Next, Write, Read, ReadVerify, ReadReset, ReadTemporary, ReadLogin, ReadMicrosoft,
      SaveRegister, ClearSecrets, CreateSecret, ReadCode, CommitVerify, CommitReset,
      SaveTemporary, CompareLogin, LinkMicrosoft, AnswerMicrosoft, Fail, ExpireSecret,
      ExpireAccount, ToggleStatus

\* Where a call that mails secrets comes from: it did so before, and has the
\* secret it had or one it has just stored, or it has just begun.
Continues(q, k, e) ==
  /\ Mailing(req[q], k, e)
  /\ req'[q].step = "mail" =>
       \/ req'[q] = req[q]
       \/ req'[q].secret \in Secret /\ req'[q].secret \in rows'[k][e]

Begins(q, k, e) == promised'[k][e] = NoSecret /\ req'[q].step # "mail"

\* A request that is on its way to a mail was so before or begins to be.
LEMMA MailingStep ==
  ASSUME IInv, StepsOK, Next, NEW q \in Request, NEW k \in Kind, NEW e \in Email,
         Mailing(req'[q], k, e)
  PROVE  Continues(q, k, e) \/ Begins(q, k, e)
<1> DEFINE Goal == Continues(q, k, e) \/ Begins(q, k, e)
<1> USE DEF IInv
<1>1. CASE req'[q] = req[q]
  BY <1>1 DEF Continues, Mailing
<1>2. ASSUME NEW r \in Request, End(r)
      PROVE  Goal
  <2>1. req'[q] = req[q] \/ req'[q] = Idle
    BY <1>2 DEF End, TypeOK
  <2> QED
    BY <1>1, <2>1 DEF Mailing
<1>3. ASSUME NEW r \in Request, req[r] # Idle, NEW s, Goto(r, s), s # "mail"
      PROVE  Goal
  <2> DEFINE c == [req[r] EXCEPT !.step = s]
  <2>1. c.step = s /\ c.op = req[r].op /\ c.email = req[r].email
    BY <1>3, BusyCall DEF Call
  <2>2. req'[q] = IF q = r THEN c ELSE req[q]
    BY <1>3 DEF Goto, TypeOK
  <2> HIDE DEF c
  <2> QED
    BY <1>1, <1>3, <2>1, <2>2 DEF Mailing, Continues
<1>4. ASSUME NEW r \in Request, NEW op, NEW f, NEW step, NEW existing, NEW s, NEW m,
             Begin(r, op, f, step, existing, s, m),
             op \in {"register", "forgotPassword"} =>
               step # "mail" /\ (KindOf(op) = k /\ f = e => promised'[k][e] = NoSecret)
      PROVE  Goal
  <2> DEFINE c == [op |-> op, email |-> f, step |-> step, existing |-> existing,
                   secret |-> s, claim |-> m]
  <2>1. c.step = step /\ c.op = op /\ c.email = f
    OBVIOUS
  <2>2. req'[q] = IF q = r THEN c ELSE req[q]
    BY <1>4 DEF Begin, TypeOK
  <2> HIDE DEF c
  <2> QED
    BY <1>1, <1>4, <2>1, <2>2 DEF Mailing, Begins
<1>5. ASSUME NEW r \in Request, NEW f \in Email, Read(r, f)
      PROVE  Goal
  <2>1. CASE ReadRegister(r, f)
    <3>1. KindOf("register") = k /\ f = e => promised'[k][e] = NoSecret
      BY <2>1, Kinds DEF ReadRegister, Unmailed, TypeOK
    <3> QED
      BY <1>4, <2>1, <3>1 DEF ReadRegister
  <2>2. CASE ReadForgot(r, f)
    <3>1. KindOf("forgotPassword") = k /\ f = e => promised'[k][e] = NoSecret
      BY <2>2, Kinds DEF ReadForgot, Unmailed, TypeOK
    <3> QED
      BY <1>4, <2>2, <3>1 DEF ReadForgot
  <2>3. CASE ReadMicrosoft(r, f)
    <3>1. PICK m \in MicrosoftId, step \in {"link", "answer"} :
            Begin(r, "loginWithMicrosoft", f, step, TRUE, NoSecret, m)
      BY <2>3 DEF ReadMicrosoft
    <3> QED
      BY <1>4, <3>1
  <2>4. CASE \/ ReadVerify(r, f) \/ ReadReset(r, f) \/ ReadTemporary(r, f) \/ ReadLogin(r, f)
    BY <1>4, <2>4 DEF ReadVerify, ReadReset, ReadTemporary, ReadLogin
  <2> QED
    BY <1>5, <2>1, <2>2, <2>3, <2>4 DEF Read
<1>6. ASSUME NEW r \in Request, CreateSecret(r)
      PROVE  Goal
  <2> DEFINE j == KindOf(req[r].op)
             f == req[r].email
  <2>1. j \in Kind /\ f \in Email /\ req[r] # Idle /\ req[r] \in Call
    BY <1>6, Kinds, BusyCall DEF CreateSecret
  <2>2. PICK x \in Secret : /\ rows' = [rows EXCEPT ![j][f] = rows[j][f] \cup {x}]
                            /\ req' = [req EXCEPT ![r].secret = x, ![r].step = "mail"]
    BY <1>6 DEF CreateSecret, RowsWith
  <2> DEFINE c == [req[r] EXCEPT !.secret = x, !.step = "mail"]
  <2>3. c.op = req[r].op /\ c.email = req[r].email /\ c.secret = x
    BY <2>1 DEF Call
  <2>4. req'[q] = IF q = r THEN c ELSE req[q]
    BY <2>1, <2>2 DEF TypeOK, Call
  <2>5. x \in rows'[j][f]
    BY <2>1, <2>2 DEF TypeOK
  <2>6. CASE q = r
    <3> HIDE DEF c
    <3>1. req'[q] = c /\ req[q] # Idle
      BY <2>1, <2>4, <2>6
    <3>2. Mailing(req[q], k, e) /\ j = k /\ f = e
      BY <2>3, <2>6, <3>1 DEF Mailing
    <3> QED
      BY <2>3, <2>5, <3>1, <3>2 DEF Continues
  <2> QED
    BY <1>1, <2>4, <2>6
<1>7. ASSUME NEW r \in Request, Write(r)
      PROVE  Goal
  <2>1. CASE SaveRegister(r) \/ ClearSecrets(r) \/ ReadCode(r) \/ LinkMicrosoft(r)
    BY <1>3, <2>1 DEF SaveRegister, ClearSecrets, ReadCode, LinkMicrosoft, At
  <2>2. CASE \/ MailSecret(r) \/ CommitVerify(r) \/ CommitReset(r) \/ SaveTemporary(r)
             \/ CompareLogin(r) \/ AnswerMicrosoft(r)
    BY <1>2, <2>2 DEF MailSecret, CommitVerify, CommitReset, SaveTemporary,
       CompareLogin, AnswerMicrosoft, IssueSession
  <2> QED
    BY <1>6, <1>7, <2>1, <2>2 DEF Write
<1>8. ASSUME NEW r \in Request, Fail(r)
      PROVE  Goal
  BY <1>2, <1>8 DEF Fail
<1> QED
  <2>1. CASE UNCHANGED req
    BY <1>1, <2>1
  <2>2. \/ UNCHANGED req
        \/ \E r \in Request : Write(r) \/ Fail(r) \/ \E f \in Email : Read(r, f)
    BY DEF Next, ExpireSecret, ExpireAccount, ToggleStatus
  <2> HIDE DEF Goal
  <2> QED
    BY <1>5, <1>7, <1>8, <2>1, <2>2 DEF Goal

\* One kind and account, over a step.
LEMMA MailStep ==
  ASSUME IInv, StepsOK, PairsApart, Next, UsersKept, NEW k \in Kind, NEW e \in Email,
         MailOK(k, e)
  PROVE  MailOK(k, e)'
<1> DEFINE Live(s) == IF k = "code" THEN users'[e].verified \/ s \in rows'[k][e]
                                    ELSE uses'[s] # 0 \/ s \in rows'[k][e]
           There == users'[e] # NoUser
<1>1. ASSUME NEW s \in Secret, Has(e), Alive(k, e, s),
             \A r \in Request : ~(Mailing(req[r], k, e) /\ req[r].step = "clear")
      PROVE  There /\ Live(s)
  BY <1>1, AliveKept DEF Has
\* A secret in a call that is to mail it.
<1>2. ASSUME NEW r \in Request, Mailing(req[r], k, e), req[r].step = "mail"
      PROVE  There /\ req[r].secret \in Secret /\ Live(req[r].secret)
  <2>1. req[r].secret \in Secret /\ Alive(k, e, req[r].secret)
    BY <1>2 DEF MailOK
  <2>2. Has(e)
    BY <1>2 DEF Mailing, IInv, CallsOK, CallOK, Has
  <2>3. \A q \in Request : ~(Mailing(req[q], k, e) /\ req[q].step = "clear")
    BY <1>2, OneMails
  <2> QED
    BY <1>1, <2>1, <2>2, <2>3
<1>3. promised'[k][e] # NoSecret => There /\ Live(promised'[k][e])
  <2> SUFFICES ASSUME promised'[k][e] # NoSecret PROVE There /\ Live(promised'[k][e])
    OBVIOUS
  <2>1. CASE promised'[k][e] = promised[k][e]
    <3> DEFINE s == promised[k][e]
    <3>1. s \in Secret
      BY <2>1 DEF IInv, TypeOK
    <3>2. /\ Has(e) /\ Alive(k, e, s)
          /\ \A r \in Request : ~(Mailing(req[r], k, e) /\ req[r].step = "clear")
      BY <2>1 DEF MailOK
    <3> HIDE DEF s
    <3>3. There /\ Live(s)
      BY <1>1, <3>1, <3>2
    <3> QED
      BY <2>1, <3>3 DEF s
  <2>2. ASSUME NEW r \in Request, Mailing(req[r], k, e), req[r].step = "mail",
               promised'[k][e] = req[r].secret
        PROVE  There /\ Live(promised'[k][e])
    BY <1>2, <2>2
  <2> QED
    BY <2>1, <2>2, PromiseStep
<1>4. ASSUME NEW q \in Request, Mailing(req'[q], k, e)
      PROVE  /\ promised'[k][e] = NoSecret
             /\ req'[q].step = "mail" => req'[q].secret \in Secret /\ Live(req'[q].secret)
  <2>1. CASE Continues(q, k, e)
    <3>1. Mailing(req[q], k, e) /\ promised[k][e] = NoSecret
      BY <2>1 DEF Continues, MailOK
    <3>2. promised'[k][e] = NoSecret
      <4> SUFFICES ASSUME NEW r \in Request, Mailing(req[r], k, e),
                          req' = [req EXCEPT ![r] = Idle]
                   PROVE  FALSE
        BY <3>1, PromiseStep
      <4>1. r = q
        BY <3>1, OneMails
      <4>2. req'[q] = Idle
        BY <4>1 DEF IInv, TypeOK
      <4> QED
        BY <1>4, <4>2 DEF Mailing
    <3>3. CASE req'[q] = req[q]
      BY <1>2, <3>1, <3>2, <3>3
    <3>4. CASE req'[q].secret \in Secret /\ req'[q].secret \in rows'[k][e]
      BY <3>2, <3>4
    <3> QED
      BY <2>1, <3>2, <3>3, <3>4 DEF Continues
  <2>2. CASE Begins(q, k, e)
    BY <2>2 DEF Begins
  <2> QED
    BY <1>4, <2>1, <2>2, MailingStep
<1> QED
  BY <1>3, <1>4 DEF MailOK, Has, Alive

\* Every step keeps what makes the last mail of an address work.
LEMMA MailInvStep == IInv /\ ApartInv /\ MailInv /\ [Next]_vars => MailInv'
<1>1. CASE UNCHANGED vars
  BY <1>1 DEF vars, MailInv, StepsOK, MailOK, Alive, Has
<1>2. ASSUME IInv, ApartInv, MailInv, Next
      PROVE  MailInv'
  <2>1. UsersKept
    BY <1>2, UsersStep
  <2>2. StepsOK'
    BY <1>2, StepsStep DEF MailInv
  <2>3. UNCHANGED apart
    BY <1>2, ApartKept
  <2>4. ASSUME apart, NEW k \in Kind, NEW e \in Email
        PROVE  MailOK(k, e)'
    BY <1>2, <2>1, <2>4, MailStep DEF MailInv, ApartInv
  <2> QED
    BY <2>2, <2>3, <2>4 DEF MailInv
<1> QED
  BY <1>1, <1>2

\* What the last mail says works, unless two requests for a secret of one
\* account overlap (register, forgotPassword: the rows are deleted, one is
\* created and mailed in three steps that other requests come between).
THEOREM MailTellsTheTruth == Spec => []LastMailWorks
<1>1. MailInv => LastMailWorks
  BY Kinds DEF MailInv, MailOK, Alive, LastMailWorks
<1> QED
  BY <1>1, InitApart, ApartStep, InitMail, MailInvStep, Invariant, PTL DEF Spec
=============================================================================
