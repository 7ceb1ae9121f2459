----------------------------- MODULE RolesProofs -----------------------------
(***************************************************************************)
(* Roles, for any number of accounts and requests and any time.  Of what a *)
(* request read of an account only as much is still true when it writes as *)
(* no request that changes the account can undo: everything when those are *)
(* kept apart (ApartInv), and otherwise that roles only ever fall back to  *)
(* the buyer's.                                                            *)
(***************************************************************************)
EXTENDS Roles, TLAPS

\* Whatever overlaps: the end of a role is the one it was given with, or it
\* is gone; and the role of an account is one it has had.
Sane ==
  \A u \in User :
    /\ role[u] \in {given[u].role, "comprador"}
    /\ until[u] \in {Never, given[u].until}
    /\ until[u] = Never /\ given[u].until # Never => role[u] = "comprador"
    /\ role[u] \in held[u]

\* An answer on its way was let through with a role its account has had.
LetIn(r) ==
  At(r, "answer") => /\ req[r].as \in held[req[r].user]
                     /\ LetsThrough(req[r].view, req[r].as)

Entered == \A r \in Request : LetIn(r)

\* No two requests are about one account.
PairsApart ==
  \A q, r \in Request, u \in User : q # r => ~(Concerns(q, u) /\ Concerns(r, u))

\* An assignment whose time is not over stands.
Stands ==
  \A u \in User : given[u].until = Never \/ now < given[u].until =>
    role[u] = given[u].role /\ until[u] = given[u].until

\* What a request is about to write is still right.
StillRight(r) ==
  /\ At(r, "revert") =>
       given[req[r].user].until # Never /\ given[req[r].user].until <= now
  /\ At(r, "run") /\ req[r].change.op = "toggleStatus" =>
       /\ role[req[r].user] = "admin" /\ req[r].user \in active
       /\ req[r].target = req[r].user => req[r].change.isActive
  /\ At(r, "answer") => req[r].as = role[req[r].user]

ApartInv == apart => PairsApart /\ Stands /\ \A r \in Request : StillRight(r)

IInv == TypeOK /\ Sane /\ Entered /\ ApartInv

-----------------------------------------------------------------------------
(* Calls.                                                                  *)

\* The invariant holds before any request.
LEMMA InitInv == Init => IInv
<1> USE DEF Init, Role, Time, Never
<1>1. ASSUME Init
      PROVE  TypeOK
  <2>1. 1 \in Time /\ 1 \in 1..MaxTime
    BY TimeAssumption
  <2>2. ends \in [User -> {Never} \cup Time] /\ until \in [User -> {Never} \cup Time]
    BY <1>1, <2>1
  <2>3. given \in [User -> [role : Role, until : {Never} \cup Time]]
    BY <1>1
  <2>4. held \in [User -> SUBSET Role] /\ req \in [Request -> Call \cup {Idle}]
    BY <1>1
  <2> QED
    BY <1>1, <2>1, <2>2, <2>3, <2>4 DEF TypeOK
<1>2. Init => Sane /\ Entered
  BY DEF Sane, Entered, LetIn, At
<1>3. Init => ApartInv
  BY DEF ApartInv, PairsApart, Concerns, Stands, StillRight, At
<1> QED
  BY <1>1, <1>2, <1>3 DEF IInv

\* A busy slot works for a user; one that runs has a target and a change, one
\* that answers a view and the role it was read with.
LEMMA BusyCall ==
  ASSUME TypeOK, NEW r \in Request, req[r] # Idle
  PROVE  /\ req[r] \in Call /\ req[r].user \in User
         /\ req[r].step \in {"validate", "revert", "run", "answer"}
         /\ req[r].step = "run" => req[r].target \in User /\ req[r].change \in Change
         /\ req[r].step = "answer" => req[r].view \in Views /\ req[r].as \in Role
BY DEF TypeOK, Call

\* The change of each operation.
LEMMA ChangeOf ==
  ASSUME NEW c \in Change
  PROVE  /\ c.op = "reassignRole" => c.role \in Role /\ c.until \in Time
         /\ c.op = "toggleStatus" => c.isActive \in BOOLEAN
         /\ c.op \in {"reassignRole", "toggleStatus"}
BY DEF Change, ROTATABLE_ROLES, Role

\* One slot goes on.
LEMMA SlotMoved ==
  ASSUME TypeOK, NEW r \in Request, NEW c \in Call \cup {Idle},
         req' = [req EXCEPT ![r] = c]
  PROVE  /\ req' \in [Request -> Call \cup {Idle}]
         /\ \A q \in Request : req'[q] = IF q = r THEN c ELSE req[q]
BY DEF TypeOK

\* A call that goes to another step without a target.
LEMMA StepMoved ==
  ASSUME TypeOK, NEW r \in Request, req[r] # Idle, req[r].step \in {"validate", "revert"},
         NEW s \in {"validate", "revert"}, req' = [req EXCEPT ![r].step = s]
  PROVE  \E c \in Call : /\ req' = [req EXCEPT ![r] = c]
                         /\ c.user = req[r].user /\ c.step = s
<1>1. req[r] \in [user : User, step : {"validate", "revert"}]
  BY BusyCall DEF Call
<1> DEFINE c == [req[r] EXCEPT !.step = s]
<1>2. c \in Call /\ c.user = req[r].user /\ c.step = s
  BY <1>1 DEF Call
<1>3. req' = [req EXCEPT ![r] = c]
  OBVIOUS
<1> HIDE DEF c
<1> QED
  BY <1>2, <1>3

-----------------------------------------------------------------------------
(* Types, and what holds whatever overlaps.                                *)

\* A step leaves the types, the end of roles and the answers in order.
Fine == TypeOK' /\ Sane' /\ Entered'

\* No account forgets a role it had.
Grows == \A u \in User : held[u] \subseteq held'[u]

\* The answers on their way keep their right when one slot moves to a call that
\* is none, or was rightly let through.
LEMMA EnteredKept ==
  ASSUME TypeOK, Entered, Grows, NEW r \in Request, NEW c \in Call \cup {Idle},
         req' = [req EXCEPT ![r] = c],
         c # Idle /\ c.step = "answer" =>
           c.user \in User /\ c.as \in held[c.user] /\ LetsThrough(c.view, c.as)
  PROVE  Entered'
<1>1. \A q \in Request : req'[q] = IF q = r THEN c ELSE req[q]
  BY SlotMoved
<1>2. ASSUME NEW q \in Request
      PROVE  LetIn(q)'
  <2>1. CASE q = r
    BY <1>1, <2>1 DEF LetIn, At, LetsThrough, Grows
  <2>2. CASE q # r
    <3>1. req'[q] = req[q] /\ LetIn(q)
      BY <1>1, <2>2 DEF Entered
    <3>2. req[q] # Idle => req[q].user \in User
      BY BusyCall
    <3> QED
      BY <3>1, <3>2 DEF LetIn, At, LetsThrough, Grows
  <2> QED
    BY <2>1, <2>2
<1> QED
  BY <1>2 DEF Entered

\* Steps that only move a call.
LEMMA CallFine ==
  ASSUME TypeOK, Sane, Entered, UNCHANGED <<now, accounts, apart>>,
         NEW r \in Request, NEW c \in Call \cup {Idle}, req' = [req EXCEPT ![r] = c],
         c # Idle /\ c.step = "answer" =>
           c.user \in User /\ c.as \in held[c.user] /\ LetsThrough(c.view, c.as)
  PROVE  Fine
<1>1. req' \in [Request -> Call \cup {Idle}]
  BY SlotMoved
<1>2. TypeOK' /\ Sane'
  BY <1>1 DEF accounts, TypeOK, Sane
<1>3. Grows
  BY DEF Grows, accounts
<1>4. Entered'
  BY <1>3, EnteredKept
<1> QED
  BY <1>2, <1>4 DEF Fine

\* The return of an expired role.
LEMMA RevertFine ==
  ASSUME TypeOK, Sane, Entered, NEW r \in Request, RevertRole(r)
  PROVE  Fine
<1> DEFINE u == req[r].user
<1>1. req[r] # Idle /\ req[r].step = "revert" /\ u \in User
  BY BusyCall DEF RevertRole, At
<1>2. PICK c \in Call : req' = [req EXCEPT ![r] = c] /\ c.step = "validate"
  BY <1>1, StepMoved DEF RevertRole
<1>3. req' \in [Request -> Call \cup {Idle}]
  BY <1>2, SlotMoved
<1>4. /\ role' = [role EXCEPT ![u] = "comprador"] /\ until' = [until EXCEPT ![u] = Never]
      /\ held' = [held EXCEPT ![u] = held[u] \cup {"comprador"}]
      /\ UNCHANGED <<now, ends, active, given, apart>>
  BY DEF RevertRole, RoleAfterRevert, TermAfterRevert
<1> HIDE DEF u
<1>5. TypeOK'
  BY <1>1, <1>3, <1>4 DEF TypeOK, Role
<1>6. \A x \in User : /\ role'[x] = IF x = u THEN "comprador" ELSE role[x]
                      /\ until'[x] = IF x = u THEN Never ELSE until[x]
                      /\ held'[x] = IF x = u THEN held[x] \cup {"comprador"} ELSE held[x]
  BY <1>1, <1>4 DEF TypeOK
<1>7. Sane'
  BY <1>1, <1>4, <1>6 DEF Sane
<1>8. Grows
  BY <1>6 DEF Grows
<1>9. Entered'
  BY <1>2, <1>8, EnteredKept
<1> QED
  BY <1>5, <1>7, <1>9 DEF Fine

\* An assignment.
LEMMA ReassignFine ==
  ASSUME TypeOK, Sane, Entered, NEW r \in Request, ReassignRole(r)
  PROVE  Fine
<1> DEFINE t == req[r].target
           ro == req[r].change.role
           un == req[r].change.until
<1>1. t \in User /\ ro \in Role /\ un \in Time
  BY BusyCall, ChangeOf DEF ReassignRole, At
<1>2. req' = [req EXCEPT ![r] = Idle] /\ req' \in [Request -> Call \cup {Idle}]
  BY SlotMoved DEF ReassignRole, End
<1>3. /\ role' = [role EXCEPT ![t] = ro] /\ until' = [until EXCEPT ![t] = un]
      /\ given' = [given EXCEPT ![t] = [role |-> ro, until |-> un]]
      /\ held' = [held EXCEPT ![t] = held[t] \cup {ro}]
      /\ UNCHANGED <<now, ends, active, apart>>
  BY DEF ReassignRole
<1> HIDE DEF t, ro, un
<1>4. TypeOK'
  BY <1>1, <1>2, <1>3 DEF TypeOK
<1>5. un # Never
  BY <1>1, TimeAssumption DEF Time, Never
<1>6. \A u \in User : /\ role'[u] = IF u = t THEN ro ELSE role[u]
                      /\ until'[u] = IF u = t THEN un ELSE until[u]
                      /\ given'[u] = IF u = t THEN [role |-> ro, until |-> un] ELSE given[u]
                      /\ held'[u] = IF u = t THEN held[u] \cup {ro} ELSE held[u]
  BY <1>1, <1>3 DEF TypeOK
<1>7. Sane'
  BY <1>1, <1>3, <1>5, <1>6 DEF Sane
<1>8. Grows
  BY <1>6 DEF Grows
<1>9. Entered'
  BY <1>2, <1>8, EnteredKept
<1> QED
  BY <1>4, <1>7, <1>9 DEF Fine

\* Whom an answer shows the buyer, by operation.
LEMMA ShownToThoseInCharge ==
  ASSUME NEW op \in Views, NEW u \in User, NEW ro \in Role,
         LetsThrough(op, ro), Shown(op, u, ro)
  PROVE  u = Buyer \/ ro \in InCharge(op)
<1> USE DEF LetsThrough, Required, ROLE_PERMISSION_MATRIX, Permissions, Views, Op,
            Role, InCharge, Shown, Has
<1>1. CASE op = "findOrders"
  BY <1>1 DEF serializeOrderFull, serializeOrderSafe
<1>2. CASE op = "findByRecipientName"
  BY <1>2 DEF serializeOrderSafe
<1>3. CASE op = "findOrdersMessage"
  BY <1>3
<1>4. CASE op = "findMyDeliveries"
  BY <1>4 DEF serializeOrderSafe
<1>5. CASE op = "findMine"
  BY <1>5
<1>6. CASE op = "findOne"
  BY <1>6 DEF OneForUser, serializeOrderFull, serializeOrderSafe
<1>7. CASE op = "verifyPaymentGroup"
  BY <1>7
<1>8. CASE op = "notifyTeams"
  BY <1>8
<1>9. CASE op \in {"draw", "drawHistory"}
  <2>1. Required[op] = {"raffle:draw_winner"}
    BY <1>9
  <2> HIDE DEF Required, ROLE_PERMISSION_MATRIX
  <2>2. "raffle:draw_winner" \in ROLE_PERMISSION_MATRIX[ro]
    BY <2>1
  <2>3. ro = "admin"
    BY <2>2 DEF ROLE_PERMISSION_MATRIX
  <2> QED
    BY <2>3
<1> QED
  BY <1>1, <1>2, <1>3, <1>4, <1>5, <1>6, <1>7, <1>8, <1>9

\* A request for a view knows with which role it was let through.
LEMMA BeginViewIs ==
  ASSUME TypeOK, NEW r \in Request, BeginView(r)
  PROVE  \E op \in Views :
           LET c == [user |-> req[r].user, step |-> "answer", view |-> op,
                     as |-> role[req[r].user]] IN
           /\ c \in Call /\ req' = [req EXCEPT ![r] = c]
           /\ LetsThrough(op, role[req[r].user])
<1> DEFINE u == req[r].user
<1>1. u \in User /\ role[u] \in Role
  BY BusyCall DEF BeginView, At, TypeOK
<1>2. PICK op \in Views :
           /\ LetsThrough(op, role[u])
           /\ req' = [req EXCEPT ![r] =
                [user |-> u, step |-> "answer", view |-> op, as |-> role[u]]]
  BY DEF BeginView
<1>3. [user |-> u, step |-> "answer", view |-> op, as |-> role[u]] \in Call
  BY <1>1 DEF Call
<1> QED
  BY <1>2, <1>3

\* A request that begins to change an account knows what it will write.
LEMMA BeginChangeIs ==
  ASSUME TypeOK, NEW r \in Request, BeginChange(r)
  PROVE  \E t \in User, x \in Change :
           LET c == [user |-> req[r].user, step |-> "run", target |-> t, change |-> x] IN
           /\ c \in Call /\ req' = [req EXCEPT ![r] = c]
           /\ x \in Changes(req[r].user, t) /\ LetsThrough(x.op, role[req[r].user])
           /\ apart /\ t # req[r].user => \A q \in Request \ {r} : ~Concerns(q, t)
<1> DEFINE u == req[r].user
<1>1. u \in User
  BY BusyCall DEF BeginChange, At
<1>2. PICK t \in User : \E x \in Changes(u, t) :
           /\ LetsThrough(x.op, role[u])
           /\ apart /\ t # u => \A q \in Request \ {r} : ~Concerns(q, t)
           /\ req' = [req EXCEPT ![r] =
                [user |-> u, step |-> "run", target |-> t, change |-> x]]
  BY DEF BeginChange
<1>3. PICK x \in Changes(u, t) :
           /\ LetsThrough(x.op, role[u])
           /\ apart /\ t # u => \A q \in Request \ {r} : ~Concerns(q, t)
           /\ req' = [req EXCEPT ![r] =
                [user |-> u, step |-> "run", target |-> t, change |-> x]]
  BY <1>2
<1>4. x \in Change
  BY DEF Changes
<1>5. [user |-> u, step |-> "run", target |-> t, change |-> x] \in Call
  BY <1>1, <1>4 DEF Call
<1> QED
  BY <1>3, <1>4, <1>5

\* Nor any step.
LEMMA NextFine ==
  ASSUME TypeOK, Sane, Entered, Next
  PROVE  Fine
<1>1. ASSUME NEW r \in Request, Arrive(r)
      PROVE  Fine
  <2>1. PICK u \in User : req' = [req EXCEPT ![r] = [user |-> u, step |-> "validate"]]
    BY <1>1 DEF Arrive
  <2> DEFINE c == [user |-> u, step |-> "validate"]
  <2>2. c \in Call /\ c.step # "answer" /\ req' = [req EXCEPT ![r] = c]
    BY <2>1 DEF Call
  <2>3. UNCHANGED <<now, accounts, apart>>
    BY <1>1 DEF Arrive
  <2> HIDE DEF c
  <2> QED
    BY <2>2, <2>3, CallFine
<1>2. ASSUME NEW r \in Request, Unauthorized(r) \/ Forbidden(r) \/ AnswerView(r)
      PROVE  Fine
  BY <1>2, CallFine DEF Unauthorized, Forbidden, AnswerView, End
<1>3. ASSUME NEW r \in Request, FindExpired(r)
      PROVE  Fine
  <2>1. PICK c \in Call : req' = [req EXCEPT ![r] = c] /\ c.step = "revert"
    BY <1>3, StepMoved DEF FindExpired, At
  <2> QED
    BY <1>3, <2>1, CallFine DEF FindExpired
<1>4. ASSUME NEW r \in Request, BeginChange(r)
      PROVE  Fine
  <2>1. PICK c \in Call : req' = [req EXCEPT ![r] = c] /\ c.step = "run"
    BY <1>4, BeginChangeIs
  <2> QED
    BY <1>4, <2>1, CallFine DEF BeginChange
<1>5. ASSUME NEW r \in Request, ToggleStatus(r)
      PROVE  Fine
  <2>1. req[r].target \in User
    BY <1>5, BusyCall DEF ToggleStatus, At
  <2>2. req' = [req EXCEPT ![r] = Idle] /\ req' \in [Request -> Call \cup {Idle}]
    BY <1>5, SlotMoved DEF ToggleStatus, End
  <2>3. Grows
    BY <1>5 DEF ToggleStatus, Grows
  <2>4. Entered'
    BY <2>2, <2>3, EnteredKept
  <2> QED
    BY <1>5, <2>1, <2>2, <2>4 DEF ToggleStatus, Fine, TypeOK, Sane
<1>6. CASE Tick
  <2>1. TypeOK' /\ Sane'
    BY <1>6, TimeAssumption DEF Tick, accounts, TypeOK, Sane
  <2>2. Entered'
    BY <1>6 DEF Tick, accounts, Entered, LetIn, At, LetsThrough
  <2> QED
    BY <2>1, <2>2 DEF Fine
<1>7. ASSUME NEW r \in Request, BeginView(r)
      PROVE  Fine
  <2>1. UNCHANGED <<now, accounts, apart>>
    BY <1>7 DEF BeginView
  <2>2. req[r].user \in User
    BY <1>7, BusyCall DEF BeginView, At
  <2>3. PICK op \in Views :
           LET c == [user |-> req[r].user, step |-> "answer", view |-> op,
                     as |-> role[req[r].user]] IN
           /\ c \in Call /\ req' = [req EXCEPT ![r] = c]
           /\ LetsThrough(op, role[req[r].user])
    BY <1>7, BeginViewIs
  <2>4. PICK c \in Call : /\ req' = [req EXCEPT ![r] = c]
                          /\ c.user = req[r].user /\ c.as = role[req[r].user]
                          /\ LetsThrough(c.view, c.as)
    BY <2>3
  <2>5. c.user \in User /\ c.as \in held[c.user]
    BY <2>2, <2>4 DEF Sane
  <2> QED
    BY <2>1, <2>4, <2>5, CallFine
<1> QED
  BY <1>1, <1>2, <1>3, <1>4, <1>5, <1>6, <1>7, RevertFine, ReassignFine
  DEF Next, Progress

-----------------------------------------------------------------------------
(* What holds when requests about one account are kept apart.              *)

\* A call that ends, or goes on without a target, is about no other account.
LEMMA PairsShrink ==
  ASSUME TypeOK, PairsApart, NEW r \in Request, NEW c \in Call \cup {Idle},
         req' = [req EXCEPT ![r] = c],
         c # Idle => req[r] # Idle /\ c.user = req[r].user /\ c.step # "run"
  PROVE  PairsApart'
<1>1. \A q \in Request : req'[q] = IF q = r THEN c ELSE req[q]
  BY SlotMoved
<1>2. \A q \in Request, u \in User : Concerns(q, u)' => Concerns(q, u)
  BY <1>1 DEF Concerns
<1> QED
  BY <1>2 DEF PairsApart

\* A step about other accounts leaves a call right.
LEMMA RightStays ==
  ASSUME TypeOK, TypeOK', NEW q \in Request, StillRight(q), req'[q] = req[q], now <= now',
         req[q] # Idle =>
           /\ given'[req[q].user] = given[req[q].user]
           /\ role'[req[q].user] = role[req[q].user]
           /\ req[q].user \in active => req[q].user \in active'
  PROVE  StillRight(q)'
<1>1. now \in Nat /\ now' \in Nat
  BY TimeAssumption DEF TypeOK
<1>2. ASSUME req[q] # Idle
      PROVE  given[req[q].user].until \in Nat
  BY <1>2, BusyCall, TimeAssumption DEF TypeOK, Time, Never
<1> QED
  BY <1>1, <1>2 DEF StillRight, At

\* The accounts stay and one call moves.
LEMMA ApartCall ==
  ASSUME TypeOK, TypeOK', PairsApart', Stands, \A q \in Request : StillRight(q),
         UNCHANGED <<now, accounts>>,
         NEW r \in Request, NEW c \in Call \cup {Idle}, req' = [req EXCEPT ![r] = c],
         StillRight(r)'
  PROVE  ApartInv'
<1>1. \A q \in Request : q # r => req'[q] = req[q]
  BY SlotMoved
<1>2. now <= now'
  BY TimeAssumption DEF TypeOK
<1>3. \A q \in Request : StillRight(q)'
  BY <1>1, <1>2, RightStays DEF accounts
<1> QED
  BY <1>3 DEF ApartInv, Stands, accounts

\* Requests that are kept apart work on different accounts.
LEMMA NoTarget ==
  ASSUME TypeOK, PairsApart, NEW r \in Request, req[r] # Idle, NEW q \in Request, q # r,
         req[q] # Idle
  PROVE  /\ req[q].user # req[r].user
         /\ req[r].step = "run" => req[q].user # req[r].target
BY BusyCall DEF PairsApart, Concerns

\* The return of a role overwrites no newer assignment.
LEMMA ApartRevert ==
  ASSUME TypeOK, TypeOK', Sane, PairsApart, Stands, \A q \in Request : StillRight(q),
         NEW r \in Request, RevertRole(r)
  PROVE  ApartInv'
<1> DEFINE u == req[r].user
<1>1. req[r] # Idle /\ req[r].step = "revert" /\ u \in User
  BY BusyCall DEF RevertRole, At
<1>2. PICK c \in Call : /\ req' = [req EXCEPT ![r] = c]
                        /\ c.user = u /\ c.step = "validate"
  BY <1>1, StepMoved DEF RevertRole
<1>3. \A q \in Request : req'[q] = IF q = r THEN c ELSE req[q]
  BY <1>2, SlotMoved
<1>4. PairsApart'
  BY <1>1, <1>2, PairsShrink
<1>5. given[u].until # Never /\ given[u].until <= now
  BY <1>1 DEF StillRight, At
<1>6. /\ \A x \in User : x # u => role'[x] = role[x] /\ until'[x] = until[x]
      /\ UNCHANGED <<now, active, given>>
  BY DEF RevertRole, TypeOK
<1>7. now \in Nat /\ given[u].until \in Nat
  BY <1>1, TimeAssumption DEF TypeOK, Time, Never
<1>8. Stands'
  BY <1>5, <1>6, <1>7 DEF Stands
<1>9. ASSUME NEW q \in Request
      PROVE  StillRight(q)'
  <2>1. CASE q = r
    BY <1>2, <1>3, <2>1 DEF StillRight, At
  <2>2. CASE q # r
    <3>1. req[q] # Idle => req[q].user # u /\ req[q].user \in User
      BY <1>1, <2>2, NoTarget, BusyCall
    <3> QED
      BY <1>3, <1>6, <1>7, <2>2, <3>1, RightStays
  <2> QED
    BY <2>1, <2>2
<1> QED
  BY <1>4, <1>8, <1>9 DEF ApartInv

\* Nor does an assignment, of another account.
LEMMA ApartReassign ==
  ASSUME TypeOK, TypeOK', PairsApart, Stands, \A q \in Request : StillRight(q),
         NEW r \in Request, ReassignRole(r)
  PROVE  ApartInv'
<1> DEFINE t == req[r].target
<1>1. req[r] # Idle /\ req[r].step = "run" /\ t \in User
  BY BusyCall DEF ReassignRole, At
<1>2. req' = [req EXCEPT ![r] = Idle]
  BY DEF ReassignRole, End
<1>3. \A q \in Request : req'[q] = IF q = r THEN Idle ELSE req[q]
  BY <1>2, SlotMoved
<1>4. PairsApart'
  BY <1>2, PairsShrink
<1>5. /\ \A x \in User : x # t =>
           role'[x] = role[x] /\ until'[x] = until[x] /\ given'[x] = given[x]
      /\ given'[t].role = role'[t] /\ given'[t].until = until'[t]
      /\ UNCHANGED <<now, active>>
  BY <1>1 DEF ReassignRole, TypeOK
<1>6. Stands'
  BY <1>5 DEF Stands
<1>7. ASSUME NEW q \in Request
      PROVE  StillRight(q)'
  <2>1. CASE q = r
    BY <1>3, <2>1 DEF StillRight, At
  <2>2. CASE q # r
    <3>1. req[q] # Idle => req[q].user # t /\ req[q].user \in User
      BY <1>1, <2>2, NoTarget, BusyCall
    <3>2. now \in Nat
      BY TimeAssumption DEF TypeOK
    <3> QED
      BY <1>3, <1>5, <2>2, <3>1, <3>2, RightStays
  <2> QED
    BY <2>1, <2>2
<1> QED
  BY <1>4, <1>6, <1>7 DEF ApartInv

\* Nor does switching an account.
LEMMA ApartToggle ==
  ASSUME TypeOK, TypeOK', PairsApart, Stands, \A q \in Request : StillRight(q),
         NEW r \in Request, ToggleStatus(r)
  PROVE  ApartInv'
<1> DEFINE t == req[r].target
<1>1. req[r] # Idle /\ req[r].step = "run" /\ t \in User
  BY BusyCall DEF ToggleStatus, At
<1>2. req' = [req EXCEPT ![r] = Idle]
  BY DEF ToggleStatus, End
<1>3. \A q \in Request : req'[q] = IF q = r THEN Idle ELSE req[q]
  BY <1>2, SlotMoved
<1>4. PairsApart'
  BY <1>2, PairsShrink
<1>5. /\ \A x \in User : x # t /\ x \in active => x \in active'
      /\ UNCHANGED <<now, role, until, given>>
  BY DEF ToggleStatus
<1>6. Stands'
  BY <1>5 DEF Stands
<1>7. ASSUME NEW q \in Request
      PROVE  StillRight(q)'
  <2>1. CASE q = r
    BY <1>3, <2>1 DEF StillRight, At
  <2>2. CASE q # r
    <3>1. req[q] # Idle => req[q].user # t /\ req[q].user \in User
      BY <1>1, <2>2, NoTarget, BusyCall
    <3>2. now \in Nat
      BY TimeAssumption DEF TypeOK
    <3> QED
      BY <1>3, <1>5, <2>2, <3>1, <3>2, RightStays
  <2> QED
    BY <2>1, <2>2
<1> QED
  BY <1>4, <1>6, <1>7 DEF ApartInv

\* A change that begins finds its account to itself.
LEMMA ApartBegin ==
  ASSUME TypeOK, TypeOK', apart, PairsApart, Stands, \A q \in Request : StillRight(q),
         NEW r \in Request, BeginChange(r)
  PROVE  ApartInv'
<1> DEFINE u == req[r].user
<1>1. req[r] # Idle /\ u \in User /\ role[u] \in Role /\ u \in active
  BY BusyCall DEF BeginChange, At, Current, Accepted, TypeOK
<1>2. PICK t \in User, x \in Change :
        LET c == [user |-> u, step |-> "run", target |-> t, change |-> x] IN
        /\ c \in Call /\ req' = [req EXCEPT ![r] = c]
        /\ x \in Changes(u, t) /\ LetsThrough(x.op, role[u])
        /\ apart /\ t # u => \A q \in Request \ {r} : ~Concerns(q, t)
  BY BeginChangeIs
<1> DEFINE c == [user |-> u, step |-> "run", target |-> t, change |-> x]
<1>3. c \in Call /\ req' = [req EXCEPT ![r] = c]
  BY <1>2
<1>4. c.user = u /\ c.step = "run" /\ c.target = t /\ c.change = x
  OBVIOUS
<1> HIDE DEF c
<1>5. \A q \in Request : req'[q] = IF q = r THEN c ELSE req[q]
  BY <1>3, SlotMoved
<1>6. PairsApart'
  <2>1. \A q \in Request, v \in User :
          Concerns(q, v)' => Concerns(q, v) \/ (q = r /\ v \in {u, t})
    BY <1>4, <1>5 DEF Concerns
  <2>2. \A q \in Request \ {r} : ~Concerns(q, u) /\ ~Concerns(q, t)
    BY <1>1, <1>2 DEF PairsApart, Concerns
  <2> QED
    BY <2>1, <2>2 DEF PairsApart
<1>7. x.op = "toggleStatus" => role[u] = "admin"
  <2>1. ASSUME x.op = "toggleStatus"
        PROVE  role[u] = "admin"
    <3>1. x.op \in Op /\ Required[x.op] = {"users:manage_roles"}
      BY <2>1 DEF Op, Required
    <3>2. "users:manage_roles" \in ROLE_PERMISSION_MATRIX[role[u]]
      BY <1>2, <3>1 DEF LetsThrough
    <3> QED
      BY <1>1, <3>2 DEF ROLE_PERMISSION_MATRIX, Role
  <2> QED
    BY <2>1
<1>8. x.op = "toggleStatus" /\ t = u => x.isActive
  BY <1>2 DEF Changes, MaySwitch
<1>9. UNCHANGED <<now, accounts>>
  BY DEF BeginChange
<1>10. StillRight(r)'
  BY <1>1, <1>4, <1>5, <1>7, <1>8, <1>9 DEF StillRight, At, accounts
<1> QED
  BY <1>3, <1>6, <1>9, <1>10, ApartCall

\* Every step keeps the requests apart and the assignments standing.
LEMMA ApartStep ==
  ASSUME TypeOK, TypeOK', Sane, apart, PairsApart, Stands, \A q \in Request : StillRight(q),
         Next
  PROVE  ApartInv'
<1>1. ASSUME NEW r \in Request, Arrive(r)
      PROVE  ApartInv'
  <2>1. PICK u \in User : /\ apart => \A q \in Request : ~Concerns(q, u)
                          /\ req' = [req EXCEPT ![r] = [user |-> u, step |-> "validate"]]
    BY <1>1 DEF Arrive
  <2> DEFINE c == [user |-> u, step |-> "validate"]
  <2>2. c \in Call /\ req' = [req EXCEPT ![r] = c] /\ c.user = u /\ c.step = "validate"
    BY <2>1 DEF Call
  <2> HIDE DEF c
  <2>3. \A q \in Request : req'[q] = IF q = r THEN c ELSE req[q]
    BY <2>2, SlotMoved
  <2>4. PairsApart'
    BY <2>1, <2>2, <2>3 DEF PairsApart, Concerns
  <2>5. StillRight(r)'
    BY <2>2, <2>3 DEF StillRight, At
  <2> QED
    BY <1>1, <2>2, <2>4, <2>5, ApartCall DEF Arrive
<1>2. ASSUME NEW r \in Request, Unauthorized(r) \/ Forbidden(r) \/ AnswerView(r)
      PROVE  ApartInv'
  <2>1. req' = [req EXCEPT ![r] = Idle] /\ UNCHANGED <<now, accounts>>
    BY <1>2 DEF Unauthorized, Forbidden, AnswerView, End
  <2>2. PairsApart'
    BY <2>1, PairsShrink
  <2>3. StillRight(r)'
    BY <2>1 DEF StillRight, At, TypeOK
  <2> QED
    BY <2>1, <2>2, <2>3, ApartCall
<1>3. ASSUME NEW r \in Request, FindExpired(r)
      PROVE  ApartInv'
  <2> DEFINE u == req[r].user
  <2>1. req[r] # Idle /\ req[r].step = "validate" /\ u \in User
    BY <1>3, BusyCall DEF FindExpired, At
  <2>2. PICK c \in Call : /\ req' = [req EXCEPT ![r] = c]
                          /\ c.user = u /\ c.step = "revert"
    BY <1>3, <2>1, StepMoved DEF FindExpired
  <2>3. PairsApart'
    BY <2>1, <2>2, PairsShrink
  <2>4. until[u] = given[u].until /\ given[u].until # Never /\ given[u].until <= now
    BY <1>3, <2>1 DEF FindExpired, RoleOver, Sane
  <2>5. StillRight(r)'
    BY <1>3, <2>1, <2>2, <2>4 DEF FindExpired, StillRight, At, TypeOK, accounts
  <2> QED
    BY <1>3, <2>2, <2>3, <2>5, ApartCall DEF FindExpired
<1>4. ASSUME NEW r \in Request, BeginView(r)
      PROVE  ApartInv'
  <2>1. req[r] # Idle /\ UNCHANGED <<now, accounts>>
    BY <1>4 DEF BeginView, At
  <2>2. PICK op \in Views :
           LET c == [user |-> req[r].user, step |-> "answer", view |-> op,
                     as |-> role[req[r].user]] IN
           /\ c \in Call /\ req' = [req EXCEPT ![r] = c]
           /\ LetsThrough(op, role[req[r].user])
    BY <1>4, BeginViewIs
  <2>3. PICK c \in Call : /\ req' = [req EXCEPT ![r] = c] /\ c.step = "answer"
                          /\ c.user = req[r].user /\ c.as = role[req[r].user]
    BY <2>2
  <2>4. req'[r] = c
    BY <2>3, SlotMoved
  <2>5. PairsApart'
    BY <2>1, <2>3, PairsShrink
  <2>6. StillRight(r)'
    BY <2>1, <2>3, <2>4 DEF StillRight, At, accounts
  <2> QED
    BY <2>1, <2>3, <2>5, <2>6, ApartCall
<1>5. CASE Tick
  <2>1. UNCHANGED <<accounts, req>> /\ now' = now + 1 /\ now \in Nat
    BY <1>5, TimeAssumption DEF Tick, TypeOK
  <2>2. PairsApart'
    BY <2>1 DEF PairsApart, Concerns
  <2>3. Stands'
    <3>1. \A u \in User : given[u].until \in Nat
      BY TimeAssumption DEF TypeOK, Time, Never
    <3> QED
      BY <2>1, <3>1 DEF Stands, accounts
  <2>4. \A q \in Request : StillRight(q)'
    BY <2>1, RightStays DEF accounts
  <2> QED
    BY <2>2, <2>3, <2>4 DEF ApartInv
<1> QED
  BY <1>1, <1>2, <1>3, <1>4, <1>5, ApartRevert, ApartReassign, ApartToggle, ApartBegin
  DEF Next, Progress

\* Whether requests are kept apart is chosen once.
LEMMA ApartKept == TypeOK /\ Next => UNCHANGED apart
BY DEF Next, Progress, Tick, Arrive, Unauthorized, FindExpired, RevertRole, Forbidden,
  BeginChange, ReassignRole, ToggleStatus, BeginView, AnswerView

\* Every step keeps the invariant.
LEMMA NextInv == IInv /\ [Next]_vars => IInv'
<1>1. CASE UNCHANGED vars
  BY <1>1 DEF vars, accounts, IInv, TypeOK, Sane, Entered, LetIn, LetsThrough, ApartInv,
     PairsApart, Concerns, Stands, StillRight, At
<1>2. ASSUME IInv, Next
      PROVE  IInv'
  <2>1. TypeOK' /\ Sane' /\ Entered'
    BY <1>2, NextFine DEF IInv, Fine
  <2>2. apart' = apart
    BY <1>2, ApartKept DEF IInv
  <2>3. CASE apart
    BY <1>2, <2>1, <2>3, ApartStep DEF IInv, ApartInv
  <2>4. CASE ~apart
    BY <2>1, <2>2, <2>4 DEF IInv, ApartInv
  <2> QED
    BY <2>1, <2>3, <2>4 DEF IInv
<1> QED
  BY <1>1, <1>2

-----------------------------------------------------------------------------
(* Theorems.                                                               *)

\* The invariant holds of every behaviour.
THEOREM Invariant == Spec => []IInv
BY InitInv, NextInv, PTL DEF Spec

\* The state of roles and requests is always well formed.
THEOREM TypeCorrect == Spec => []TypeOK
<1>1. IInv => TypeOK
  BY DEF IInv
<1> QED
  BY <1>1, Invariant, PTL

\* No interleaving of an expiry with a new assignment (JwtStrategy.validate,
\* reassignRole) gives an older role back or makes one that was given for a
\* time permanent; without that overlap the assignment stands until its end.
THEOREM AssignmentsKept == Spec => []AssignmentKept
<1>1. IInv => AssignmentKept
  BY DEF IInv, Sane, ApartInv, Stands, AssignmentKept
<1> QED
  BY <1>1, Invariant, PTL

\* However roles change between the guards and the answer, the buyer of an
\* anonymous order is shown only to accounts that have been in charge of what
\* they asked for (the serializers, notify and the guards), and to those that
\* still are if nothing changed them in between.
THEOREM BuyerAnonymous == Spec => []AnonymousBuyer
<1>1. ASSUME IInv
      PROVE  AnonymousBuyer
  <2> SUFFICES ASSUME NEW r \in Request, At(r, "answer"), req[r].user # Buyer,
                      Shown(req[r].view, req[r].user, req[r].as)
               PROVE  /\ held[req[r].user] \cap InCharge(req[r].view) # {}
                      /\ apart => role[req[r].user] \in InCharge(req[r].view)
    BY DEF AnonymousBuyer
  <2>1. req[r].user \in User /\ req[r].view \in Views /\ req[r].as \in Role
    BY <1>1, BusyCall DEF At, IInv
  <2>2. LetIn(r) /\ (apart => StillRight(r))
    BY <1>1 DEF IInv, Entered, ApartInv
  <2>3. req[r].as \in InCharge(req[r].view)
    BY <2>1, <2>2, ShownToThoseInCharge DEF LetIn
  <2> QED
    BY <2>2, <2>3 DEF LetIn, StillRight
<1> QED
  BY <1>1, Invariant, PTL

\* The administrator who switches an account off remains.
LEMMA SwitchKeepsAdmin ==
  ASSUME IInv, Next, apart, active' # active
  PROVE  \E u \in active' : role'[u] = "admin"
<1>1. PICK r \in Request : ToggleStatus(r)
  BY DEF Next, Progress, Tick, Arrive, Unauthorized, FindExpired, RevertRole, Forbidden,
     BeginChange, ReassignRole, BeginView, AnswerView, accounts
<1> DEFINE u == req[r].user
<1>2. /\ role[u] = "admin" /\ u \in active
      /\ req[r].target = u => req[r].change.isActive
  BY <1>1 DEF ToggleStatus, IInv, ApartInv, StillRight, At
<1>3. u \in active' /\ role'[u] = "admin"
  BY <1>1, <1>2 DEF ToggleStatus
<1> QED
  BY <1>3

\* An active account of role admin remains whenever an account is switched
\* (toggleStatus), unless another request of, or on, one of the two accounts
\* overlaps with the switch (apart); AdminRemains names what happens then.
THEOREM AdministratorRemains == Spec => AdminRemains
<1>1. IInv /\ [Next]_vars =>
        [apart /\ active' # active => \E u \in active' : role'[u] = "admin"]_vars
  BY SwitchKeepsAdmin
<1> QED
  BY <1>1, Invariant, PTL DEF Spec, AdminRemains
=============================================================================
