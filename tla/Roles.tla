--------------------------------- MODULE Roles ---------------------------------
(***************************************************************************)
(* Who may do what: roles given for a time, accounts switched off, the     *)
(* check of every request (JwtStrategy.validate and the guards), and what  *)
(* the answers about an anonymous order show to each role.                 *)
(*                                                                         *)
(* A request is validated against the row of its user, passes the guards   *)
(* with the role and permissions read there, and runs later: meanwhile the *)
(* row may change, and time passes.  rolePreviousId and the audit columns  *)
(* are left out, since nothing reads them.                                 *)
(***************************************************************************)
EXTENDS Naturals

CONSTANTS
  User,      \* accounts, all with a session
  Root,      \* the account of ADMIN_SEED_EMAIL
  Buyer,     \* the account whose email an anonymous order carries
  Request,   \* requests the server works on at the same time
  Idle,      \* a slot with no request
  MaxTime    \* bound: how far the clock goes

ASSUME UsersAssumption == Root \in User /\ Buyer \in User
ASSUME TimeAssumption == MaxTime \in Nat \ {0}

Role == {"admin", "seller", "delivery", "comprador"}
ROTATABLE_ROLES == {"admin", "seller", "comprador"}
Time == 1..(MaxTime + 1)
Never == 0   \* roleExpiresAt or expiresAt IS NULL

\* The permissions that the operations below require.
Permissions ==
  {"orders:read_all", "orders:read_public_safe", "orders:read_own",
   "orders:verify_payment", "orders:update_delivery",
   "messages:read_queue", "raffle:draw_winner", "users:manage_roles"}

\* role_permissions after the seed.
ROLE_PERMISSION_MATRIX ==
  [admin     |-> Permissions,
   seller    |-> {"orders:read_public_safe", "orders:verify_payment",
                  "orders:update_delivery", "messages:read_queue"},
   delivery  |-> {"orders:read_public_safe", "orders:update_delivery"},
   comprador |-> {"orders:read_own"}]

\* The operations that answer with an order or with its delivery_details.
Views == {"findOrders", "findByRecipientName", "findOrdersMessage", "findMyDeliveries",
          "findMine", "findOne", "verifyPaymentGroup", "notifyTeams", "draw", "drawHistory"}
Op == {"reassignRole", "toggleStatus"} \cup Views

\* Any one of these permissions lets the operation through.
Required ==
  [op \in Op |->
     CASE op \in {"reassignRole", "toggleStatus"} -> {"users:manage_roles"}
       [] op \in {"findOrders", "findByRecipientName"} ->
            {"orders:read_all", "orders:read_public_safe"}
       [] op = "findOrdersMessage" -> {"messages:read_queue"}
       [] op = "findMyDeliveries" -> {"orders:read_public_safe"}
       [] op = "findMine" -> {"orders:read_own"}
       [] op = "findOne" -> {"orders:read_own", "orders:read_all", "orders:read_public_safe"}
       [] op = "verifyPaymentGroup" -> {"orders:verify_payment"}
       [] op = "notifyTeams" -> {"orders:update_delivery"}
       [] OTHER -> {"raffle:draw_winner"}]

\* A request before it is let through; a change to be made to an account; and
\* an answer to be given to one that was read with the role "as".
Change == [op : {"reassignRole"}, role : ROTATABLE_ROLES, until : Time]
            \cup [op : {"toggleStatus"}, isActive : BOOLEAN]
Call == [user : User, step : {"validate", "revert"}]
          \cup [user : User, step : {"run"}, target : User, change : Change]
          \cup [user : User, step : {"answer"}, view : Views, as : Role]
ASSUME IdleAssumption == Idle \notin Call

VARIABLES
  now,       \* the clock
  role,      \* users.roleId
  until,     \* users.roleExpiresAt
  ends,      \* users.expiresAt
  active,    \* the users with isActive
  req,       \* the call each slot works on, or Idle
  given,     \* the role each account opened with or was last given, and until when
  held,      \* every role each account has had
  apart      \* whether a request that changes an account never overlaps, in
             \* this behaviour, with one of that account (the code lets it)

accounts == <<role, until, ends, active, given, held>>
vars == <<now, accounts, req, apart>>

TypeOK ==
  /\ now \in 1..MaxTime
  /\ role \in [User -> Role]
  /\ until \in [User -> {Never} \cup Time] /\ ends \in [User -> {Never} \cup Time]
  /\ active \subseteq User
  /\ req \in [Request -> Call \cup {Idle}]
  /\ given \in [User -> [role : Role, until : {Never} \cup Time]]
  /\ held \in [User -> SUBSET Role]
  /\ apart \in BOOLEAN

\* The administrator of the seed; buyers who registered; accounts opened by an
\* administrator for a time, of any role.
Init ==
  /\ now = 1
  /\ role \in [User -> Role] /\ role[Root] = "admin"
  /\ until = [u \in User |-> Never]
  /\ ends \in [User -> {Never, 1}] /\ ends[Root] = Never
  /\ \A u \in User \ {Root} : ends[u] = Never => role[u] = "comprador"
  /\ active = User
  /\ req = [r \in Request |-> Idle]
  /\ given = [u \in User |-> [role |-> role[u], until |-> Never]]
  /\ held = [u \in User |-> {role[u]}]
  /\ apart \in BOOLEAN

-----------------------------------------------------------------------------
At(r, step) == req[r] # Idle /\ req[r].step = step
End(r) == req' = [req EXCEPT ![r] = Idle]

\* The request in slot q is one of the account u, or about to change it.
Concerns(q, u) ==
  req[q] # Idle /\ (req[q].user = u \/ (req[q].step = "run" /\ req[q].target = u))

(* JwtStrategy.validate                                                    *)

Arrive(r) ==
  /\ req[r] = Idle
  /\ \E u \in User :
       /\ apart => \A q \in Request : ~Concerns(q, u)
       /\ req' = [req EXCEPT ![r] = [user |-> u, step |-> "validate"]]
  /\ UNCHANGED <<now, accounts, apart>>

Accepted(u) == u \in active /\ ~(ends[u] # Never /\ ends[u] < now)
RoleOver(u) == until[u] # Never /\ until[u] <= now

\* The account is read and found expired, in its role or altogether.
Unauthorized(r) ==
  /\ At(r, "validate") /\ ~Accepted(req[r].user)
  /\ End(r)
  /\ UNCHANGED <<now, accounts, apart>>

FindExpired(r) ==
  /\ At(r, "validate") /\ Accepted(req[r].user) /\ RoleOver(req[r].user)
  /\ req' = [req EXCEPT ![r].step = "revert"]
  /\ UNCHANGED <<now, accounts, apart>>

\* The role of the buyer, whatever the row holds by now; then validate again.
TermAfterRevert(u) == Never
RoleKept(u) == role[u]   \* mutant
RoleAfterRevert(u) == "comprador"

RevertRole(r) ==
  LET u == req[r].user IN
  /\ At(r, "revert")
  /\ role' = [role EXCEPT ![u] = RoleAfterRevert(u)]
  /\ until' = [until EXCEPT ![u] = TermAfterRevert(u)]
  /\ held' = [held EXCEPT ![u] = @ \cup {RoleAfterRevert(u)}]
  /\ req' = [req EXCEPT ![r].step = "validate"]
  /\ UNCHANGED <<now, ends, active, given, apart>>

(* The guards, with the role that was read.                                *)

LetsThrough(op, ro) == Required[op] \cap ROLE_PERMISSION_MATRIX[ro] # {}

Current(r) == Accepted(req[r].user) /\ ~RoleOver(req[r].user)

Forbidden(r) ==
  /\ At(r, "validate") /\ Current(r)
  /\ \E op \in Op : ~LetsThrough(op, role[req[r].user])
  /\ End(r)
  /\ UNCHANGED <<now, accounts, apart>>

AnySwitch(admin, u, isActive) == TRUE   \* mutant
MaySwitch(admin, u, isActive) == u = admin => isActive

\* reassignRole and toggleStatus, up to their update.
Changes(u, t) ==
  {c \in Change : IF c.op = "reassignRole" THEN c.until > now
                                           ELSE MaySwitch(u, t, c.isActive)}

BeginChange(r) ==
  LET u == req[r].user IN
  /\ At(r, "validate") /\ Current(r)
  /\ \E t \in User : \E c \in Changes(u, t) :
       /\ LetsThrough(c.op, role[u])
       /\ apart /\ t # u => \A q \in Request \ {r} : ~Concerns(q, t)
       /\ req' = [req EXCEPT ![r] =
            [user |-> u, step |-> "run", target |-> t, change |-> c]]
  /\ UNCHANGED <<now, accounts, apart>>

(* UsersService                                                            *)

ReassignRole(r) ==
  LET t == req[r].target  c == req[r].change IN
  /\ At(r, "run") /\ c.op = "reassignRole"
  /\ role' = [role EXCEPT ![t] = c.role]
  /\ until' = [until EXCEPT ![t] = c.until]
  /\ given' = [given EXCEPT ![t] = [role |-> c.role, until |-> c.until]]
  /\ held' = [held EXCEPT ![t] = @ \cup {c.role}]
  /\ End(r)
  /\ UNCHANGED <<now, ends, active, apart>>

ToggleStatus(r) ==
  LET t == req[r].target  c == req[r].change IN
  /\ At(r, "run") /\ c.op = "toggleStatus"
  /\ active' = IF c.isActive THEN active \cup {t} ELSE active \ {t}
  /\ End(r)
  /\ UNCHANGED <<now, role, until, ends, given, held, apart>>

(* What an answer about an anonymous order shows of its buyer.             *)

Has(ro, permission) == permission \in ROLE_PERMISSION_MATRIX[ro]

serializeOrderFull == TRUE
SafeUnfiltered == TRUE   \* mutant
serializeOrderSafe == FALSE   \* buyerFullName is left out
serializeOrderMessageView == TRUE

\* findOneForUser: by permission first, then only the own order.
OneForUser(u, ro) ==
  IF Has(ro, "orders:read_all") THEN serializeOrderFull
  ELSE IF Has(ro, "orders:read_public_safe") THEN serializeOrderSafe
  ELSE u = Buyer /\ serializeOrderFull

Shown(op, u, ro) ==
  CASE op = "findOrders" ->
         IF Has(ro, "orders:read_all") THEN serializeOrderFull ELSE serializeOrderSafe
    [] op = "findOrdersMessage" -> serializeOrderMessageView
    [] op \in {"findByRecipientName", "findMyDeliveries"} -> serializeOrderSafe
    [] op = "findMine" -> u = Buyer /\ serializeOrderFull
    [] op = "findOne" -> OneForUser(u, ro)
    [] op = "verifyPaymentGroup" -> serializeOrderFull
    [] op = "notifyTeams" -> TRUE   \* the row of delivery_details, as it is
    [] op = "draw" -> ro = "admin"
    [] op = "drawHistory" -> TRUE

\* The guards let the request through; what it answers is decided by the role
\* that was read here, also when the account has another one by then.
BeginView(r) ==
  LET u == req[r].user IN
  /\ At(r, "validate") /\ Current(r)
  /\ \E op \in Views :
       /\ LetsThrough(op, role[u])
       /\ req' = [req EXCEPT ![r] =
            [user |-> u, step |-> "answer", view |-> op, as |-> role[u]]]
  /\ UNCHANGED <<now, accounts, apart>>

\* The order is read and the answer leaves, showing what Shown says.
AnswerView(r) ==
  /\ At(r, "answer")
  /\ End(r)
  /\ UNCHANGED <<now, accounts, apart>>

Tick ==
  /\ now < MaxTime
  /\ now' = now + 1
  /\ UNCHANGED <<accounts, req, apart>>

\* What the server does by itself once a request arrived.
Progress(r) ==
  \/ Unauthorized(r) \/ FindExpired(r) \/ RevertRole(r) \/ Forbidden(r) \/ BeginChange(r)
  \/ ReassignRole(r) \/ ToggleStatus(r) \/ BeginView(r) \/ AnswerView(r)

Next == Tick \/ \E r \in Request : Arrive(r) \/ Progress(r)

Spec == Init /\ [][Next]_vars

-----------------------------------------------------------------------------
\* A role lasts as long as it was given for, and what follows it is never
\* more than the buyer's: an expiry read before a new assignment takes the
\* new role away (the account falls back to comprador), but no interleaving
\* restores an older role or leaves one that was given for a time without its
\* end.  Without that overlap the assignment stands.
AssignmentKept ==
  \A u \in User :
    /\ role[u] \in {given[u].role, "comprador"}
    /\ until[u] = Never /\ given[u].until # Never => role[u] = "comprador"
    /\ apart /\ (given[u].until = Never \/ now < given[u].until) =>
         role[u] = given[u].role /\ until[u] = given[u].until

\* Switching an account never leaves the system without an active account of
\* role admin: nobody switches off the own account, so the one who acts remains.
\* Stated for a switch during which no other request of, or on, the account that
\* acts or the one it switches is under way (apart).  With such an overlap the
\* code can lose its last administrator: two that switch each other off; one that
\* switches the other off while it is given another role, by the other or by
\* itself; one whose role ran out and is taken back by a second request of its
\* while the first switches the other off.
AdminRemains ==
  [][apart /\ active' # active => \E u \in active' : role'[u] = "admin"]_vars

\* Whose work needs the buyer of an anonymous order: those who review, sell and
\* administer, and for the delivery notice also who delivers.
InCharge(view) ==
  {"admin", "seller"} \cup (IF view = "notifyTeams" THEN {"delivery"} ELSE {})

\* An answer on its way shows the buyer of an anonymous order only to that
\* buyer and to an account that has been in charge of what it asked for,
\* whatever role the account has been given since it was let through; if
\* nothing changed the account in between, it is still in charge.  Other
\* handlers answer with no field of a buyer but the caller's own.
AnonymousBuyer ==
  \A r \in Request :
    LET c == req[r] IN
    At(r, "answer") /\ c.user # Buyer /\ Shown(c.view, c.user, c.as) =>
      /\ held[c.user] \cap InCharge(c.view) # {}
      /\ apart => role[c.user] \in InCharge(c.view)
=============================================================================
