------------------------------ MODULE Deliveries ------------------------------
(***************************************************************************)
(* Delivery reports statement by statement, and the confirmation mail that *)
(* follows their commit (Mailer shows how a mail ends).                    *)
(*                                                                         *)
(* The transaction of updateDeliveryStatus finds the newest assignment of  *)
(* the order, updates it or creates one, and then writes the order.        *)
(* PostgreSQL shows it only what is committed, and a row it wrote stays    *)
(* locked until its end.                                                   *)
(***************************************************************************)
EXTENDS Naturals, FiniteSets, SequencesExt

CONSTANTS
  Request,  \* requests the server works on at the same time
  Order,    \* paid orders
  Report,   \* what a delivery person may report
  Idle,     \* a slot with no request
  Nobody    \* no transaction: a row is committed and unlocked

ASSUME ReportAssumption ==
  Report \subseteq {"IN_ROUTE", "DELIVERED", "UNDELIVERED_RETRY", "CANCELLED"}
OrderStatus == {"PAYMENT_VERIFIED", "IN_ROUTE", "DELIVERED", "CANCELLED"}

mapDeliveryStatusToOrderStatus(d) ==
  IF d \in {"DELIVERED", "CANCELLED"} THEN d ELSE "IN_ROUTE"

\* A row of delivery_assignments: what it says, what it said before the open
\* transaction (VOID: it was not there), and that transaction.
Row == [id : Nat \ {0}, status : Report, before : Report \cup {"VOID"},
        writer : Request \cup {Nobody}]

Step == {"find", "assign", "write", "commit", "mail"}
Call == [order : Order, step : Step, report : Report, row : Nat]

ASSUME SlotsAssumption ==
  Idle \notin Call /\ Nobody \notin Request /\ IsFiniteSet(Request)

VARIABLES
  status,      \* orders.status
  old,         \* orders.status before the open transaction that wrote it
  lock,        \* the transaction that holds the row of the order, or Nobody
  assignments, \* the rows of each order, in order of assignedAt
  selfPickup,  \* delivery_details.selfPickup
  req,         \* the call each slot works on, or Idle
  mails,       \* confirmation mails started for each order, counted up to two
  apart        \* whether reports on one order never overlap in this
               \* behaviour (the code lets them)

reportVars == <<status, old, lock, assignments, mails>>
fixed == <<selfPickup, apart>>
vars == <<reportVars, req, fixed>>

TypeOK ==
  /\ status \in [Order -> OrderStatus] /\ old \in [Order -> OrderStatus]
  /\ lock \in [Order -> Request \cup {Nobody}]
  /\ assignments \in [Order -> Seq(Row)]
  /\ selfPickup \in [Order -> BOOLEAN]
  /\ req \in [Request -> Call \cup {Idle}]
  /\ mails \in [Order -> 0..2]
  /\ apart \in BOOLEAN

Init ==
  /\ status = [o \in Order |-> "PAYMENT_VERIFIED"] /\ old = status
  /\ lock = [o \in Order |-> Nobody]
  /\ assignments = [o \in Order |-> <<>>]
  /\ selfPickup \in [Order -> BOOLEAN]
  /\ req = [r \in Request |-> Idle]
  /\ mails = [o \in Order |-> 0]
  /\ apart \in BOOLEAN

-----------------------------------------------------------------------------
At(r, step) == req[r] # Idle /\ req[r].step = step
Goto(r, step) == req' = [req EXCEPT ![r].step = step]
End(r) == req' = [req EXCEPT ![r] = Idle]
Rows(o) == Range(assignments[o])

(* updateDeliveryStatus                                                    *)

\* What an order shows to others: the value of before an open transaction.
Shown(o) == IF lock[o] = Nobody THEN status[o] ELSE old[o]
Deliverable(o) == Shown(o) \in {"PAYMENT_VERIFIED", "IN_ROUTE"}

ReadReport(r, o, d) ==
  /\ req[r] = Idle
  /\ Deliverable(o)
  /\ apart => \A q \in Request :
       req[q] # Idle => req[q].order # o
  /\ req' = [req EXCEPT ![r] = [order |-> o, step |-> "find", report |-> d, row |-> 0]]
  /\ UNCHANGED <<reportVars, fixed>>

\* The newest row that was committed once, or none: its id.
Seen(row) == row.writer = Nobody \/ row.before # "VOID"
NeverFound(o) == 0   \* mutant
Newest(o) ==
  LET seen == {i \in DOMAIN assignments[o] : Seen(assignments[o][i])}
  IN IF seen = {} THEN 0 ELSE assignments[o][Max(seen)].id

FindAssignment(r) ==
  /\ At(r, "find")
  /\ req' = [req EXCEPT ![r].step = "assign", ![r].row = Newest(req[r].order)]
  /\ UNCHANGED <<reportVars, fixed>>

\* Ids are UUIDs; one that is free, to keep them small.
NewId(o) == CHOOSE i \in 1..(Len(assignments[o]) + 1) : \A row \in Rows(o) : row.id # i

CreateAssignment(r) ==
  LET o == req[r].order IN
  /\ At(r, "assign") /\ req[r].row = 0
  /\ assignments' = [assignments EXCEPT ![o] =
       Append(@, [id |-> NewId(o), status |-> req[r].report,
                  before |-> "VOID", writer |-> r])]
  /\ Goto(r, "write")
  /\ UNCHANGED <<status, old, lock, mails, fixed>>

UpdateAssignment(r) ==
  LET o == req[r].order IN
  /\ At(r, "assign") /\ req[r].row # 0
  /\ \E i \in DOMAIN assignments[o] :
       /\ assignments[o][i].id = req[r].row
       /\ assignments[o][i].writer = Nobody
       /\ assignments' = [assignments EXCEPT
            ![o][i].status = req[r].report,
            ![o][i].before = assignments[o][i].status,
            ![o][i].writer = r]
  /\ Goto(r, "write")
  /\ UNCHANGED <<status, old, lock, mails, fixed>>

WriteOrder(r) ==
  LET o == req[r].order IN
  /\ At(r, "write")
  /\ lock[o] = Nobody
  /\ lock' = [lock EXCEPT ![o] = r]
  /\ old' = [old EXCEPT ![o] = status[o]]
  /\ status' = [status EXCEPT ![o] = mapDeliveryStatusToOrderStatus(req[r].report)]
  /\ Goto(r, "commit")
  /\ UNCHANGED <<assignments, mails, fixed>>

\* The locks of r go; its rows are kept as they are (commit) or were.
NotReleased(o, r) == lock   \* mutant
Released(o, r) == [lock EXCEPT ![o] = IF @ = r THEN Nobody ELSE @]
Own(row, r) == row.writer = r
Settled(row, r) == IF Own(row, r) THEN [row EXCEPT !.writer = Nobody, !.before = "VOID"] ELSE row
NotRestored(row, r) == Settled(row, r)   \* mutant
Restored(row, r) == IF Own(row, r) THEN Settled([row EXCEPT !.status = row.before], r) ELSE row

\* What is left of s when nothing of r stays: the row that r created (it
\* creates one at most) goes.
Undone(s, r) ==
  LET was == [i \in DOMAIN s |-> Restored(s[i], r)]
      new == {i \in DOMAIN s : Own(s[i], r) /\ ~Seen(s[i])}
  IN IF new = {} THEN was ELSE RemoveAt(was, CHOOSE i \in new : TRUE)

MailAlways(o, d) == d = "DELIVERED"   \* mutant
MailDue(o, d) == d = "DELIVERED" /\ ~selfPickup[o]

CommitReport(r) ==
  LET o == req[r].order IN
  /\ At(r, "commit")
  /\ lock' = Released(o, r)
  /\ old' = [old EXCEPT ![o] = status[o]]
  /\ assignments' = [assignments EXCEPT ![o] =
       [i \in DOMAIN @ |-> Settled(@[i], r)]]
  /\ IF MailDue(o, req[r].report)
       THEN /\ mails' = [mails EXCEPT ![o] = IF @ < 2 THEN @ + 1 ELSE @]
            /\ Goto(r, "mail")
       ELSE End(r) /\ UNCHANGED mails
  /\ UNCHANGED <<status, fixed>>

\* Any statement fails, or the connection or the server is lost: nothing of
\* the transaction stays.
RollbackReport(r) ==
  LET o == req[r].order IN
  /\ req[r] # Idle /\ req[r].step \in {"find", "assign", "write", "commit"}
  /\ status' = [status EXCEPT ![o] = IF lock[o] = r THEN old[o] ELSE @]
  /\ lock' = Released(o, r)
  /\ assignments' = [assignments EXCEPT ![o] = Undone(@, r)]
  /\ End(r)
  /\ UNCHANGED <<old, mails, fixed>>

\* The answer waits for the mail, whatever came of it.
AfterMail(r) ==
  /\ At(r, "mail")
  /\ End(r)
  /\ UNCHANGED <<reportVars, fixed>>

\* What the server does by itself once a report arrived.
Progress(r) ==
  \/ FindAssignment(r) \/ CreateAssignment(r) \/ UpdateAssignment(r)
  \/ WriteOrder(r) \/ CommitReport(r) \/ AfterMail(r)

Next ==
  \E r \in Request :
    \/ Progress(r)
    \/ RollbackReport(r)
    \/ \E o \in Order, d \in Report : ReadReport(r, o, d)

Spec == Init /\ [][Next]_vars

\* Statements and mails are answered; the waiters of a locked row are served
\* in turn.
FairSpec ==
  /\ Spec
  /\ \A r \in Request : /\ WF_vars(Progress(r))
                        /\ SF_vars(UpdateAssignment(r) \/ WriteOrder(r))

-----------------------------------------------------------------------------
InTransaction(o) ==
  \E r \in Request : req[r] # Idle /\ req[r].order = o /\ req[r].step \in {"write", "commit"}

\* The order says what its assignment says as long as it has only one: the
\* rows are written in the same order by every report, and the first one's
\* lock makes the second wait.  Nothing stays of a report rolled back.
ReportAgrees ==
  \A o \in Order : ~InTransaction(o) =>
    /\ Rows(o) = {} => status[o] = "PAYMENT_VERIFIED"
    /\ \A row \in Rows(o) : Rows(o) = {row} =>
         status[o] = mapDeliveryStatusToOrderStatus(row.status)

\* First reports that overlap create one assignment each, but no more than
\* that: later reports find the newest; and only one when none overlaps.
AssignmentsBounded ==
  \A o \in Order :
    Len(assignments[o]) <= IF apart THEN 1 ELSE Cardinality(Request)

\* The buyer is told that the gift arrived only when it did and someone else
\* received it, and once, unless reports overlap (DELIVERED takes no more
\* reports).
ConfirmedOnce ==
  \A o \in Order : mails[o] > 0 =>
    /\ ~selfPickup[o]
    /\ apart => mails[o] = 1 /\ status[o] = "DELIVERED"

\* Every report ends, whatever rows it waits for.
Answered == \A r \in Request : req[r] # Idle ~> req[r] = Idle
=============================================================================
