----------------------------- MODULE OrderRequests -----------------------------
(***************************************************************************)
(* The handlers of Orders as they are awaited: a request first reads and   *)
(* tests (BeginXxx), keeps what it read, and later runs its transaction    *)
(* (CommitXxx) on whatever the database holds by then.  Nothing is locked  *)
(* in between, so other requests commit there.  A transaction is one step: *)
(* what its statements can do to each other is in StockTransactions.       *)
(***************************************************************************)
EXTENDS Orders

CONSTANTS
  Request,   \* requests the server works on at the same time
  Idle,      \* a slot with no request
  Together   \* pairs of operations that may be in flight together; the
             \* code admits all of them (AllPairs)

Op == {"verifyMessage", "resubmitMessage", "selectRaffleNumber", "verifyPayment",
       "deleteOrder", "addItem", "updateDeliveryStatus", "draw"}
AllPairs == {{a, b} : a, b \in Op}

\* The pairs that must not be in flight together for the properties of the
\* one-at-a-time service to survive: two decisions on a dedication, two on a
\* payment, a deletion with a choice of number or with a payment decision,
\* and two draws.  In the code nothing keeps them apart.
ConflictingPairs ==
  {{"verifyMessage"}, {"verifyMessage", "resubmitMessage"}, {"resubmitMessage"},
   {"verifyPayment"}, {"verifyPayment", "deleteOrder"},
   {"selectRaffleNumber", "deleteOrder"}, {"draw"}}
SafePairs == AllPairs \ ConflictingPairs

\* To go through its lifecycle, an order must moreover not be reported on
\* twice at once, or deleted while it is reported on: a report tested before
\* another one delivered the order sets it back, and a deletion tested before
\* removes it.  Nothing keeps these apart either.
LifecyclePairs ==
  SafePairs \ {{"updateDeliveryStatus"}, {"updateDeliveryStatus", "deleteOrder"}}

\* What a handler keeps across the await: the orders it read and, for
\* deleteOrder and draw, a raffle number.  What it does not read before the
\* transaction (the decision, the chosen number, the reported status) is
\* chosen when the transaction runs.
Call == [op : Op, orders : SUBSET Order, number : Number \cup {NoNumber}]

ASSUME IdleAssumption == Idle \notin Call
ASSUME TogetherAssumption == Together \subseteq AllPairs

VARIABLE req   \* the call each slot works on, or Idle

requestVars == <<vars, req>>

RequestTypeOK == TypeOK /\ req \in [Request -> Call \cup {Idle}]

RequestInit == Init /\ req = [r \in Request |-> Idle]

-----------------------------------------------------------------------------
(* Reading and testing.                                                    *)

Admitted(op) ==
  \A q \in Request : req[q] # Idle => {op, req[q].op} \in Together

Begin(r, op, S, n) ==
  /\ req[r] = Idle
  /\ Admitted(op)
  /\ req' = [req EXCEPT ![r] = [op |-> op, orders |-> S, number |-> n]]
  /\ UNCHANGED vars

BeginVerifyMessage(r, o) ==
  CanVerifyMessage(o) /\ Begin(r, "verifyMessage", {o}, NoNumber)
BeginResubmitMessage(r, o) ==
  CanResubmitMessage(o) /\ Begin(r, "resubmitMessage", {o}, NoNumber)
BeginSelectRaffleNumber(r, o) ==
  CanSelectRaffleNumber(o) /\ Begin(r, "selectRaffleNumber", {o}, NoNumber)
BeginVerifyPayment(r, S) ==
  /\ S # {}
  /\ \E role \in {"admin", "seller"} : CanVerifyPayment(S, role)
  /\ Begin(r, "verifyPayment", S, NoNumber)
BeginDeleteOrder(r, o) ==
  CanDelete(o) /\ Begin(r, "deleteOrder", {o}, NumberOf(o))
BeginAddItem(r, o) ==
  /\ \E a \in Additions : CanAddItem(o, a)
  /\ Begin(r, "addItem", {o}, NoNumber)
BeginUpdateDelivery(r, o) ==
  CanUpdateDelivery(o) /\ Begin(r, "updateDeliveryStatus", {o}, NoNumber)
BeginDraw(r, n) ==
  Eligible(n) /\ Begin(r, "draw", {holder[n]}, n)

-----------------------------------------------------------------------------
(* The transaction.                                                        *)

Finish(r, op) ==
  /\ req[r] # Idle
  /\ req[r].op = op
  /\ req' = [req EXCEPT ![r] = Idle]

CommitVerifyMessage(r) ==
  /\ Finish(r, "verifyMessage")
  /\ \E o \in req[r].orders, approved \in BOOLEAN : VerifyMessageTx(o, approved)
CommitResubmitMessage(r) ==
  /\ Finish(r, "resubmitMessage")
  /\ \E o \in req[r].orders, hasLetter \in BOOLEAN : ResubmitMessageTx(o, hasLetter)
CommitSelectRaffleNumber(r) ==
  /\ Finish(r, "selectRaffleNumber")
  /\ \E o \in req[r].orders, n \in Number : SelectRaffleNumberTx(o, n)
CommitVerifyPayment(r) ==
  /\ Finish(r, "verifyPayment")
  /\ \E verified \in BOOLEAN : VerifyPaymentTx(req[r].orders, verified)
CommitDeleteOrder(r) ==
  /\ Finish(r, "deleteOrder")
  /\ \E o \in req[r].orders : DeleteTx(o, req[r].number)
CommitAddItem(r) ==
  /\ Finish(r, "addItem")
  /\ \E o \in req[r].orders, a \in Additions : AddItemTx(o, a)
CommitUpdateDelivery(r) ==
  /\ Finish(r, "updateDeliveryStatus")
  /\ \E o \in req[r].orders, d \in AssignmentStatus : UpdateDeliveryTx(o, d)
CommitDraw(r) ==
  /\ Finish(r, "draw")
  /\ \E o \in req[r].orders : DrawTx(req[r].number, o)

\* The transaction throws (a key, a missing row, too little stock, a lost
\* connection, a restart of the server): nothing of it stays.
Fail(r) ==
  /\ req[r] # Idle
  /\ req' = [req EXCEPT ![r] = Idle]
  /\ UNCHANGED vars

-----------------------------------------------------------------------------
\* Creations read nothing they use later (their order codes: OrderCodes), and
\* the catalogue's switch is a single update.
Single ==
  /\ \/ \E S \in SUBSET Order : CreatePublicOrdersMulti(S)
     \/ \E o \in Order : CreatePublicOrder(o)
     \/ \E p \in Product : SetProductActive(p)
  /\ UNCHANGED req

BeginStep(r) ==
  \/ \E o \in Order :
       \/ BeginVerifyMessage(r, o)
       \/ BeginResubmitMessage(r, o)
       \/ BeginSelectRaffleNumber(r, o)
       \/ BeginVerifyPayment(r, {o})
       \/ BeginVerifyPayment(r, GroupRows(group[o]))
       \/ BeginDeleteOrder(r, o)
       \/ BeginAddItem(r, o)
       \/ BeginUpdateDelivery(r, o)
  \/ \E n \in Number : BeginDraw(r, n)

CommitStep(r) ==
  \/ CommitVerifyMessage(r)
  \/ CommitResubmitMessage(r)
  \/ CommitSelectRaffleNumber(r)
  \/ CommitVerifyPayment(r)
  \/ CommitDeleteOrder(r)
  \/ CommitAddItem(r)
  \/ CommitUpdateDelivery(r)
  \/ CommitDraw(r)

RequestNext ==
  \/ Single
  \/ \E r \in Request : BeginStep(r) \/ CommitStep(r) \/ Fail(r)

RequestSpec == RequestInit /\ [][RequestNext]_requestVars

=============================================================================
