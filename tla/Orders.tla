-------------------------------- MODULE Orders --------------------------------
(***************************************************************************)
(* The order service: dedication review, raffle number, stock, payment,    *)
(* delivery and draw, over the rows they share in the database.            *)
(*                                                                         *)
(* A handler of the service reads the order, tests it (operators CanXxx),  *)
(* and then runs one database transaction (operators XxxTx).  Here the two *)
(* parts are one step: requests are served one at a time.  OrderRequests   *)
(* separates them and lets requests overlap.  A XxxTx operator is guarded  *)
(* only by what its transaction and the schema enforce (conditional        *)
(* updates, unique and foreign keys, the row an update must find), so it   *)
(* can also be run on a database that changed after the test.              *)
(***************************************************************************)
EXTENDS Integers, Sequences, FiniteSets, Functions

CONSTANTS
  Order,         \* ids of the orders that may be created
  Number,        \* rows of raffle_numbers
  Product,       \* rows of products
  NoOrder,       \* raffle_numbers.orderId IS NULL
  NoNumber,      \* order.raffleNumber = null
  NoProduct,     \* addOnOption.linkedProductId = null
  Channels,      \* sales channels that creations use
  Carts,         \* carts that pass the creation checks
  Additions,     \* items POST /orders/:id/items may add
  InitialStock,  \* stock of each product when sales open
  MaxUnits,      \* bound: units of a product an order may grow to by addItem
  MaxRounds      \* bound: draw rounds

\* What one cart asks for: units sold as such, and units that come along as
\* the product linked to a chosen add-on option (AddOnOption.linkedProductId).
Cart == [main : [Product -> Nat], addOn : [Product -> Nat]]
EmptyCart == [main |-> [p \in Product |-> 0], addOn |-> [p \in Product |-> 0]]

ASSUME NullsAssumption ==
  NoOrder \notin Order /\ NoNumber \notin Number /\ NoProduct \notin Product
ASSUME NumbersAssumption == IsFiniteSet(Number)
ASSUME ChannelsAssumption == Channels \subseteq {"ONLINE", "PRESENCIAL"}
ASSUME CartsAssumption == \A c \in Carts : c \in Cart
ASSUME AdditionsAssumption ==
  \A a \in Additions : a \in [product : Product, quantity : Nat \ {0},
                              linked : Product \cup {NoProduct}]
ASSUME StockAssumption == InitialStock \in [Product -> Nat]
ASSUME BoundsAssumption == MaxUnits \in Nat /\ MaxRounds \in Nat

\* OrderStatus, and two values for the absence of the row: an id never used
\* and an id whose row was deleted (ids are random UUIDs, never used again).
OrderStatus ==
  {"MESSAGE_PENDING_REVIEW", "MESSAGE_APPROVED", "MESSAGE_REJECTED",
   "PAYMENT_PENDING", "PAYMENT_VERIFIED", "PAYMENT_REJECTED",
   "IN_PREPARATION", "IN_ROUTE", "DELIVERED", "CANCELLED"}
Absent == {"UNUSED", "DELETED"}
AssignmentStatus == {"IN_ROUTE", "DELIVERED", "UNDELIVERED_RETRY", "CANCELLED"}

VARIABLES
  status,      \* orders.status
  channel,     \* orders.salesChannel
  group,       \* the orders created under the same groupId; {} when it is null
  review,      \* message_reviews.humanReviewStatus
  payment,     \* payment_transactions: no row, or its column "verified"
  assignment,  \* whether the order has rows in delivery_assignments
  items,       \* order_items, added up per product
  holder,      \* raffle_numbers.orderId
  numStatus,   \* raffle_numbers.status
  drawn,       \* raffle_numbers.drawnAsWinner
  rounds,      \* draw_rounds, in order of insertion
  stock,       \* products.stock
  active       \* the products with isActive

orderRows == <<status, channel, group, review, payment, assignment, items>>
numberRows == <<holder, numStatus, drawn>>
productRows == <<stock, active>>
vars == <<orderRows, numberRows, rounds, productRows>>

-----------------------------------------------------------------------------
Exists(o) == status[o] \notin Absent
HoldsNumber(o) == \E n \in Number : holder[n] = o

\* Units of each product that selectRaffleNumber takes for the order, and
\* that a rejected payment or a deletion gives back.
Units(o) == [p \in Product |-> items[o].main[p] + items[o].addOn[p]]
MainUnitsOf(S, p) == SumFunctionOnSet([o \in Order |-> items[o].main[p]], S)  \* mutant
UnitsOf(S, p) == SumFunctionOnSet([o \in Order |-> Units(o)[p]], S)

RowsTypeOK ==
  /\ status \in [Order -> OrderStatus \cup Absent]
  /\ channel \in [Order -> {"ONLINE", "PRESENCIAL", "NONE"}]
  /\ group \in [Order -> SUBSET Order]
  /\ review \in [Order -> {"NONE", "PENDING", "APPROVED", "REJECTED"}]
  /\ payment \in [Order -> {"NONE", "UNVERIFIED", "VERIFIED"}]
  /\ assignment \in [Order -> {"NONE", "ROWS"}]
  /\ items \in [Order -> Cart]
  /\ holder \in [Number -> Order \cup {NoOrder}]
  /\ numStatus \in [Number -> {"AVAILABLE", "ASSIGNED"}]
  /\ drawn \in [Number -> BOOLEAN]
  /\ rounds \in Seq([number : Number, order : Order])
  /\ active \subseteq Product

\* Every column holds a value of its type.
TypeOK == RowsTypeOK /\ stock \in [Product -> Int]

Init ==
  /\ status = [o \in Order |-> "UNUSED"]
  /\ channel = [o \in Order |-> "NONE"]
  /\ group = [o \in Order |-> {}]
  /\ review = [o \in Order |-> "NONE"]
  /\ payment = [o \in Order |-> "NONE"]
  /\ assignment = [o \in Order |-> "NONE"]
  /\ items = [o \in Order |-> EmptyCart]
  /\ holder = [n \in Number |-> NoOrder]
  /\ numStatus = [n \in Number |-> "AVAILABLE"]
  /\ drawn = [n \in Number |-> FALSE]
  /\ rounds = <<>>
  /\ stock = InitialStock
  /\ active = Product

-----------------------------------------------------------------------------
(* Creation: one order, or one per recipient under a common groupId.       *)

\* The rows of an order whose dedication enters, or skips, the review.
DedicationStatus(hasLetter) ==
  IF hasLetter THEN "MESSAGE_PENDING_REVIEW" ELSE "MESSAGE_APPROVED"
DedicationAlwaysPending(hasLetter) == "PENDING"   \* mutant
DedicationReview(hasLetter) == IF hasLetter THEN "PENDING" ELSE "APPROVED"

\* Rows for the orders S; "lettered" are those with a dedication to review.
CreateTx(S, g, ch, lettered, cart) ==
  /\ \A o \in S : status[o] = "UNUSED"
  /\ status' = [o \in Order |->
       IF o \in S THEN DedicationStatus(o \in lettered) ELSE status[o]]
  /\ review' = [o \in Order |->
       IF o \in S THEN DedicationReview(o \in lettered) ELSE review[o]]
  /\ channel' = [o \in Order |-> IF o \in S THEN ch ELSE channel[o]]
  /\ group' = [o \in Order |-> IF o \in S THEN g ELSE group[o]]
  /\ items' = [o \in Order |-> IF o \in S THEN cart[o] ELSE items[o]]
  /\ UNCHANGED <<payment, assignment, numberRows, rounds, productRows>>

CreatePublicOrder(o) ==
  \E ch \in Channels, lettered \in SUBSET {o}, cart \in [{o} -> Carts] :
    CreateTx({o}, {}, ch, lettered, cart)

CreatePublicOrdersMulti(S) ==
  /\ \E o1, o2 \in S : o1 # o2
  /\ \E ch \in Channels, lettered \in SUBSET S, cart \in [S -> Carts] :
       CreateTx(S, S, ch, lettered, cart)

(* The review of the dedication.                                           *)

CanVerifyUnpaid(o) ==   \* mutant
  status[o] \in {"MESSAGE_PENDING_REVIEW", "MESSAGE_REJECTED", "PAYMENT_REJECTED"}
CanVerifyMessage(o) == status[o] \in {"MESSAGE_PENDING_REVIEW", "MESSAGE_REJECTED"}

VerifyMessageTx(o, approved) ==
  /\ Exists(o)
  /\ status' = [status EXCEPT ![o] =
       IF approved THEN "MESSAGE_APPROVED" ELSE "MESSAGE_REJECTED"]
  /\ review' = [review EXCEPT ![o] = IF approved THEN "APPROVED" ELSE "REJECTED"]
  /\ UNCHANGED <<channel, group, payment, assignment, items,
                 numberRows, rounds, productRows>>

CanResubmitMessage(o) == status[o] = "MESSAGE_REJECTED"

ResubmitMessageTx(o, hasLetter) ==
  /\ Exists(o)
  /\ status' = [status EXCEPT ![o] = DedicationStatus(hasLetter)]
  /\ review' = [review EXCEPT ![o] = DedicationReview(hasLetter)]
  /\ UNCHANGED <<channel, group, payment, assignment, items,
                 numberRows, rounds, productRows>>

(* The raffle number: takes the stock, the number and opens the payment.   *)

CanSelectUnreviewed(o) == status[o] \in {"MESSAGE_PENDING_REVIEW", "MESSAGE_APPROVED"}   \* mutant
CanSelectRaffleNumber(o) == status[o] = "MESSAGE_APPROVED"

\* decrementProductStock: what it tests of the product before it subtracts.
IsActive(p, quantity) == p \in active   \* mutant
Covers(p, quantity) == p \in active /\ stock[p] >= quantity

\* Every item of the order fits, or none is taken.
InStock(o) == \A p \in Product : Units(o)[p] > 0 => Covers(p, Units(o)[p])

\* updateMany ... WHERE status = AVAILABLE finds the row.
AnyNumber(n) == TRUE   \* mutant
Claimable(n) == numStatus[n] = "AVAILABLE"

\* payment_transactions.orderId is unique.
PaymentKeyFree(o) == payment[o] = "NONE"

SelectRaffleNumberTx(o, n) ==
  /\ Exists(o)
  /\ InStock(o)
  /\ Claimable(n)
  /\ ~HoldsNumber(o)   \* raffle_numbers.orderId is unique
  /\ PaymentKeyFree(o)
  /\ stock' = [p \in Product |-> stock[p] - Units(o)[p]]
  /\ numStatus' = [numStatus EXCEPT ![n] = "ASSIGNED"]
  /\ holder' = [holder EXCEPT ![n] = o]
  /\ payment' = [payment EXCEPT ![o] = "UNVERIFIED"]
  /\ status' = [status EXCEPT ![o] = "PAYMENT_PENDING"]
  /\ UNCHANGED <<channel, group, review, assignment, items, drawn, rounds, active>>

(* The payment of one order, or of all the orders of a group.              *)

\* An online payment is decided by the administrator, one made at the stand
\* by a seller.
Decides(role, ch) == \/ ch = "ONLINE" /\ role = "admin"
                     \/ ch = "PRESENCIAL" /\ role = "seller"
CanVerifyPayment(S, role) ==
  \A o \in S : Decides(role, channel[o]) /\ status[o] = "PAYMENT_PENDING"

VerifyPaymentTx(S, verified) ==
  /\ \A o \in S : payment[o] # "NONE"
  /\ status' = [o \in Order |->
       IF o \notin S THEN status[o]
       ELSE IF verified THEN "PAYMENT_VERIFIED" ELSE "PAYMENT_REJECTED"]
  /\ payment' = [o \in Order |->
       IF o \notin S THEN payment[o]
       ELSE IF verified THEN "VERIFIED" ELSE "UNVERIFIED"]
  /\ IF verified
       THEN UNCHANGED <<holder, numStatus, stock>>
       ELSE /\ holder' = [n \in Number |->
                 IF holder[n] \in S THEN NoOrder ELSE holder[n]]
            /\ numStatus' = [n \in Number |->
                 IF holder[n] \in S THEN "AVAILABLE" ELSE numStatus[n]]
            /\ stock' = [p \in Product |-> stock[p] + UnitsOf(S, p)]
  /\ UNCHANGED <<channel, group, review, assignment, items, drawn, rounds, active>>

\* findMany WHERE groupId: the orders of the group that still have a row.
GroupRows(g) == {o \in g : Exists(o)}

(* Deletion.  n is the number the order held when it was read.             *)

InDraw(o) == \E i \in DOMAIN rounds : rounds[i].order = o

CanDelete(o) ==
  /\ Exists(o)
  /\ status[o] # "DELIVERED"
  /\ ~InDraw(o)

NoNumberOf(o) == NoNumber   \* mutant
NumberOf(o) ==
  IF HoldsNumber(o) THEN CHOOSE n \in Number : holder[n] = o ELSE NoNumber

\* What the foreign keys of orders do when its row goes: draw_rounds refuses
\* (RESTRICT), raffle_numbers.orderId is emptied (SET NULL).
NotRestricted(o) == TRUE   \* mutant
Deletable(o) == ~InDraw(o)
OnlyFreed(o, n) == [m \in Number |-> IF m = n THEN NoOrder ELSE holder[m]]   \* mutant
HolderWithout(o, n) ==
  [m \in Number |-> IF m = n \/ holder[m] = o THEN NoOrder ELSE holder[m]]

DeleteTx(o, n) ==
  /\ Exists(o)
  /\ Deletable(o)
  /\ status' = [status EXCEPT ![o] = "DELETED"]
  /\ review' = [review EXCEPT ![o] = "NONE"]        \* foreign keys, CASCADE
  /\ payment' = [payment EXCEPT ![o] = "NONE"]
  /\ assignment' = [assignment EXCEPT ![o] = "NONE"]
  /\ items' = [items EXCEPT ![o] = EmptyCart]
  /\ numStatus' = [m \in Number |-> IF m = n THEN "AVAILABLE" ELSE numStatus[m]]
  /\ holder' = HolderWithout(o, n)
  /\ stock' = IF n = NoNumber THEN stock
              ELSE [p \in Product |-> stock[p] + Units(o)[p]]
  /\ UNCHANGED <<channel, group, drawn, rounds, active>>

(* An item added to an order that already exists.                          *)

CanAddItem(o, a) ==
  /\ Exists(o)
  /\ status[o] \notin {"CANCELLED", "DELIVERED"}
  /\ a.product \in active

\* The cart c with the item a in it.
WithItem(c, a) ==
  [main  |-> [p \in Product |-> c.main[p] + IF p = a.product THEN a.quantity ELSE 0],
   addOn |-> [p \in Product |-> c.addOn[p] + IF p = a.linked THEN a.quantity ELSE 0]]

AddItemTx(o, a) ==
  /\ Exists(o)
  /\ Covers(a.product, a.quantity)
  /\ items[o].main[a.product] + a.quantity <= MaxUnits   \* bound
  /\ stock' = [stock EXCEPT ![a.product] = @ - a.quantity]
  /\ items' = [items EXCEPT ![o] = WithItem(items[o], a)]
  /\ UNCHANGED <<status, channel, group, review, payment, assignment,
                 numberRows, rounds, active>>

(* Delivery.                                                               *)

CanDeliverUnpaid(o) ==   \* mutant
  status[o] \in {"PAYMENT_PENDING", "PAYMENT_VERIFIED", "IN_PREPARATION", "IN_ROUTE"}
CanUpdateDelivery(o) == status[o] \in {"PAYMENT_VERIFIED", "IN_PREPARATION", "IN_ROUTE"}

mapDeliveryStatusToOrderStatus(d) ==
  IF d \in {"DELIVERED", "CANCELLED"} THEN d ELSE "IN_ROUTE"

\* The newest row of delivery_assignments is updated, or the first one is
\* created, and the order written, in one transaction.  Which row says what
\* when first reports overlap and create two is in Deliveries.
UpdateDeliveryTx(o, d) ==
  /\ Exists(o)
  /\ assignment' = [assignment EXCEPT ![o] = "ROWS"]
  /\ status' = [status EXCEPT ![o] = mapDeliveryStatusToOrderStatus(d)]
  /\ UNCHANGED <<channel, group, review, payment, items,
                 numberRows, rounds, productRows>>

(* The draw.  o is the holder of the winning number when it was read.      *)

EligibleAgain(n) ==   \* mutant
  /\ holder[n] # NoOrder
  /\ status[holder[n]] # "CANCELLED"
  /\ payment[holder[n]] = "VERIFIED"
Eligible(n) ==
  /\ ~drawn[n]
  /\ holder[n] # NoOrder
  /\ status[holder[n]] # "CANCELLED"
  /\ payment[holder[n]] = "VERIFIED"

DrawTx(n, o) ==
  /\ Exists(o)
  /\ Len(rounds) < MaxRounds   \* bound
  /\ drawn' = [drawn EXCEPT ![n] = TRUE]
  /\ rounds' = Append(rounds, [number |-> n, order |-> o])
  /\ UNCHANGED <<orderRows, holder, numStatus, productRows>>

(* The catalogue, as far as the orders see it: isActive is switched.       *)

SetProductActive(p) ==
  /\ active' = IF p \in active THEN active \ {p} ELSE active \cup {p}
  /\ UNCHANGED <<orderRows, numberRows, rounds, stock>>

-----------------------------------------------------------------------------
(* The handlers, one request at a time.                                    *)

VerifyMessage(o) ==
  CanVerifyMessage(o) /\ \E approved \in BOOLEAN : VerifyMessageTx(o, approved)
ResubmitMessage(o) ==
  CanResubmitMessage(o) /\ \E hasLetter \in BOOLEAN : ResubmitMessageTx(o, hasLetter)
SelectRaffleNumber(o) ==
  CanSelectRaffleNumber(o) /\ \E n \in Number : SelectRaffleNumberTx(o, n)
VerifyPayment(o) ==
  \E role \in {"admin", "seller"}, verified \in BOOLEAN :
    CanVerifyPayment({o}, role) /\ VerifyPaymentTx({o}, verified)
VerifyPaymentGroup(g) ==
  /\ GroupRows(g) # {}
  /\ \E role \in {"admin", "seller"}, verified \in BOOLEAN :
       CanVerifyPayment(GroupRows(g), role) /\ VerifyPaymentTx(GroupRows(g), verified)
DeleteOrder(o) == CanDelete(o) /\ DeleteTx(o, NumberOf(o))
AddItem(o) == \E a \in Additions : CanAddItem(o, a) /\ AddItemTx(o, a)
UpdateDeliveryStatus(o) ==
  CanUpdateDelivery(o) /\ \E d \in AssignmentStatus : UpdateDeliveryTx(o, d)
Draw(n) == Eligible(n) /\ DrawTx(n, holder[n])

Next ==
  \/ \E S \in SUBSET Order : CreatePublicOrdersMulti(S)
  \/ \E o \in Order :
       \/ CreatePublicOrder(o)
       \/ VerifyMessage(o)
       \/ ResubmitMessage(o)
       \/ SelectRaffleNumber(o)
       \/ VerifyPayment(o)
       \/ VerifyPaymentGroup(group[o])
       \/ DeleteOrder(o)
       \/ AddItem(o)
       \/ UpdateDeliveryStatus(o)
  \/ \E n \in Number : Draw(n)
  \/ \E p \in Product : SetProductActive(p)

Spec == Init /\ [][Next]_vars

-----------------------------------------------------------------------------
(* Properties.  NumbersAgree, StatusAgrees, WinnersKept and NoUnitLost hold *)
(* however requests overlap; the others need that no conflicting request   *)
(* commits between a handler's test and its transaction.                   *)

\* A number that points at an order is ASSIGNED, that order exists and its
\* payment was opened (selectRaffleNumber writes the three in one
\* transaction, rejection and deletion undo them), and no order has two.
NumbersAgree ==
  /\ \A n \in Number : holder[n] # NoOrder =>
       /\ numStatus[n] = "ASSIGNED"
       /\ Exists(holder[n])
       /\ payment[holder[n]] # "NONE"
  /\ \A m, n \in Number : holder[m] = holder[n] /\ holder[m] # NoOrder => m = n

\* The status of an order agrees with the rows of its other tables, which
\* every handler writes in the same transaction: the review while the
\* dedication is reviewed, the payment while it is decided, and an assignment
\* exists from the first delivery report on.  (What the newest assignment
\* says may differ from the order when first reports overlap: Deliveries.)
StatusAgrees ==
  \A o \in Order :
    /\ status[o] = "MESSAGE_PENDING_REVIEW" => review[o] = "PENDING"
    /\ status[o] = "MESSAGE_APPROVED" => review[o] = "APPROVED"
    /\ status[o] = "MESSAGE_REJECTED" => review[o] = "REJECTED"
    /\ status[o] \in {"PAYMENT_PENDING", "PAYMENT_REJECTED"} => payment[o] = "UNVERIFIED"
    /\ status[o] = "PAYMENT_VERIFIED" => payment[o] = "VERIFIED"
    /\ status[o] \in {"IN_ROUTE", "DELIVERED", "CANCELLED"} => assignment[o] # "NONE"

\* The history of draws stays intact: the order of every round exists and
\* its number is marked as a winner (deleteOrder refuses an order that took
\* part in a draw, and so does the foreign key of draw_rounds).
WinnersKept ==
  \A i \in DOMAIN rounds : Exists(rounds[i].order) /\ drawn[rounds[i].number]

\* The statuses in which an order owns a number, and with it its stock.
Reserving == {"PAYMENT_PENDING", "PAYMENT_VERIFIED", "IN_ROUTE", "DELIVERED", "CANCELLED"}

\* An order owns a number exactly from selectRaffleNumber to the rejection
\* of its payment or its deletion, and no number is ASSIGNED to nobody, so
\* that every number sold is drawable and every other one is for sale.
NumbersOwned ==
  /\ \A o \in Order : HoldsNumber(o) <=> status[o] \in Reserving
  /\ \A n \in Number : numStatus[n] = "ASSIGNED" => holder[n] # NoOrder

\* The stage of an order fixes its rows: the payment is verified and the
\* delivery reported exactly from the handlers that do so on, and whatever
\* passed the review stays approved.  IN_PREPARATION is never entered.
StageRows ==
  \A o \in Order :
    /\ status[o] # "IN_PREPARATION"
    /\ payment[o] = "VERIFIED" <=>
         status[o] \in {"PAYMENT_VERIFIED", "IN_ROUTE", "DELIVERED", "CANCELLED"}
    /\ assignment[o] # "NONE" <=> status[o] \in {"IN_ROUTE", "DELIVERED", "CANCELLED"}
    /\ status[o] \in Reserving \cup {"PAYMENT_REJECTED"} => review[o] = "APPROVED"

\* The review is the only gate to the raffle (orders.service.ts:236-238): an
\* order that owns a number has an approved dedication.
RaffleGate ==
  \A n \in Number : holder[n] # NoOrder => review[holder[n]] = "APPROVED"

\* Whatever is on its way, delivered or drawn has a confirmed payment.
PaidFirst ==
  /\ \A o \in Order : assignment[o] # "NONE" => payment[o] = "VERIFIED"
  /\ \A i \in DOMAIN rounds : payment[rounds[i].order] = "VERIFIED"

\* A number wins once, an order wins once, and the order of a round still
\* owns the number that was drawn.
WinnersDistinct ==
  \A i, j \in DOMAIN rounds :
    /\ holder[rounds[i].number] = rounds[i].order
    /\ rounds[i].number = rounds[j].number \/ rounds[i].order = rounds[j].order => i = j

\* What the orders that own a number took of a product.
HeldUnits(p) ==
  SumFunctionOnSet([o \in Order |-> Units(o)[p]], {o \in Order : HoldsNumber(o)})

\* The books balance: what is in stock and what the orders that own a number
\* took adds up to what was there when sales opened.
StockLedger == \A p \in Product : stock[p] + HeldUnits(p) = InitialStock[p]

\* No product is sold that is not there, and none appears from nowhere,
\* whatever is rejected, deleted or added to an order by hand.  The exception
\* are the products linked to an item added by hand: addItem takes no stock
\* of them (orders.service.ts:620-635), while a rejection or a deletion gives
\* them back as those of any item (506-512, 568-573).
StockBounded ==
  \A p \in Product :
    /\ stock[p] >= 0
    /\ (\A a \in Additions : a.linked # p) => stock[p] + HeldUnits(p) <= InitialStock[p]

\* Deleting an order gives back whatever it took: when no order has a row,
\* all the stock is there again (orders.service.ts:527-533).
StockReturned == (\A o \in Order : ~Exists(o)) => stock = InitialStock

\* As long as no order was deleted and no item added by hand, no unit is lost
\* either, however requests overlap: what is not in stock was taken by an order
\* that owns a number (selectRaffleNumber, applyPaymentVerificationTx).
\* (Two decisions on one payment that overlap only give back too much.)
NoUnitLost ==
  (\A o \in Order : status[o] # "DELETED") =>
    \A p \in Product : stock[p] + HeldUnits(p) >= InitialStock[p]

(* The lifecycle every order is promised.                                  *)
StageOf(s) ==
  IF s = "UNUSED" THEN "unused"
  ELSE IF s \in {"MESSAGE_PENDING_REVIEW", "MESSAGE_REJECTED"} THEN "review"
  ELSE IF s = "MESSAGE_APPROVED" THEN "ready"
  ELSE IF s = "PAYMENT_PENDING" THEN "reserved"
  ELSE IF s = "PAYMENT_VERIFIED" THEN "paid"
  ELSE IF s = "PAYMENT_REJECTED" THEN "released"
  ELSE IF s = "DELIVERED" THEN "delivered"
  ELSE IF s = "CANCELLED" THEN "cancelled"
  ELSE IF s = "DELETED" THEN "removed"
  ELSE "route"

Lifecycle == INSTANCE OrderLifecycle WITH
  stage <- [o \in Order |-> StageOf(status[o])],
  number <- [o \in Order |-> NumberOf(o)]

\* The handlers implement that lifecycle.
LifecycleSpec == Lifecycle!Spec
=============================================================================
