----------------------------- MODULE OrdersProofs -----------------------------
(***************************************************************************)
(* What is proved of the order service, for any number of orders, products *)
(* and requests: first however requests overlap, then one at a time, then  *)
(* with only the conflicting pairs kept apart, of the stock and of the     *)
(* lifecycle, with the administration of the raffle, and last of the codes *)
(* that new orders get.                                                    *)
(***************************************************************************)
EXTENDS OrderRequests, RaffleAdmin, OrderCodes, SumProofs, SequenceTheorems, TLAPS

-----------------------------------------------------------------------------
(* However requests overlap.  Each transaction preserves RowInv by itself, *)
(* whatever the handler tested before it: the lemmas XxxTxRows use no      *)
(* CanXxx.  The steps of Orders and of OrderRequests then both preserve it.*)

RowInv == RowsTypeOK /\ NumbersAgree /\ StatusAgrees /\ WinnersKept

\* Every draw round names a number and an order.
LEMMA RoundRows ==
  ASSUME RowsTypeOK
  PROVE  \A i \in DOMAIN rounds : rounds[i].number \in Number /\ rounds[i].order \in Order
<1>1. rounds \in Seq([number : Number, order : Order])
  BY DEF RowsTypeOK
<1>2. \A i \in DOMAIN rounds : rounds[i] \in [number : Number, order : Order]
  <2>1. DOMAIN rounds = 1..Len(rounds)
    BY <1>1
  <2> QED
    BY <1>1, <2>1, ElementOfSeq
<1> QED
  BY <1>2

\* The initial rows satisfy RowInv: there is no order and no number is held.
LEMMA InitRows == Init => RowInv
<1> SUFFICES ASSUME Init PROVE RowInv
  OBVIOUS
<1>1. RowsTypeOK
  BY DEF Init, RowsTypeOK, OrderStatus, Absent, Cart, EmptyCart
<1>2. NumbersAgree
  BY NullsAssumption DEF Init, NumbersAgree
<1>3. StatusAgrees
  BY DEF Init, StatusAgrees
<1>4. WinnersKept
  BY DEF Init, WinnersKept
<1> QED
  BY <1>1, <1>2, <1>3, <1>4 DEF RowInv

\* The rows of a checkout agree with each other and disturb no other order.
LEMMA CreateTxRows ==
  ASSUME RowInv, NEW S \in SUBSET Order, NEW g \in SUBSET Order,
         NEW ch \in Channels, NEW lettered \in SUBSET S, NEW cart \in [S -> Carts],
         CreateTx(S, g, ch, lettered, cart)
  PROVE  RowInv'
<1> USE DEF RowInv, CreateTx, orderRows, numberRows, productRows
<1>1. RowsTypeOK'
  <2>1. \A o \in S : cart[o] \in Cart
    BY CartsAssumption
  <2> QED
    BY <2>1, ChannelsAssumption
    DEF RowsTypeOK, OrderStatus, Absent, DedicationStatus, DedicationReview
<1>2. NumbersAgree'
  BY NullsAssumption
  DEF RowsTypeOK, NumbersAgree, Exists, Absent, OrderStatus, DedicationStatus
<1>3. StatusAgrees'
  BY DEF RowsTypeOK, StatusAgrees, DedicationStatus, DedicationReview
<1>4. WinnersKept'
  <2>1. \A o \in Order : Exists(o) => Exists(o)'
    BY DEF RowsTypeOK, Exists, Absent, DedicationStatus
  <2> QED
    BY <2>1, RoundRows DEF WinnersKept
<1> QED
  BY <1>1, <1>2, <1>3, <1>4

\* A decision on the dedication writes status and review together.
LEMMA VerifyMessageTxRows ==
  ASSUME RowInv, NEW o \in Order, NEW approved \in BOOLEAN, VerifyMessageTx(o, approved)
  PROVE  RowInv'
<1> USE DEF RowInv, VerifyMessageTx, orderRows, numberRows, productRows
<1>1. RowsTypeOK'
  BY DEF RowsTypeOK, OrderStatus
<1>2. NumbersAgree'
  BY NullsAssumption DEF RowsTypeOK, NumbersAgree, Exists, Absent
<1>3. StatusAgrees'
  BY DEF RowsTypeOK, StatusAgrees
<1>4. WinnersKept'
  BY DEF RowsTypeOK, WinnersKept, Exists, Absent
<1> QED
  BY <1>1, <1>2, <1>3, <1>4

\* So does a dedication sent again.
LEMMA ResubmitMessageTxRows ==
  ASSUME RowInv, NEW o \in Order, NEW hasLetter \in BOOLEAN, ResubmitMessageTx(o, hasLetter)
  PROVE  RowInv'
<1> USE DEF RowInv, ResubmitMessageTx, orderRows, numberRows, productRows
<1>1. RowsTypeOK'
  BY DEF RowsTypeOK, OrderStatus, DedicationStatus, DedicationReview
<1>2. NumbersAgree'
  BY NullsAssumption DEF RowsTypeOK, NumbersAgree, Exists, Absent, DedicationStatus
<1>3. StatusAgrees'
  BY DEF RowsTypeOK, StatusAgrees, DedicationStatus, DedicationReview
<1>4. WinnersKept'
  BY DEF RowsTypeOK, WinnersKept, Exists, Absent, DedicationStatus
<1> QED
  BY <1>1, <1>2, <1>3, <1>4

\* The chosen number was AVAILABLE, hence held by nobody, and the unique key
\* keeps the order from holding a second one.
LEMMA SelectRaffleNumberTxRows ==
  ASSUME RowInv, NEW o \in Order, NEW n \in Number, SelectRaffleNumberTx(o, n)
  PROVE  RowInv'
<1> USE DEF RowInv, SelectRaffleNumberTx
<1>1. RowsTypeOK'
  BY DEF RowsTypeOK, OrderStatus
<1>2. NumbersAgree'
  <2>1. holder[n] = NoOrder
    BY DEF NumbersAgree, Claimable
  <2>2. \A x \in Order : Exists(x) => Exists(x)'
    BY DEF RowsTypeOK, Exists, Absent
  <2>3. \A m \in Number : holder[m] # o
    BY DEF HoldsNumber
  <2>4. \A m \in Number : holder'[m] = IF m = n THEN o ELSE holder[m]
    BY DEF RowsTypeOK
  <2>5. ASSUME NEW m \in Number, holder'[m] # NoOrder
        PROVE  /\ numStatus'[m] = "ASSIGNED"
               /\ status'[holder'[m]] \notin Absent
               /\ payment'[holder'[m]] # "NONE"
    BY <2>2, <2>4, <2>5 DEF RowsTypeOK, NumbersAgree, Exists
  <2>6. \A k, m \in Number : holder'[k] = holder'[m] /\ holder'[k] # NoOrder => k = m
    BY <2>3, <2>4 DEF NumbersAgree
  <2> QED
    BY <2>5, <2>6 DEF NumbersAgree, Exists
<1>3. StatusAgrees'
  BY DEF RowsTypeOK, StatusAgrees
<1>4. WinnersKept'
  BY RoundRows DEF RowsTypeOK, WinnersKept, Exists, Absent
<1> QED
  BY <1>1, <1>2, <1>3, <1>4

\* A payment decision writes status and payment of the same orders, and a
\* rejection empties exactly the numbers of those orders.
LEMMA VerifyPaymentTxRows ==
  ASSUME RowInv, NEW S \in SUBSET Order, NEW verified \in BOOLEAN,
         VerifyPaymentTx(S, verified)
  PROVE  RowInv'
<1> USE DEF RowInv, VerifyPaymentTx
<1>1. RowsTypeOK'
  BY DEF RowsTypeOK, OrderStatus
<1>2. \A x \in Order : Exists(x) => Exists(x)'
  BY DEF RowsTypeOK, Exists, Absent
<1>3. NumbersAgree'
  <2>1. \A m \in Number : holder'[m] # NoOrder =>
          holder'[m] = holder[m] /\ numStatus'[m] = numStatus[m]
    <3>1. CASE verified
      BY <3>1
    <3>2. CASE ~verified
      <4>1. /\ holder' = [m \in Number |-> IF holder[m] \in S THEN NoOrder ELSE holder[m]]
            /\ numStatus' = [m \in Number |->
                 IF holder[m] \in S THEN "AVAILABLE" ELSE numStatus[m]]
        BY <3>2
      <4> QED
        BY <4>1
    <3> QED
      BY <3>1, <3>2
  <2>2. \A x \in Order : payment[x] # "NONE" => payment'[x] # "NONE"
    BY DEF RowsTypeOK
  <2>3. ASSUME NEW m \in Number, holder'[m] # NoOrder
        PROVE  /\ numStatus'[m] = "ASSIGNED"
               /\ status'[holder'[m]] \notin Absent
               /\ payment'[holder'[m]] # "NONE"
    BY <1>2, <2>1, <2>2, <2>3 DEF RowsTypeOK, NumbersAgree, Exists
  <2> QED
    BY <2>1, <2>3 DEF NumbersAgree, Exists
<1>4. StatusAgrees'
  BY DEF RowsTypeOK, StatusAgrees
<1>5. WinnersKept'
  BY <1>2, RoundRows DEF WinnersKept
<1> QED
  BY <1>1, <1>3, <1>4, <1>5

\* A deletion leaves no number pointing at the order, even if the number it
\* read is no longer the one the order holds, and no round loses its order.
LEMMA DeleteTxRows ==
  ASSUME RowInv, NEW o \in Order, NEW n \in Number \cup {NoNumber}, DeleteTx(o, n)
  PROVE  RowInv'
<1> USE DEF RowInv, DeleteTx
<1>1. RowsTypeOK'
  <2>1. EmptyCart \in Cart
    BY DEF EmptyCart, Cart
  <2> QED
    BY <2>1 DEF RowsTypeOK, OrderStatus, Absent, HolderWithout
<1>2. \A x \in Order : x # o => /\ Exists(x) => Exists(x)'
                              /\ payment'[x] = payment[x]
  BY DEF RowsTypeOK, Exists
<1>3. NumbersAgree'
  <2>1. ASSUME NEW m \in Number, holder'[m] # NoOrder
        PROVE  /\ holder'[m] = holder[m]
               /\ holder[m] # o
               /\ numStatus'[m] = numStatus[m]
    BY <2>1 DEF RowsTypeOK, HolderWithout
  <2>2. ASSUME NEW m \in Number, holder'[m] # NoOrder
        PROVE  /\ numStatus'[m] = "ASSIGNED"
               /\ status'[holder'[m]] \notin Absent
               /\ payment'[holder'[m]] # "NONE"
    BY <1>2, <2>1, <2>2 DEF RowsTypeOK, NumbersAgree, Exists
  <2> QED
    BY <2>1, <2>2 DEF NumbersAgree, Exists
<1>4. StatusAgrees'
  BY DEF RowsTypeOK, StatusAgrees
<1>5. WinnersKept'
  BY <1>2, RoundRows DEF WinnersKept, Deletable, InDraw
<1> QED
  BY <1>1, <1>3, <1>4, <1>5

\* A cart with one more item is a cart.
LEMMA WithItemIsCart ==
  ASSUME NEW c \in Cart, NEW a \in Additions
  PROVE  WithItem(c, a) \in Cart
<1>1. a.quantity \in Nat
  BY AdditionsAssumption
<1>2. \A p \in Product : c.main[p] \in Nat /\ c.addOn[p] \in Nat
  BY DEF Cart
<1>3. \A p \in Product :
        /\ c.main[p] + (IF p = a.product THEN a.quantity ELSE 0) \in Nat
        /\ c.addOn[p] + (IF p = a.linked THEN a.quantity ELSE 0) \in Nat
  BY <1>1, <1>2
<1> QED
  BY <1>3 DEF WithItem, Cart

\* An added item changes the cart and the stock only.
LEMMA AddItemTxRows ==
  ASSUME RowInv, NEW o \in Order, NEW a \in Additions, AddItemTx(o, a)
  PROVE  RowInv'
<1> USE DEF RowInv, AddItemTx, numberRows
<1>1. WithItem(items[o], a) \in Cart
  <2>1. items[o] \in Cart
    BY DEF RowsTypeOK
  <2> QED
    BY <2>1, WithItemIsCart
<1>2. RowsTypeOK'
  <2>1. items' \in [Order -> Cart]
    BY <1>1 DEF RowsTypeOK
  <2> QED
    BY <2>1 DEF RowsTypeOK
<1>3. NumbersAgree' /\ StatusAgrees' /\ WinnersKept'
  BY DEF NumbersAgree, StatusAgrees, WinnersKept, Exists
<1> QED
  BY <1>2, <1>3

\* A delivery report leaves a row of delivery_assignments and a status that
\* an order has from then on.
LEMMA UpdateDeliveryTxRows ==
  ASSUME RowInv, NEW o \in Order, NEW d \in AssignmentStatus, UpdateDeliveryTx(o, d)
  PROVE  RowInv'
<1> USE DEF RowInv, UpdateDeliveryTx, numberRows, productRows
<1>1. RowsTypeOK'
  BY DEF RowsTypeOK, OrderStatus, mapDeliveryStatusToOrderStatus
<1>2. NumbersAgree'
  BY NullsAssumption
  DEF RowsTypeOK, NumbersAgree, Exists, Absent, mapDeliveryStatusToOrderStatus
<1>3. StatusAgrees'
  BY DEF RowsTypeOK, StatusAgrees, mapDeliveryStatusToOrderStatus
<1>4. WinnersKept'
  BY RoundRows DEF RowsTypeOK, WinnersKept, Exists, Absent, mapDeliveryStatusToOrderStatus
<1> QED
  BY <1>1, <1>2, <1>3, <1>4

\* A draw adds a round of an order that exists, and marks its number.
LEMMA DrawTxRows ==
  ASSUME RowInv, NEW n \in Number, NEW o \in Order, DrawTx(n, o)
  PROVE  RowInv'
<1> USE DEF RowInv, DrawTx, orderRows
<1> DEFINE Round == [number : Number, order : Order]
           round == [number |-> n, order |-> o]
<1>1. rounds \in Seq(Round) /\ round \in Round
  BY DEF RowsTypeOK
<1>2. rounds' = Append(rounds, round)
  OBVIOUS
<1>3. rounds' \in Seq(Round)
  BY <1>1, <1>2, AppendProperties
<1>4. RowsTypeOK'
  BY <1>3 DEF RowsTypeOK, productRows
<1>5. NumbersAgree' /\ StatusAgrees'
  <2>1. UNCHANGED <<status, review, payment, assignment, holder, numStatus>>
    BY DEF orderRows
  <2> QED
    BY <2>1 DEF NumbersAgree, StatusAgrees, Exists
<1>6. WinnersKept'
  <2>1. \A i \in DOMAIN rounds' :
          \/ i \in DOMAIN rounds /\ rounds'[i] = rounds[i]
          \/ rounds'[i] = round
    BY <1>1, <1>2, AppendProperties
  <2>2. \A m \in Number : drawn[m] => drawn'[m]
    BY DEF RowsTypeOK
  <2>3. drawn'[n]
    BY DEF RowsTypeOK
  <2> QED
    BY <2>1, <2>2, <2>3, RoundRows DEF WinnersKept, Exists
<1> QED
  BY <1>4, <1>5, <1>6

\* Switching a product on or off touches no row of an order.
LEMMA SetProductActiveRows ==
  ASSUME RowInv, NEW p \in Product, SetProductActive(p)
  PROVE  RowInv'
BY DEF RowInv, SetProductActive, orderRows, numberRows, RowsTypeOK, NumbersAgree,
       StatusAgrees, WinnersKept, Exists

\* A step that changes no row keeps RowInv.
LEMMA StutterRows ==
  ASSUME RowInv, UNCHANGED vars
  PROVE  RowInv'
BY DEF vars, orderRows, numberRows, productRows, RowInv, RowsTypeOK, NumbersAgree,
       StatusAgrees, WinnersKept, Exists

\* A creation, alone or for several recipients, or a switch of the catalogue.
LEMMA SingleRows ==
  ASSUME RowInv, Single
  PROVE  RowInv'
<1>1. ASSUME NEW S \in SUBSET Order, CreatePublicOrdersMulti(S) PROVE RowInv'
  BY <1>1, CreateTxRows DEF CreatePublicOrdersMulti
<1>2. ASSUME NEW o \in Order, CreatePublicOrder(o) PROVE RowInv'
  BY <1>2, CreateTxRows DEF CreatePublicOrder
<1>3. ASSUME NEW p \in Product, SetProductActive(p) PROVE RowInv'
  BY <1>3, SetProductActiveRows
<1> QED
  BY <1>1, <1>2, <1>3 DEF Single

-----------------------------------------------------------------------------
(* The service that serves one request at a time.                          *)

\* Every handler, tested and run in one step, keeps RowInv.
LEMMA NextRows ==
  ASSUME RowInv, [Next]_vars
  PROVE  RowInv'
<1>1. ASSUME NEW S \in SUBSET Order, CreatePublicOrdersMulti(S) PROVE RowInv'
  BY <1>1, CreateTxRows DEF CreatePublicOrdersMulti
<1>2. ASSUME NEW o \in Order, CreatePublicOrder(o) PROVE RowInv'
  BY <1>2, CreateTxRows DEF CreatePublicOrder
<1>3. ASSUME NEW o \in Order, VerifyMessage(o) PROVE RowInv'
  BY <1>3, VerifyMessageTxRows DEF VerifyMessage
<1>4. ASSUME NEW o \in Order, ResubmitMessage(o) PROVE RowInv'
  BY <1>4, ResubmitMessageTxRows DEF ResubmitMessage
<1>5. ASSUME NEW o \in Order, SelectRaffleNumber(o) PROVE RowInv'
  BY <1>5, SelectRaffleNumberTxRows DEF SelectRaffleNumber
<1>6. ASSUME NEW o \in Order, VerifyPayment(o) PROVE RowInv'
  BY <1>6, VerifyPaymentTxRows DEF VerifyPayment
<1>7. ASSUME NEW o \in Order, VerifyPaymentGroup(group[o]) PROVE RowInv'
  <2>1. GroupRows(group[o]) \in SUBSET Order
    BY DEF RowInv, RowsTypeOK, GroupRows
  <2> QED
    BY <1>7, <2>1, VerifyPaymentTxRows DEF VerifyPaymentGroup
<1>8. ASSUME NEW o \in Order, DeleteOrder(o) PROVE RowInv'
  <2>1. NumberOf(o) \in Number \cup {NoNumber}
    BY DEF NumberOf, HoldsNumber
  <2> QED
    BY <1>8, <2>1, DeleteTxRows DEF DeleteOrder
<1>9. ASSUME NEW o \in Order, AddItem(o) PROVE RowInv'
  BY <1>9, AddItemTxRows DEF AddItem
<1>10. ASSUME NEW o \in Order, UpdateDeliveryStatus(o) PROVE RowInv'
  BY <1>10, UpdateDeliveryTxRows DEF UpdateDeliveryStatus
<1>11. ASSUME NEW n \in Number, Draw(n) PROVE RowInv'
  <2>1. holder[n] \in Order
    BY <1>11 DEF Draw, Eligible, RowInv, RowsTypeOK
  <2> QED
    BY <1>11, <2>1, DrawTxRows DEF Draw
<1>12. ASSUME NEW p \in Product, SetProductActive(p) PROVE RowInv'
  BY <1>12, SetProductActiveRows
<1>13. CASE UNCHANGED vars
  BY <1>13, StutterRows
<1> QED
  BY <1>1, <1>2, <1>3, <1>4, <1>5, <1>6, <1>7, <1>8, <1>9, <1>10, <1>11, <1>12, <1>13
  DEF Next

\* One at a time, every column keeps a value of its type and the rows agree.
THEOREM OrdersRows == Spec => []RowInv
<1>1. Init => RowInv
  BY InitRows
<1>2. RowInv /\ [Next]_vars => RowInv'
  BY NextRows
<1> QED
  BY <1>1, <1>2, PTL DEF Spec

-----------------------------------------------------------------------------
(* Overlapping requests.  What a handler keeps is typed, and a draw keeps  *)
(* a number; nothing else about it is needed.                              *)

CallsOK ==
  /\ req \in [Request -> Call \cup {Idle}]
  /\ \A r \in Request : req[r] # Idle /\ req[r].op = "draw" => req[r].number \in Number

\* A request that begins keeps every slot typed, and a draw keeps its number.
LEMMA BeginCalls ==
  ASSUME CallsOK, NEW r \in Request, NEW op \in Op, NEW S \in SUBSET Order,
         NEW n \in Number \cup {NoNumber}, op = "draw" => n \in Number,
         Begin(r, op, S, n)
  PROVE  CallsOK'
<1> DEFINE call == [op |-> op, orders |-> S, number |-> n]
<1>1. call \in Call /\ call.op = op /\ call.number = n
  BY DEF Call
<1>2. req' = [req EXCEPT ![r] = call]
  BY DEF Begin
<1>3. req' \in [Request -> Call \cup {Idle}]
  BY <1>1, <1>2 DEF CallsOK
<1>4. ASSUME NEW q \in Request, req'[q] # Idle, req'[q].op = "draw"
      PROVE  req'[q].number \in Number
  <2>1. CASE q = r
    BY <1>1, <1>2, <1>4, <2>1 DEF CallsOK
  <2>2. CASE q # r
    BY <1>2, <1>4, <2>2 DEF CallsOK
  <2> QED
    BY <2>1, <2>2
<1> QED
  BY <1>3, <1>4 DEF CallsOK

\* A slot that becomes free keeps the others as they were.
LEMMA IdleCalls ==
  ASSUME CallsOK, NEW r \in Request, req' = [req EXCEPT ![r] = Idle]
  PROVE  CallsOK'
BY DEF CallsOK

\* Each reading half of a handler begins a well-formed call.
LEMMA BeginStepCalls ==
  ASSUME RowInv, CallsOK, NEW r \in Request, BeginStep(r)
  PROVE  CallsOK' /\ UNCHANGED vars
<1> USE DEF Op
<1>1. ASSUME NEW o \in Order, BeginVerifyMessage(r, o) PROVE CallsOK' /\ UNCHANGED vars
  BY <1>1, BeginCalls DEF BeginVerifyMessage, Begin
<1>2. ASSUME NEW o \in Order, BeginResubmitMessage(r, o) PROVE CallsOK' /\ UNCHANGED vars
  BY <1>2, BeginCalls DEF BeginResubmitMessage, Begin
<1>3. ASSUME NEW o \in Order, BeginSelectRaffleNumber(r, o) PROVE CallsOK' /\ UNCHANGED vars
  BY <1>3, BeginCalls DEF BeginSelectRaffleNumber, Begin
<1>4. ASSUME NEW S \in SUBSET Order, BeginVerifyPayment(r, S) PROVE CallsOK' /\ UNCHANGED vars
  BY <1>4, BeginCalls DEF BeginVerifyPayment, Begin
<1>5. \A o \in Order : GroupRows(group[o]) \in SUBSET Order
  BY DEF RowInv, RowsTypeOK, GroupRows
<1>6. ASSUME NEW o \in Order, BeginDeleteOrder(r, o) PROVE CallsOK' /\ UNCHANGED vars
  <2>1. NumberOf(o) \in Number \cup {NoNumber}
    BY DEF NumberOf, HoldsNumber
  <2> QED
    BY <1>6, <2>1, BeginCalls DEF BeginDeleteOrder, Begin
<1>7. ASSUME NEW o \in Order, BeginAddItem(r, o) PROVE CallsOK' /\ UNCHANGED vars
  BY <1>7, BeginCalls DEF BeginAddItem, Begin
<1>8. ASSUME NEW o \in Order, BeginUpdateDelivery(r, o) PROVE CallsOK' /\ UNCHANGED vars
  BY <1>8, BeginCalls DEF BeginUpdateDelivery, Begin
<1>9. ASSUME NEW n \in Number, BeginDraw(r, n) PROVE CallsOK' /\ UNCHANGED vars
  <2>1. {holder[n]} \in SUBSET Order
    BY <1>9 DEF BeginDraw, Eligible, RowInv, RowsTypeOK
  <2> QED
    BY <1>9, <2>1, BeginCalls DEF BeginDraw, Begin
<1> QED
  BY <1>1, <1>2, <1>3, <1>4, <1>5, <1>6, <1>7, <1>8, <1>9 DEF BeginStep

\* Each transaction keeps RowInv, whatever changed since its call was tested.
LEMMA CommitStepRows ==
  ASSUME RowInv, CallsOK, NEW r \in Request, CommitStep(r)
  PROVE  RowInv' /\ CallsOK'
<1>1. ASSUME NEW op \in Op, Finish(r, op)
      PROVE  /\ req[r].orders \in SUBSET Order
             /\ req[r].number \in Number \cup {NoNumber}
             /\ op = "draw" => req[r].number \in Number
             /\ CallsOK'
  <2>1. req[r] \in Call /\ req[r].op = op
    BY <1>1 DEF Finish, CallsOK
  <2> QED
    BY <1>1, <2>1, IdleCalls DEF Finish, Call, CallsOK
<1> USE DEF Op
<1>2. CASE CommitVerifyMessage(r)
  BY <1>1, <1>2, VerifyMessageTxRows DEF CommitVerifyMessage
<1>3. CASE CommitResubmitMessage(r)
  BY <1>1, <1>3, ResubmitMessageTxRows DEF CommitResubmitMessage
<1>4. CASE CommitSelectRaffleNumber(r)
  BY <1>1, <1>4, SelectRaffleNumberTxRows DEF CommitSelectRaffleNumber
<1>5. CASE CommitVerifyPayment(r)
  BY <1>1, <1>5, VerifyPaymentTxRows DEF CommitVerifyPayment
<1>6. CASE CommitDeleteOrder(r)
  BY <1>1, <1>6, DeleteTxRows DEF CommitDeleteOrder
<1>7. CASE CommitAddItem(r)
  BY <1>1, <1>7, AddItemTxRows DEF CommitAddItem
<1>8. CASE CommitUpdateDelivery(r)
  BY <1>1, <1>8, UpdateDeliveryTxRows DEF CommitUpdateDelivery
<1>9. CASE CommitDraw(r)
  BY <1>1, <1>9, DrawTxRows DEF CommitDraw
<1> QED
  BY <1>2, <1>3, <1>4, <1>5, <1>6, <1>7, <1>8, <1>9 DEF CommitStep

\* RowInv and CallsOK are inductive for overlapping requests.
LEMMA RequestNextRows ==
  ASSUME RowInv, CallsOK, [RequestNext]_requestVars
  PROVE  RowInv' /\ CallsOK'
<1>1. CASE Single
  BY <1>1, SingleRows DEF Single, CallsOK
<1>2. ASSUME NEW r \in Request, BeginStep(r) PROVE RowInv' /\ CallsOK'
  BY <1>2, BeginStepCalls, StutterRows
<1>3. ASSUME NEW r \in Request, CommitStep(r) PROVE RowInv' /\ CallsOK'
  BY <1>3, CommitStepRows
<1>4. ASSUME NEW r \in Request, Fail(r) PROVE RowInv' /\ CallsOK'
  BY <1>4, StutterRows, IdleCalls DEF Fail
<1>5. CASE UNCHANGED requestVars
  BY <1>5, StutterRows DEF requestVars, CallsOK
<1> QED
  BY <1>1, <1>2, <1>3, <1>4, <1>5 DEF RequestNext

\* However many requests overlap, the rows agree and every call is typed.
THEOREM RequestsRows == RequestSpec => [](RowInv /\ CallsOK)
<1>1. RequestInit => RowInv /\ CallsOK
  BY InitRows DEF RequestInit, CallsOK
<1>2. RowInv /\ CallsOK /\ [RequestNext]_requestVars => (RowInv /\ CallsOK)'
  BY RequestNextRows
<1> QED
  BY <1>1, <1>2, PTL DEF RequestSpec

\* A held number is ASSIGNED, its order exists and has a payment, and no
\* order holds two, whatever overlaps.
THEOREM RequestsNumbersAgree == RequestSpec => []NumbersAgree
<1>1. RowInv /\ CallsOK => NumbersAgree
  BY DEF RowInv
<1> QED
  BY <1>1, RequestsRows, PTL

\* The status of an order never contradicts its review and its payment, nor
\* is it past the first delivery report without an assignment.
THEOREM RequestsStatusAgrees == RequestSpec => []StatusAgrees
<1>1. RowInv /\ CallsOK => StatusAgrees
  BY DEF RowInv
<1> QED
  BY <1>1, RequestsRows, PTL

\* No order that took part in a draw is ever deleted.
THEOREM RequestsWinnersKept == RequestSpec => []WinnersKept
<1>1. RowInv /\ CallsOK => WinnersKept
  BY DEF RowInv
<1> QED
  BY <1>1, RequestsRows, PTL

-----------------------------------------------------------------------------
(* What holds when requests are served one at a time: here the transaction *)
(* finds the order as the handler tested it, so each lemma assumes both    *)
(* the CanXxx test and the XxxTx transaction.  The inductive invariant     *)
(* adds to RowInv the rows each stage of an order implies.                 *)

\* The stages of an order whose payment is confirmed.
PaidStages == {"PAYMENT_VERIFIED", "IN_ROUTE", "DELIVERED", "CANCELLED"}

SerialInv == RowInv /\ StageRows /\ NumbersOwned /\ WinnersDistinct /\ PaidFirst

\* With no order, no number held and no round, SerialInv holds.
LEMMA InitSerial == Init => SerialInv
<1> SUFFICES ASSUME Init PROVE SerialInv
  OBVIOUS
<1>1. RowInv
  BY InitRows
<1>2. StageRows
  BY DEF Init, StageRows, Reserving
<1>3. NumbersOwned
  BY NullsAssumption DEF Init, NumbersOwned, HoldsNumber, Reserving
<1>4. WinnersDistinct /\ PaidFirst
  BY DEF Init, WinnersDistinct, PaidFirst
<1> QED
  BY <1>1, <1>2, <1>3, <1>4 DEF SerialInv

\* A step that moves orders between stages without touching numbers, rounds
\* or the stages' reserving set keeps NumbersOwned, and with the payments of
\* the drawn orders unchanged it keeps the winners.
LEMMA KeepsNumbers ==
  ASSUME SerialInv, UNCHANGED <<holder, numStatus>>,
         \A o \in Order : status'[o] \in Reserving <=> status[o] \in Reserving
  PROVE  NumbersOwned'
BY DEF SerialInv, NumbersOwned, HoldsNumber

\* New orders own no number: their ids were never used, so no row names them.
LEMMA CreateTxSerial ==
  ASSUME SerialInv, NEW S \in SUBSET Order, NEW g \in SUBSET Order,
         NEW ch \in Channels, NEW lettered \in SUBSET S, NEW cart \in [S -> Carts],
         CreateTx(S, g, ch, lettered, cart)
  PROVE  SerialInv'
<1> USE DEF CreateTx, numberRows
<1>1. RowInv'
  BY CreateTxRows DEF SerialInv
<1>2. \A o \in Order : \/ status'[o] = status[o] /\ review'[o] = review[o]
                       \/ /\ status[o] = "UNUSED"
                          /\ status'[o] \in {"MESSAGE_PENDING_REVIEW", "MESSAGE_APPROVED"}
  BY DEF DedicationStatus
<1>3. StageRows'
  BY <1>2 DEF SerialInv, StageRows, Reserving
<1>4. NumbersOwned'
  BY <1>2, KeepsNumbers DEF Reserving
<1>5. WinnersDistinct' /\ PaidFirst'
  BY <1>3, <1>2 DEF SerialInv, WinnersDistinct, PaidFirst, StageRows
<1> QED
  BY <1>1, <1>3, <1>4, <1>5 DEF SerialInv

\* Neither a decision on the dedication nor sending it again touches an order
\* that owns a number: both find it in the review.
LEMMA VerifyMessageSerial ==
  ASSUME SerialInv, NEW o \in Order, NEW approved \in BOOLEAN,
         CanVerifyMessage(o), VerifyMessageTx(o, approved)
  PROVE  SerialInv'
<1> USE DEF VerifyMessageTx, CanVerifyMessage, numberRows
<1>1. RowInv'
  BY VerifyMessageTxRows DEF SerialInv
<1>2. \A x \in Order :
        IF x = o THEN status'[x] \in {"MESSAGE_APPROVED", "MESSAGE_REJECTED"}
                 ELSE status'[x] = status[x] /\ review'[x] = review[x]
  BY DEF SerialInv, RowInv, RowsTypeOK
<1>3. StageRows'
  BY <1>2 DEF SerialInv, StageRows, Reserving
<1>4. NumbersOwned'
  BY <1>2, KeepsNumbers DEF Reserving
<1>5. WinnersDistinct' /\ PaidFirst'
  BY DEF SerialInv, WinnersDistinct, PaidFirst
<1> QED
  BY <1>1, <1>3, <1>4, <1>5 DEF SerialInv

\* A dedication sent again stays in the stages before the number.
LEMMA ResubmitMessageSerial ==
  ASSUME SerialInv, NEW o \in Order, NEW hasLetter \in BOOLEAN,
         CanResubmitMessage(o), ResubmitMessageTx(o, hasLetter)
  PROVE  SerialInv'
<1> USE DEF ResubmitMessageTx, CanResubmitMessage, numberRows
<1>1. RowInv'
  BY ResubmitMessageTxRows DEF SerialInv
<1>2. \A x \in Order :
        IF x = o THEN status'[x] \in {"MESSAGE_APPROVED", "MESSAGE_PENDING_REVIEW"}
                 ELSE status'[x] = status[x] /\ review'[x] = review[x]
  BY DEF SerialInv, RowInv, RowsTypeOK, DedicationStatus
<1>3. StageRows'
  BY <1>2 DEF SerialInv, StageRows, Reserving
<1>4. NumbersOwned'
  BY <1>2, KeepsNumbers DEF Reserving
<1>5. WinnersDistinct' /\ PaidFirst'
  BY DEF SerialInv, WinnersDistinct, PaidFirst
<1> QED
  BY <1>1, <1>3, <1>4, <1>5 DEF SerialInv

\* The chosen number was nobody's and the approved order had none, so every
\* other order keeps its number and no drawn number changes hands.
LEMMA SelectRaffleNumberSerial ==
  ASSUME SerialInv, NEW o \in Order, NEW n \in Number,
         CanSelectRaffleNumber(o), SelectRaffleNumberTx(o, n)
  PROVE  SerialInv'
<1> USE DEF SelectRaffleNumberTx, CanSelectRaffleNumber
<1>1. RowInv'
  BY SelectRaffleNumberTxRows DEF SerialInv
<1>2. RowsTypeOK
  BY DEF SerialInv, RowInv
<1>3. holder[n] = NoOrder
  BY DEF SerialInv, RowInv, NumbersAgree, Claimable
<1>4. \A m \in Number : /\ holder'[m] = IF m = n THEN o ELSE holder[m]
                        /\ numStatus'[m] = IF m = n THEN "ASSIGNED" ELSE numStatus[m]
  BY <1>2 DEF RowsTypeOK
<1>5. \A x \in Order : /\ status'[x] = IF x = o THEN "PAYMENT_PENDING" ELSE status[x]
                       /\ payment'[x] = IF x = o THEN "UNVERIFIED" ELSE payment[x]
  BY <1>2 DEF RowsTypeOK
<1>6. StageRows'
  BY <1>5 DEF SerialInv, RowInv, StatusAgrees, StageRows, Reserving
<1>7. NumbersOwned'
  <2>1. ASSUME NEW x \in Order PROVE (HoldsNumber(x) <=> status[x] \in Reserving)'
    <3>1. CASE x = o
      BY <1>4, <1>5, <3>1 DEF HoldsNumber, Reserving
    <3>2. CASE x # o
      BY <1>3, <1>4, <1>5, <3>2, NullsAssumption
      DEF HoldsNumber, Reserving, SerialInv, NumbersOwned
    <3> QED
      BY <3>1, <3>2
  <2> QED
    BY <1>4, <2>1, NullsAssumption DEF NumbersOwned, SerialInv
<1>8. WinnersDistinct' /\ PaidFirst'
  <2>1. payment[o] # "VERIFIED"
    BY DEF SerialInv, StageRows
  <2>2. ASSUME NEW i \in DOMAIN rounds
        PROVE  rounds[i].number # n /\ rounds[i].order # o
    <3>1. holder[rounds[i].number] = rounds[i].order /\ rounds[i].order \in Order
      BY <1>2, RoundRows DEF SerialInv, WinnersDistinct
    <3>2. payment[rounds[i].order] = "VERIFIED"
      BY DEF SerialInv, PaidFirst
    <3> QED
      BY <1>3, <2>1, <3>1, <3>2, NullsAssumption
  <2>3. assignment[o] = "NONE"
    BY DEF SerialInv, StageRows
  <2>4. \A i \in DOMAIN rounds :
          /\ holder'[rounds[i].number] = holder[rounds[i].number]
          /\ payment'[rounds[i].order] = payment[rounds[i].order]
    BY <1>2, <1>4, <1>5, <2>2, RoundRows
  <2> QED
    BY <1>5, <2>3, <2>4 DEF SerialInv, WinnersDistinct, PaidFirst
<1> QED
  BY <1>1, <1>6, <1>7, <1>8 DEF SerialInv

\* The decided orders were PAYMENT_PENDING, so none of them was drawn; those
\* rejected lose the number they had and nobody else loses one.
LEMMA VerifyPaymentSerial ==
  ASSUME SerialInv, NEW S \in SUBSET Order, NEW verified \in BOOLEAN,
         \A x \in S : status[x] = "PAYMENT_PENDING", VerifyPaymentTx(S, verified)
  PROVE  SerialInv'
<1> USE DEF VerifyPaymentTx
<1>1. RowInv'
  BY VerifyPaymentTxRows DEF SerialInv
<1>2. RowsTypeOK
  BY DEF SerialInv, RowInv
<1>3. \A x \in S : status[x] = "PAYMENT_PENDING"
  OBVIOUS
<1>4. \A x \in Order :
        IF x \in S
          THEN /\ status'[x] = IF verified THEN "PAYMENT_VERIFIED" ELSE "PAYMENT_REJECTED"
               /\ payment'[x] = IF verified THEN "VERIFIED" ELSE "UNVERIFIED"
          ELSE status'[x] = status[x] /\ payment'[x] = payment[x]
  OBVIOUS
<1>5. \A m \in Number :
        IF ~verified /\ holder[m] \in S
          THEN holder'[m] = NoOrder /\ numStatus'[m] = "AVAILABLE"
          ELSE holder'[m] = holder[m] /\ numStatus'[m] = numStatus[m]
  <2>1. CASE verified
    BY <2>1
  <2>2. CASE ~verified
    <3>1. /\ holder' = [m \in Number |-> IF holder[m] \in S THEN NoOrder ELSE holder[m]]
          /\ numStatus' = [m \in Number |->
               IF holder[m] \in S THEN "AVAILABLE" ELSE numStatus[m]]
      BY <2>2
    <3> QED
      BY <2>2, <3>1
  <2> QED
    BY <2>1, <2>2
<1>6. StageRows'
  BY <1>3, <1>4 DEF SerialInv, StageRows, Reserving
<1>7. NumbersOwned'
  <2>1. ASSUME NEW x \in Order PROVE (HoldsNumber(x) <=> status[x] \in Reserving)'
    <3>1. CASE x \in S /\ ~verified
      BY <1>4, <1>5, <3>1, NullsAssumption DEF HoldsNumber, Reserving
    <3>2. CASE x \notin S \/ verified
      <4>1. HoldsNumber(x)' <=> HoldsNumber(x)
        BY <1>5, <3>2, NullsAssumption DEF HoldsNumber
      <4>2. status'[x] \in Reserving <=> status[x] \in Reserving
        BY <1>3, <1>4, <3>2 DEF Reserving
      <4> QED
        BY <4>1, <4>2 DEF SerialInv, NumbersOwned
    <3> QED
      BY <3>1, <3>2
  <2>2. ASSUME NEW m \in Number, numStatus'[m] = "ASSIGNED" PROVE holder'[m] # NoOrder
    BY <1>5, <2>2 DEF SerialInv, NumbersOwned
  <2> QED
    BY <2>1, <2>2 DEF NumbersOwned
<1>8. WinnersDistinct' /\ PaidFirst'
  <2>1. \A x \in S : payment[x] # "VERIFIED" /\ assignment[x] = "NONE"
    BY <1>3 DEF SerialInv, StageRows
  <2>2. \A i \in DOMAIN rounds : rounds[i].order \notin S
    BY <2>1 DEF SerialInv, PaidFirst
  <2> QED
    BY <1>2, <1>4, <1>5, <2>1, <2>2, RoundRows DEF SerialInv, WinnersDistinct, PaidFirst
<1> QED
  BY <1>1, <1>6, <1>7, <1>8 DEF SerialInv

\* The deletion frees the one number the order owns, which was never drawn.
LEMMA DeleteOrderSerial ==
  ASSUME SerialInv, NEW o \in Order, DeleteTx(o, NumberOf(o))
  PROVE  SerialInv'
<1> USE DEF DeleteTx
<1>1. NumberOf(o) \in Number \cup {NoNumber}
  BY DEF NumberOf, HoldsNumber
<1>2. RowInv' /\ RowsTypeOK
  BY <1>1, DeleteTxRows DEF SerialInv, RowInv
<1>3. \A m \in Number : holder[m] = o <=> m = NumberOf(o)
  BY NullsAssumption DEF SerialInv, RowInv, NumbersAgree, NumberOf, HoldsNumber
<1>4. \A m \in Number : /\ holder'[m] = IF holder[m] = o THEN NoOrder ELSE holder[m]
                        /\ numStatus'[m] = IF holder[m] = o THEN "AVAILABLE" ELSE numStatus[m]
  BY <1>3 DEF HolderWithout
<1>5. \A x \in Order :
        IF x = o THEN status'[x] = "DELETED" /\ payment'[x] = "NONE" /\ assignment'[x] = "NONE"
        ELSE /\ status'[x] = status[x] /\ payment'[x] = payment[x]
             /\ assignment'[x] = assignment[x] /\ review'[x] = review[x]
  BY <1>2 DEF RowsTypeOK
<1>6. StageRows'
  BY <1>5 DEF SerialInv, StageRows, Reserving
<1>7. NumbersOwned'
  <2>1. ASSUME NEW x \in Order PROVE (HoldsNumber(x) <=> status[x] \in Reserving)'
    <3>1. CASE x = o
      BY <1>4, <1>5, <3>1, NullsAssumption DEF HoldsNumber, Reserving
    <3>2. CASE x # o
      BY <1>4, <1>5, <3>2, NullsAssumption
      DEF HoldsNumber, Reserving, SerialInv, NumbersOwned
    <3> QED
      BY <3>1, <3>2
  <2>2. ASSUME NEW m \in Number, numStatus'[m] = "ASSIGNED" PROVE holder'[m] # NoOrder
    BY <1>4, <2>2 DEF SerialInv, NumbersOwned
  <2> QED
    BY <2>1, <2>2 DEF NumbersOwned
<1>8. WinnersDistinct' /\ PaidFirst'
  <2>1. \A i \in DOMAIN rounds : rounds[i].order # o
    BY DEF Deletable, InDraw
  <2>2. \A i \in DOMAIN rounds : /\ holder'[rounds[i].number] = holder[rounds[i].number]
                                /\ payment'[rounds[i].order] = payment[rounds[i].order]
    BY <1>2, <1>4, <1>5, <2>1, RoundRows DEF SerialInv, WinnersDistinct
  <2> QED
    BY <1>5, <2>2 DEF SerialInv, WinnersDistinct, PaidFirst
<1> QED
  BY <1>2, <1>6, <1>7, <1>8 DEF SerialInv

\* An added item moves no order to another stage and touches no number.
LEMMA AddItemSerial ==
  ASSUME SerialInv, NEW o \in Order, NEW a \in Additions, AddItemTx(o, a)
  PROVE  SerialInv'
<1>1. RowInv'
  BY AddItemTxRows DEF SerialInv
<1>2. UNCHANGED <<status, review, payment, assignment, holder, numStatus, rounds>>
  BY DEF AddItemTx, numberRows
<1> QED
  BY <1>1, <1>2
  DEF SerialInv, StageRows, NumbersOwned, HoldsNumber, WinnersDistinct, PaidFirst

\* A delivery report finds a paid order and leaves it in a paid stage.
LEMMA UpdateDeliverySerial ==
  ASSUME SerialInv, NEW o \in Order, NEW d \in AssignmentStatus,
         status[o] \in PaidStages, UpdateDeliveryTx(o, d)
  PROVE  SerialInv'
<1> USE DEF UpdateDeliveryTx, PaidStages, numberRows
<1>1. RowInv' /\ RowsTypeOK
  BY UpdateDeliveryTxRows DEF SerialInv, RowInv
<1>2. \A x \in Order :
        IF x = o THEN /\ status'[x] \in {"IN_ROUTE", "DELIVERED", "CANCELLED"}
                      /\ assignment'[x] # "NONE"
                 ELSE status'[x] = status[x] /\ assignment'[x] = assignment[x]
  BY <1>1 DEF RowsTypeOK, AssignmentStatus, mapDeliveryStatusToOrderStatus
<1>3. StageRows'
  BY <1>2 DEF SerialInv, StageRows, Reserving
<1>4. NumbersOwned'
  <2>1. \A x \in Order : status'[x] \in Reserving <=> status[x] \in Reserving
    BY <1>2 DEF SerialInv, StageRows, Reserving
  <2> QED
    BY <2>1, KeepsNumbers
<1>5. WinnersDistinct' /\ PaidFirst'
  BY <1>2 DEF SerialInv, StageRows, WinnersDistinct, PaidFirst
<1> QED
  BY <1>1, <1>3, <1>4, <1>5 DEF SerialInv

\* An eligible number was not drawn yet, and neither was its order, since an
\* order owns one number.
LEMMA DrawSerial ==
  ASSUME SerialInv, NEW n \in Number, NEW o \in Order,
         ~drawn[n], holder[n] = o, payment[o] = "VERIFIED", DrawTx(n, o)
  PROVE  SerialInv'
<1> USE DEF DrawTx, orderRows
<1>1. o \in Order /\ RowsTypeOK
  BY DEF SerialInv, RowInv
<1>2. RowInv'
  BY <1>1, DrawTxRows DEF SerialInv
<1>3. StageRows' /\ NumbersOwned'
  BY DEF SerialInv, StageRows, NumbersOwned, HoldsNumber
<1>4. \A i \in DOMAIN rounds' :
        \/ i \in DOMAIN rounds /\ rounds'[i] = rounds[i]
        \/ i = Len(rounds) + 1 /\ rounds'[i] = [number |-> n, order |-> o]
  BY <1>1, AppendProperties DEF RowsTypeOK
<1>5. \A i \in DOMAIN rounds : rounds[i].number # n
  BY DEF SerialInv, RowInv, WinnersKept
<1>6. \A i \in DOMAIN rounds : rounds[i].order # o
  BY <1>1, <1>5, RoundRows, NullsAssumption
  DEF SerialInv, RowInv, NumbersAgree, WinnersDistinct
<1>7. WinnersDistinct'
  BY <1>4, <1>5, <1>6 DEF SerialInv, WinnersDistinct
<1>8. PaidFirst'
  BY <1>1, <1>4 DEF SerialInv, PaidFirst
<1> QED
  BY <1>2, <1>3, <1>7, <1>8 DEF SerialInv

\* Every handler of the one-at-a-time service keeps SerialInv.
LEMMA NextSerial ==
  ASSUME SerialInv, [Next]_vars
  PROVE  SerialInv'
<1>1. ASSUME NEW S \in SUBSET Order, CreatePublicOrdersMulti(S) PROVE SerialInv'
  BY <1>1, CreateTxSerial DEF CreatePublicOrdersMulti
<1>2. ASSUME NEW o \in Order, CreatePublicOrder(o) PROVE SerialInv'
  BY <1>2, CreateTxSerial DEF CreatePublicOrder
<1>3. ASSUME NEW o \in Order, VerifyMessage(o) PROVE SerialInv'
  BY <1>3, VerifyMessageSerial DEF VerifyMessage
<1>4. ASSUME NEW o \in Order, ResubmitMessage(o) PROVE SerialInv'
  BY <1>4, ResubmitMessageSerial DEF ResubmitMessage
<1>5. ASSUME NEW o \in Order, SelectRaffleNumber(o) PROVE SerialInv'
  BY <1>5, SelectRaffleNumberSerial DEF SelectRaffleNumber
<1>6. ASSUME NEW o \in Order, VerifyPayment(o) PROVE SerialInv'
  BY <1>6, VerifyPaymentSerial DEF VerifyPayment, CanVerifyPayment
<1>7. ASSUME NEW o \in Order, VerifyPaymentGroup(group[o]) PROVE SerialInv'
  <2>1. GroupRows(group[o]) \in SUBSET Order
    BY DEF SerialInv, RowInv, RowsTypeOK, GroupRows
  <2> QED
    BY <1>7, <2>1, VerifyPaymentSerial DEF VerifyPaymentGroup, CanVerifyPayment
<1>8. ASSUME NEW o \in Order, DeleteOrder(o) PROVE SerialInv'
  BY <1>8, DeleteOrderSerial DEF DeleteOrder
<1>9. ASSUME NEW o \in Order, AddItem(o) PROVE SerialInv'
  BY <1>9, AddItemSerial DEF AddItem
<1>10. ASSUME NEW o \in Order, UpdateDeliveryStatus(o) PROVE SerialInv'
  BY <1>10, UpdateDeliverySerial
  DEF UpdateDeliveryStatus, CanUpdateDelivery, PaidStages, SerialInv, StageRows
<1>11. ASSUME NEW n \in Number, Draw(n) PROVE SerialInv'
  <2>1. holder[n] \in Order
    BY <1>11 DEF Draw, Eligible, SerialInv, RowInv, RowsTypeOK
  <2> QED
    BY <1>11, <2>1, DrawSerial DEF Draw, Eligible
<1>12. ASSUME NEW p \in Product, SetProductActive(p) PROVE SerialInv'
  <2>1. UNCHANGED <<status, review, payment, assignment, holder, numStatus, rounds>>
    BY <1>12 DEF SetProductActive, orderRows, numberRows
  <2> QED
    BY <1>12, <2>1, SetProductActiveRows
    DEF SerialInv, StageRows, NumbersOwned, HoldsNumber, WinnersDistinct, PaidFirst
<1>13. CASE UNCHANGED vars
  <2>1. UNCHANGED <<status, review, payment, assignment, holder, numStatus, rounds>>
    BY <1>13 DEF vars, orderRows, numberRows
  <2> QED
    BY <1>13, <2>1, StutterRows
    DEF SerialInv, StageRows, NumbersOwned, HoldsNumber, WinnersDistinct, PaidFirst
<1> QED
  BY <1>1, <1>2, <1>3, <1>4, <1>5, <1>6, <1>7, <1>8, <1>9, <1>10, <1>11, <1>12, <1>13
  DEF Next

\* The inductive invariant of the service that serves one request at a time.
THEOREM SerialInvariant == Spec => []SerialInv
<1>1. Init => SerialInv
  BY InitSerial
<1>2. SerialInv /\ [Next]_vars => SerialInv'
  BY NextSerial
<1> QED
  BY <1>1, <1>2, PTL DEF Spec

\* An order owns a number exactly in the reserving stages, and no number is
\* ASSIGNED to nobody.
THEOREM SerialNumbersOwned == Spec => []NumbersOwned
<1>1. SerialInv => NumbersOwned
  BY DEF SerialInv
<1> QED
  BY <1>1, SerialInvariant, PTL

\* A number that is held was chosen in a stage that implies the review.
LEMMA SerialGate == SerialInv => RaffleGate
<1> SUFFICES ASSUME SerialInv, NEW n \in Number, holder[n] # NoOrder
             PROVE  review[holder[n]] = "APPROVED"
  BY DEF RaffleGate
<1>1. holder[n] \in Order
  BY DEF SerialInv, RowInv, RowsTypeOK
<1>2. status[holder[n]] \in Reserving
  BY <1>1 DEF SerialInv, NumbersOwned, HoldsNumber
<1> QED
  BY <1>1, <1>2 DEF SerialInv, StageRows

\* Nobody owns a raffle number without an approved dedication.
THEOREM SerialRaffleGate == Spec => []RaffleGate
  BY SerialGate, SerialInvariant, PTL

\* Whatever is on its way, delivered or drawn has a confirmed payment.
THEOREM SerialPaidFirst == Spec => []PaidFirst
<1>1. SerialInv => PaidFirst
  BY DEF SerialInv
<1> QED
  BY <1>1, SerialInvariant, PTL

\* A number wins once, an order wins once, and the winner keeps its number.
THEOREM SerialWinnersDistinct == Spec => []WinnersDistinct
<1>1. SerialInv => WinnersDistinct
  BY DEF SerialInv
<1> QED
  BY <1>1, SerialInvariant, PTL

-----------------------------------------------------------------------------
(* Served one at a time, the order service implements OrderLifecycle: each *)
(* handler is one step of the lifecycle or leaves it alone.  What the map  *)
(* needs of RowInv is that NumberOf is the inverse of holder, and that a   *)
(* number that is AVAILABLE has no holder.                                 *)

\* The number an order owns and the holder of a number say the same.
NumbersInverse ==
  \A o \in Order :
    /\ NumberOf(o) \in Number \cup {NoNumber}
    /\ \A n \in Number : holder[n] = o <=> NumberOf(o) = n

\* With one number per order, NumberOf is a choice among one.
LEMMA InverseNumbers == RowInv => NumbersInverse
<1> SUFFICES ASSUME RowInv, NEW o \in Order
             PROVE  /\ NumberOf(o) \in Number \cup {NoNumber}
                    /\ \A n \in Number : holder[n] = o <=> NumberOf(o) = n
  BY DEF NumbersInverse
<1> QED
  BY NullsAssumption DEF RowInv, NumbersAgree, NumberOf, HoldsNumber

\* The holders are what changes the numbers of the lifecycle.
LEMMA InverseStep ==
  ASSUME RowInv, RowInv'
  PROVE  /\ NumbersInverse /\ NumbersInverse'
         /\ \A o \in Order :
              (\A n \in Number : holder'[n] = o <=> holder[n] = o)
                => NumberOf(o)' = NumberOf(o)
<1>1. NumbersInverse /\ NumbersInverse'
  BY InverseNumbers, PTL
<1>2. ASSUME NEW o \in Order, \A n \in Number : holder'[n] = o <=> holder[n] = o
      PROVE  NumberOf(o)' = NumberOf(o)
  BY <1>1, <1>2, NullsAssumption DEF NumbersInverse
<1> QED
  BY <1>1, <1>2

\* Before the first order, the lifecycle is at its start.
LEMMA InitLifecycle == Init => Lifecycle!Init
<1> SUFFICES ASSUME Init PROVE Lifecycle!Init
  OBVIOUS
<1>1. \A o \in Order : StageOf(status[o]) = "unused"
  BY DEF Init, StageOf
<1>2. \A o \in Order : NumberOf(o) = NoNumber
  BY NullsAssumption DEF Init, NumberOf, HoldsNumber
<1> QED
  BY <1>1, <1>2 DEF Lifecycle!Init

\* A step that moves no order to another stage and gives no number another
\* holder leaves the lifecycle alone.
LEMMA LifecycleStutter ==
  ASSUME RowInv, RowInv', UNCHANGED holder,
         \A o \in Order : StageOf(status'[o]) = StageOf(status[o])
  PROVE  UNCHANGED Lifecycle!vars
<1>1. \A o \in Order : NumberOf(o)' = NumberOf(o)
  BY InverseStep
<1> QED
  BY <1>1 DEF Lifecycle!vars

\* Orders placed with a dedication enter the review, the others skip it.
LEMMA CreatePlaces ==
  ASSUME RowInv, RowInv', NEW S \in SUBSET Order, S # {}, NEW g, NEW ch,
         NEW lettered \in SUBSET S, NEW cart, CreateTx(S, g, ch, lettered, cart)
  PROVE  Lifecycle!Next
<1>1. \A o \in S : StageOf(status[o]) = "unused"
  BY DEF CreateTx, StageOf
<1>2. \A o \in Order : StageOf(status'[o]) =
        IF o \notin S THEN StageOf(status[o])
        ELSE IF o \in lettered THEN "review" ELSE "ready"
  BY DEF CreateTx, DedicationStatus, StageOf
<1>3. \A o \in Order : NumberOf(o)' = NumberOf(o)
  BY InverseStep DEF CreateTx, numberRows
<1>4. Lifecycle!Place(S, lettered)
  BY <1>1, <1>2, <1>3 DEF Lifecycle!Place
<1> QED
  BY <1>4 DEF Lifecycle!Next

\* A decision on the dedication, and a dedication sent again, approve the
\* order or leave it in the review.
LEMMA ReviewApproves ==
  ASSUME RowInv, RowInv', NEW o \in Order,
         StageOf(status[o]) = "review", UNCHANGED holder,
         NEW s \in {"MESSAGE_PENDING_REVIEW", "MESSAGE_APPROVED", "MESSAGE_REJECTED"},
         status' = [status EXCEPT ![o] = s]
  PROVE  Lifecycle!Next \/ UNCHANGED Lifecycle!vars
<1>1. \A x \in Order : status'[x] = IF x = o THEN s ELSE status[x]
  BY DEF RowInv, RowsTypeOK
<1>2. CASE s = "MESSAGE_APPROVED"
  <2>1. \A x \in Order : StageOf(status'[x]) = IF x = o THEN "ready" ELSE StageOf(status[x])
    BY <1>1, <1>2 DEF StageOf
  <2>2. \A x \in Order : NumberOf(x)' = NumberOf(x)
    BY InverseStep
  <2>3. Lifecycle!Approve(o)
    BY <2>1, <2>2 DEF Lifecycle!Approve
  <2> QED
    BY <2>3 DEF Lifecycle!Next
<1>3. CASE s # "MESSAGE_APPROVED"
  <2>1. StageOf(s) = "review"
    BY <1>3 DEF StageOf
  <2> QED
    BY <1>1, <2>1, LifecycleStutter
<1> QED
  BY <1>2, <1>3

\* The number chosen was free: AVAILABLE numbers have no holder.
LEMMA SelectReserves ==
  ASSUME RowInv, RowInv', NEW o \in Order, NEW n \in Number,
         CanSelectRaffleNumber(o), SelectRaffleNumberTx(o, n)
  PROVE  Lifecycle!Next
<1> USE DEF SelectRaffleNumberTx
<1>1. RowsTypeOK
  BY DEF RowInv
<1>2. StageOf(status[o]) = "ready"
  BY DEF CanSelectRaffleNumber, StageOf
<1>3. \A x \in Order : StageOf(status'[x]) = IF x = o THEN "reserved" ELSE StageOf(status[x])
  BY <1>1 DEF RowsTypeOK, StageOf
<1>4. holder[n] = NoOrder
  BY DEF RowInv, NumbersAgree, Claimable
<1>5. \A m \in Number : holder'[m] = IF m = n THEN o ELSE holder[m]
  BY <1>1 DEF RowsTypeOK
<1>6. \A x \in Order : NumberOf(x) # n
  BY <1>4, InverseStep, NullsAssumption DEF NumbersInverse
<1>7. \A x \in Order : NumberOf(x)' = IF x = o THEN n ELSE NumberOf(x)
  BY <1>4, <1>5, InverseStep, NullsAssumption DEF NumbersInverse
<1>8. Lifecycle!Reserve(o, n)
  BY <1>2, <1>3, <1>6, <1>7 DEF Lifecycle!Reserve, Lifecycle!Free
<1> QED
  BY <1>8 DEF Lifecycle!Next

\* One decision on a payment, or on those of a group, moves all its orders;
\* the rejected ones lose their numbers.
LEMMA PaymentDecides ==
  ASSUME RowInv, RowInv', NEW S \in SUBSET Order, S # {},
         NEW verified \in BOOLEAN, \A x \in S : status[x] = "PAYMENT_PENDING",
         VerifyPaymentTx(S, verified)
  PROVE  Lifecycle!Next
<1>1. \A x \in S : StageOf(status[x]) = "reserved"
  BY DEF StageOf
<1>2. CASE verified
  <2>1. \A x \in Order : StageOf(status'[x]) = IF x \in S THEN "paid" ELSE StageOf(status[x])
    BY <1>2 DEF VerifyPaymentTx, StageOf
  <2>2. \A x \in Order : NumberOf(x)' = NumberOf(x)
    BY <1>2, InverseStep DEF VerifyPaymentTx
  <2>3. Lifecycle!Confirm(S)
    BY <1>1, <2>1, <2>2 DEF Lifecycle!Confirm
  <2> QED
    BY <2>3 DEF Lifecycle!Next
<1>3. CASE ~verified
  <2>1. \A x \in Order : StageOf(status'[x]) = IF x \in S THEN "released" ELSE StageOf(status[x])
    BY <1>3 DEF VerifyPaymentTx, StageOf
  <2>2. holder' = [m \in Number |-> IF holder[m] \in S THEN NoOrder ELSE holder[m]]
    BY <1>3 DEF VerifyPaymentTx
  <2>3. \A x \in Order : NumberOf(x)' = IF x \in S THEN NoNumber ELSE NumberOf(x)
    <3>1. ASSUME NEW x \in S PROVE NumberOf(x)' = NoNumber
      BY <2>2, InverseStep, NullsAssumption DEF NumbersInverse
    <3>2. ASSUME NEW x \in Order, x \notin S PROVE NumberOf(x)' = NumberOf(x)
      BY <2>2, <3>2, InverseStep, NullsAssumption
    <3> QED
      BY <3>1, <3>2
  <2>4. Lifecycle!Release(S)
    BY <1>1, <2>1, <2>3 DEF Lifecycle!Release
  <2> QED
    BY <2>4 DEF Lifecycle!Next
<1> QED
  BY <1>2, <1>3

\* A deleted order was not delivered, and its number is free again.
LEMMA DeleteRemoves ==
  ASSUME RowInv, RowInv', NEW o \in Order, CanDelete(o), DeleteTx(o, NumberOf(o))
  PROVE  Lifecycle!Next
<1>1. RowsTypeOK
  BY DEF RowInv
<1>2. StageOf(status[o]) \notin {"unused", "delivered", "removed"}
  BY <1>1 DEF CanDelete, Exists, Absent, OrderStatus, RowsTypeOK, StageOf
<1>3. \A x \in Order : StageOf(status'[x]) = IF x = o THEN "removed" ELSE StageOf(status[x])
  BY <1>1 DEF DeleteTx, RowsTypeOK, StageOf
<1>4. \A m \in Number : holder'[m] = IF holder[m] = o THEN NoOrder ELSE holder[m]
  BY InverseStep DEF NumbersInverse, DeleteTx, HolderWithout
<1>5. \A x \in Order : NumberOf(x)' = IF x = o THEN NoNumber ELSE NumberOf(x)
  <2>1. NumberOf(o)' = NoNumber
    BY <1>4, InverseStep, NullsAssumption DEF NumbersInverse
  <2>2. ASSUME NEW x \in Order, x # o PROVE NumberOf(x)' = NumberOf(x)
    BY <1>4, <2>2, InverseStep, NullsAssumption
  <2> QED
    BY <2>1, <2>2
<1>6. Lifecycle!Remove(o)
  BY <1>2, <1>3, <1>5 DEF Lifecycle!Remove
<1> QED
  BY <1>6 DEF Lifecycle!Next

\* Only a paid order is delivered.  IN_PREPARATION, which the handler also
\* accepts, counts as on its way.
LEMMA UpdateDelivers ==
  ASSUME RowInv, RowInv', NEW o \in Order, NEW d \in AssignmentStatus,
         CanUpdateDelivery(o), UpdateDeliveryTx(o, d)
  PROVE  Lifecycle!Next
<1>1. RowsTypeOK
  BY DEF RowInv
<1>2. StageOf(status[o]) \in {"paid", "route"}
  BY DEF CanUpdateDelivery, StageOf
<1>3. PICK s \in {"route", "delivered", "cancelled"} :
        \A x \in Order : StageOf(status'[x]) = IF x = o THEN s ELSE StageOf(status[x])
  <2>1. \A x \in Order : status'[x] =
          IF x = o THEN mapDeliveryStatusToOrderStatus(d) ELSE status[x]
    BY <1>1 DEF UpdateDeliveryTx, RowsTypeOK
  <2>2. StageOf(mapDeliveryStatusToOrderStatus(d)) \in {"route", "delivered", "cancelled"}
    BY DEF mapDeliveryStatusToOrderStatus, StageOf
  <2> QED
    BY <2>1, <2>2
<1>4. \A x \in Order : NumberOf(x)' = NumberOf(x)
  BY InverseStep DEF UpdateDeliveryTx, numberRows
<1>5. Lifecycle!Deliver(o, s)
  BY <1>2, <1>3, <1>4 DEF Lifecycle!Deliver
<1> QED
  BY <1>5 DEF Lifecycle!Next, Lifecycle!Stage

\* Every handler is a step of the lifecycle or none.
LEMMA NextLifecycle ==
  ASSUME RowInv, RowInv', [Next]_vars
  PROVE  Lifecycle!Next \/ UNCHANGED Lifecycle!vars
<1>1. ASSUME NEW S \in SUBSET Order, CreatePublicOrdersMulti(S) PROVE Lifecycle!Next
  BY <1>1, CreatePlaces DEF CreatePublicOrdersMulti
<1>2. ASSUME NEW o \in Order, CreatePublicOrder(o) PROVE Lifecycle!Next
  BY <1>2, CreatePlaces DEF CreatePublicOrder
<1>3. ASSUME NEW o \in Order, VerifyMessage(o)
      PROVE  Lifecycle!Next \/ UNCHANGED Lifecycle!vars
  BY <1>3, ReviewApproves
  DEF VerifyMessage, CanVerifyMessage, VerifyMessageTx, StageOf, numberRows
<1>4. ASSUME NEW o \in Order, ResubmitMessage(o)
      PROVE  Lifecycle!Next \/ UNCHANGED Lifecycle!vars
  BY <1>4, ReviewApproves
  DEF ResubmitMessage, CanResubmitMessage, ResubmitMessageTx, DedicationStatus,
      StageOf, numberRows
<1>5. ASSUME NEW o \in Order, SelectRaffleNumber(o) PROVE Lifecycle!Next
  BY <1>5, SelectReserves DEF SelectRaffleNumber
<1>6. ASSUME NEW o \in Order, VerifyPayment(o) PROVE Lifecycle!Next
  BY <1>6, PaymentDecides DEF VerifyPayment, CanVerifyPayment
<1>7. ASSUME NEW o \in Order, VerifyPaymentGroup(group[o]) PROVE Lifecycle!Next
  <2>1. GroupRows(group[o]) \in SUBSET Order
    BY DEF RowInv, RowsTypeOK, GroupRows
  <2> QED
    BY <1>7, <2>1, PaymentDecides DEF VerifyPaymentGroup, CanVerifyPayment
<1>8. ASSUME NEW o \in Order, DeleteOrder(o) PROVE Lifecycle!Next
  BY <1>8, DeleteRemoves DEF DeleteOrder
<1>9. ASSUME NEW o \in Order, UpdateDeliveryStatus(o) PROVE Lifecycle!Next
  BY <1>9, UpdateDelivers DEF UpdateDeliveryStatus
<1>10. ASSUME \/ \E o \in Order : AddItem(o)
              \/ \E n \in Number : Draw(n)
              \/ \E p \in Product : SetProductActive(p)
              \/ UNCHANGED vars
       PROVE  UNCHANGED Lifecycle!vars
  <2>1. UNCHANGED <<status, holder>>
    BY <1>10
    DEF AddItem, AddItemTx, Draw, DrawTx, SetProductActive, vars, orderRows, numberRows
  <2> QED
    BY <2>1, LifecycleStutter
<1> QED
  BY <1>1, <1>2, <1>3, <1>4, <1>5, <1>6, <1>7, <1>8, <1>9, <1>10 DEF Next

\* Whatever the service does when requests are served one at a time, an
\* outsider sees each order go through the promised lifecycle: no number
\* before an approved dedication, one owner per number, no delivery before a
\* confirmed payment (orders.service.ts, createPublicOrder to deleteOrder).
THEOREM LifecycleImplemented == Spec => LifecycleSpec
<1>1. Init => Lifecycle!Init
  BY InitLifecycle
<1>2. RowInv /\ RowInv' /\ [Next]_vars => [Lifecycle!Next]_(Lifecycle!vars)
  BY NextLifecycle
<1>3. Spec => []RowInv
  BY OrdersRows
<1> QED
  BY <1>1, <1>2, <1>3, PTL DEF Spec, LifecycleSpec, Lifecycle!Spec

-----------------------------------------------------------------------------
(* What of the one-at-a-time service survives when requests overlap.  If   *)
(* the pairs in ConflictingPairs are kept apart, whatever else commits     *)
(* between a handler's test and its transaction leaves true, for the       *)
(* orders the handler read, as much of the test as the transaction relies  *)
(* on (Fresh), or deletes the order, which the transaction then does not   *)
(* find.  So SerialInv survives as well, for any number of requests.       *)

Gone(o) == status[o] = "DELETED"

\* What is still true of the orders of a call whenever its transaction runs.
Fresh(c) ==
  \A o \in c.orders :
    /\ status[o] # "UNUSED"
    /\ c.op = "verifyMessage" => CanVerifyMessage(o) \/ Gone(o)
    /\ c.op = "resubmitMessage" => CanResubmitMessage(o) \/ Gone(o)
    /\ c.op = "selectRaffleNumber" =>
         status[o] = "MESSAGE_APPROVED" \/ payment[o] # "NONE" \/ Gone(o)
    /\ c.op = "verifyPayment" => status[o] = "PAYMENT_PENDING"
    /\ c.op = "deleteOrder" => c.number = NumberOf(o) \/ Gone(o)
    /\ c.op = "updateDeliveryStatus" => status[o] \in PaidStages \/ Gone(o)
    /\ c.op = "draw" =>
         \/ ~drawn[c.number] /\ holder[c.number] = o /\ payment[o] = "VERIFIED"
         \/ Gone(o)

InFlight == {r \in Request : req[r] # Idle}
CallsFresh == \A r \in InFlight : Fresh(req[r])
CallsApart == \A q, r \in InFlight : q # r => {req[q].op, req[r].op} \in Together

OverlapInv == SerialInv /\ CallsOK /\ CallsFresh /\ CallsApart

\* What a committed operation may do to an order that was placed before: it
\* moves it between the stages it is for, or deletes it, and it gives or
\* takes a number only where it charges, decides or deletes.
MovesOrder(op, x) ==
  \/ status'[x] = status[x] /\ payment'[x] = payment[x]
  \/ /\ op \in {"verifyMessage", "resubmitMessage"}
     /\ CanVerifyMessage(x)
     /\ status'[x] \notin {"UNUSED", "DELIVERED"} /\ payment'[x] = payment[x]
  \/ /\ op = "selectRaffleNumber"
     /\ status[x] = "MESSAGE_APPROVED"
     /\ status'[x] = "PAYMENT_PENDING" /\ payment'[x] # "NONE"
  \/ /\ op = "verifyPayment"
     /\ status[x] = "PAYMENT_PENDING"
     /\ status'[x] # "UNUSED" /\ payment'[x] # "NONE"
  \/ op = "deleteOrder" /\ Gone(x)'
  \/ /\ op = "updateDeliveryStatus"
     /\ status[x] \in PaidStages /\ status'[x] \in PaidStages
     /\ payment'[x] = payment[x]
KeepsNumber(op, x) ==
  \/ \A n \in Number : holder'[n] = x <=> holder[n] = x
  \/ op = "selectRaffleNumber" /\ status[x] = "MESSAGE_APPROVED"
  \/ op = "verifyPayment" /\ status[x] = "PAYMENT_PENDING"
  \/ op = "deleteOrder" /\ Gone(x)'
Moves(op) ==
  /\ \A x \in Order : status[x] # "UNUSED" => MovesOrder(op, x) /\ KeepsNumber(op, x)
  /\ op # "draw" => UNCHANGED drawn

\* The operations that conflict, spelled out.
LEMMA ApartOps ==
  ASSUME NEW a \in Op, NEW b \in Op, {a, b} \in SafePairs
  PROVE  /\ ~(a = "verifyMessage" /\ b \in {"verifyMessage", "resubmitMessage"})
         /\ ~(a = "resubmitMessage" /\ b \in {"verifyMessage", "resubmitMessage"})
         /\ ~(a = "verifyPayment" /\ b \in {"verifyPayment", "deleteOrder"})
         /\ ~(a = "deleteOrder" /\ b \in {"verifyPayment", "selectRaffleNumber"})
         /\ ~(a = "selectRaffleNumber" /\ b = "deleteOrder")
         /\ ~(a = "draw" /\ b = "draw")
<1>1. {a, b} \notin ConflictingPairs
  BY DEF SafePairs
<1> QED
  BY <1>1 DEF ConflictingPairs

\* An order keeps the number it had if its holders stay the same.
LEMMA SameNumber ==
  ASSUME RowInv, RowInv', NEW x \in Order, \A n \in Number : holder'[n] = x <=> holder[n] = x
  PROVE  NumberOf(x)' = NumberOf(x)
<1>1. CASE HoldsNumber(x)
  <2>1. PICK n \in Number : holder[n] = x
    BY <1>1 DEF HoldsNumber
  <2>2. \A m \in Number : holder[m] = x <=> m = n
    BY <2>1, NullsAssumption DEF RowInv, NumbersAgree
  <2>3. NumberOf(x) = n /\ NumberOf(x)' = n
    BY <2>2 DEF NumberOf, HoldsNumber
  <2> QED
    BY <2>3
<1>2. CASE ~HoldsNumber(x)
  BY <1>2 DEF HoldsNumber, NumberOf
<1> QED
  BY <1>1, <1>2

\* A committed operation leaves what another call relies on, unless the two
\* conflict.
LEMMA FreshKept ==
  ASSUME SerialInv, SerialInv', NEW op \in Op, Moves(op), NEW c \in Call,
         c.op = "draw" => c.number \in Number, Fresh(c), {op, c.op} \in SafePairs
  PROVE  Fresh(c)'
<1> USE DEF Moves, MovesOrder, CanVerifyMessage, CanResubmitMessage, Gone, PaidStages
<1> SUFFICES ASSUME NEW o \in c.orders
    PROVE
    /\ status'[o] # "UNUSED"
    /\ c.op = "verifyMessage" => CanVerifyMessage(o)' \/ Gone(o)'
    /\ c.op = "resubmitMessage" => CanResubmitMessage(o)' \/ Gone(o)'
    /\ c.op = "selectRaffleNumber" =>
         status'[o] = "MESSAGE_APPROVED" \/ payment'[o] # "NONE" \/ Gone(o)'
    /\ c.op = "verifyPayment" => status'[o] = "PAYMENT_PENDING"
    /\ c.op = "deleteOrder" => c.number = NumberOf(o)' \/ Gone(o)'
    /\ c.op = "updateDeliveryStatus" => status'[o] \in PaidStages \/ Gone(o)'
    /\ c.op = "draw" =>
         \/ ~drawn'[c.number] /\ holder'[c.number] = o /\ payment'[o] = "VERIFIED"
         \/ Gone(o)'
  BY DEF Fresh
<1>1. o \in Order /\ c.op \in Op
  BY DEF Call
<1>2. status[o] # "UNUSED"
  BY DEF Fresh
<1>3. MovesOrder(op, o) /\ KeepsNumber(op, o) /\ (op # "draw" => UNCHANGED drawn)
  BY <1>1, <1>2
<1> HIDE DEF Moves
<1>4. status'[o] # "UNUSED"
  BY <1>2, <1>3
<1>5. CASE c.op \in {"verifyMessage", "resubmitMessage"}
  <2>1. op \notin {"verifyMessage", "resubmitMessage"}
    BY <1>1, <1>5, ApartOps
  <2>2. CanVerifyMessage(o) \/ Gone(o)
    BY <1>5 DEF Fresh
  <2>3. status'[o] = status[o] \/ Gone(o)'
    BY <1>3, <2>1, <2>2
  <2> QED
    BY <1>4, <1>5, <2>3 DEF Fresh
<1>6. CASE c.op = "selectRaffleNumber"
  BY <1>3, <1>4, <1>6 DEF Fresh
<1>7. CASE c.op = "verifyPayment"
  <2>1. op \notin {"verifyPayment", "deleteOrder"}
    BY <1>1, <1>7, ApartOps
  <2> QED
    BY <1>3, <1>4, <1>7, <2>1 DEF Fresh
<1>8. CASE c.op = "deleteOrder"
  <2>1. op \notin {"verifyPayment", "selectRaffleNumber"}
    BY <1>1, <1>8, ApartOps
  <2>2. CASE op = "deleteOrder" /\ Gone(o)'
    BY <1>4, <1>8, <2>2
  <2>3. CASE \A n \in Number : holder'[n] = o <=> holder[n] = o
    <3>1. NumberOf(o)' = NumberOf(o)
      BY <1>1, <2>3, SameNumber DEF SerialInv
    <3>2. Gone(o) => Gone(o)'
      BY <1>3
    <3> QED
      BY <1>4, <1>8, <3>1, <3>2 DEF Fresh
  <2> QED
    BY <1>3, <2>1, <2>2, <2>3 DEF KeepsNumber
<1>9. CASE c.op = "updateDeliveryStatus"
  BY <1>3, <1>4, <1>9 DEF Fresh
<1>10. CASE c.op = "draw"
  <2>1. op # "draw"
    BY <1>1, <1>10, ApartOps
  <2>2. Gone(o) => Gone(o)'
    BY <1>3
  <2>3. CASE ~drawn[c.number] /\ holder[c.number] = o /\ payment[o] = "VERIFIED"
    <3>1. status[o] \in PaidStages
      BY <1>1, <2>3 DEF SerialInv, StageRows
    <3>2. Gone(o)' \/ payment'[o] = payment[o]
      BY <1>3, <3>1
    <3>3. c.number \in Number
      BY <1>10
    <3>4. Gone(o)' \/ holder'[c.number] = o
      BY <1>3, <2>3, <3>1, <3>3 DEF KeepsNumber
    <3> QED
      BY <1>3, <1>4, <1>10, <2>1, <2>3, <3>2, <3>4
  <2> QED
    BY <1>4, <1>10, <2>2, <2>3 DEF Fresh
<1>11. CASE c.op = "addItem"
  BY <1>4, <1>11
<1> QED
  BY <1>1, <1>5, <1>6, <1>7, <1>8, <1>9, <1>10, <1>11 DEF Op

-----------------------------------------------------------------------------
(* Each transaction, on orders for which its call is still fresh.          *)

\* A call's orders and number are of their types.
LEMMA CallRows ==
  ASSUME CallsOK, NEW r \in Request, req[r] # Idle
  PROVE  /\ req[r] \in Call
         /\ req[r].orders \in SUBSET Order
         /\ req[r].op \in Op
         /\ req[r].number \in Number \cup {NoNumber}
         /\ req[r].op = "draw" => req[r].number \in Number
BY DEF CallsOK, Call

\* The decision on a dedication finds the dedication to decide.
LEMMA VerifyMessageFresh ==
  ASSUME SerialInv, NEW c \in Call, c.op = "verifyMessage", Fresh(c),
         NEW o \in c.orders, NEW approved \in BOOLEAN, VerifyMessageTx(o, approved)
  PROVE  SerialInv' /\ Moves("verifyMessage")
<1>1. o \in Order
  BY DEF Call
<1>2. CanVerifyMessage(o)
  BY DEF Fresh, VerifyMessageTx, Exists, Absent, Gone
<1>3. SerialInv'
  BY <1>1, <1>2, VerifyMessageSerial
<1>4. Moves("verifyMessage")
  BY <1>1, <1>2 DEF SerialInv, RowInv, RowsTypeOK, VerifyMessageTx, Moves, MovesOrder,
                    KeepsNumber, numberRows
<1> QED
  BY <1>3, <1>4

\* A dedication sent again replaces a rejected one.
LEMMA ResubmitMessageFresh ==
  ASSUME SerialInv, NEW c \in Call, c.op = "resubmitMessage", Fresh(c),
         NEW o \in c.orders, NEW hasLetter \in BOOLEAN, ResubmitMessageTx(o, hasLetter)
  PROVE  SerialInv' /\ Moves("resubmitMessage")
<1>1. o \in Order
  BY DEF Call
<1>2. CanResubmitMessage(o)
  BY DEF Fresh, ResubmitMessageTx, Exists, Absent, Gone
<1>3. SerialInv'
  BY <1>1, <1>2, ResubmitMessageSerial
<1>4. Moves("resubmitMessage")
  BY <1>1, <1>2
  DEF SerialInv, RowInv, RowsTypeOK, ResubmitMessageTx, Moves, MovesOrder, KeepsNumber,
      numberRows, CanResubmitMessage, CanVerifyMessage, DedicationStatus
<1> QED
  BY <1>3, <1>4

\* An order is charged only if it is still approved: the key of its payment
\* refuses a second choice of number.
LEMMA SelectRaffleNumberFresh ==
  ASSUME SerialInv, NEW c \in Call, c.op = "selectRaffleNumber", Fresh(c),
         NEW o \in c.orders, NEW n \in Number, SelectRaffleNumberTx(o, n)
  PROVE  /\ CanSelectRaffleNumber(o)
         /\ SerialInv' /\ Moves("selectRaffleNumber")
<1>1. o \in Order
  BY DEF Call
<1>2. CanSelectRaffleNumber(o)
  BY DEF Fresh, SelectRaffleNumberTx, Exists, Absent, Gone, PaymentKeyFree,
         CanSelectRaffleNumber
<1>3. SerialInv'
  BY <1>1, <1>2, SelectRaffleNumberSerial
<1>4. RowsTypeOK /\ holder[n] = NoOrder
  BY DEF SerialInv, RowInv, NumbersAgree, SelectRaffleNumberTx, Claimable
<1>5. ASSUME NEW x \in Order
      PROVE  MovesOrder("selectRaffleNumber", x) /\ KeepsNumber("selectRaffleNumber", x)
  <2>1. CASE x = o
    BY <1>2, <1>4, <2>1
    DEF SelectRaffleNumberTx, CanSelectRaffleNumber, MovesOrder, KeepsNumber, RowsTypeOK
  <2>2. CASE x # o
    BY <1>4, <2>2, NullsAssumption DEF SelectRaffleNumberTx, MovesOrder, KeepsNumber, RowsTypeOK
  <2> QED
    BY <2>1, <2>2
<1>6. Moves("selectRaffleNumber")
  BY <1>5 DEF Moves, SelectRaffleNumberTx
<1> QED
  BY <1>2, <1>3, <1>6

\* A payment is decided while it is pending.
LEMMA VerifyPaymentFresh ==
  ASSUME SerialInv, NEW c \in Call, c.op = "verifyPayment", Fresh(c),
         NEW verified \in BOOLEAN, VerifyPaymentTx(c.orders, verified)
  PROVE  SerialInv' /\ Moves("verifyPayment")
<1>1. c.orders \in SUBSET Order /\ \A x \in c.orders : status[x] = "PAYMENT_PENDING"
  BY DEF Call, Fresh
<1>2. SerialInv'
  BY <1>1, VerifyPaymentSerial
<1>3. ASSUME NEW m \in Number, NEW x \in Order, x \notin c.orders
      PROVE  holder'[m] = x <=> holder[m] = x
  <2>1. CASE verified
    BY <2>1 DEF VerifyPaymentTx
  <2>2. CASE ~verified
    BY <1>3, <2>2, NullsAssumption DEF VerifyPaymentTx
  <2> QED
    BY <2>1, <2>2
<1>4. Moves("verifyPayment")
  BY <1>1, <1>3 DEF VerifyPaymentTx, Moves, MovesOrder, KeepsNumber
<1> QED
  BY <1>2, <1>4

\* A deletion frees the number the order still owns.
LEMMA DeleteOrderFresh ==
  ASSUME SerialInv, NEW c \in Call, c.op = "deleteOrder", Fresh(c),
         NEW o \in c.orders, DeleteTx(o, c.number)
  PROVE  /\ c.number = NumberOf(o)
         /\ SerialInv' /\ Moves("deleteOrder")
<1>1. o \in Order
  BY DEF Call
<1>2. c.number = NumberOf(o)
  BY DEF Fresh, DeleteTx, Exists, Absent, Gone
<1>3. SerialInv'
  BY <1>1, <1>2, DeleteOrderSerial
<1>4. \A m \in Number : holder[m] = o <=> m = NumberOf(o)
  BY <1>1, NullsAssumption DEF SerialInv, RowInv, NumbersAgree, NumberOf, HoldsNumber
<1>5. ASSUME NEW x \in Order
      PROVE  MovesOrder("deleteOrder", x) /\ KeepsNumber("deleteOrder", x)
  <2>1. CASE x = o
    BY <2>1 DEF SerialInv, RowInv, RowsTypeOK, DeleteTx, MovesOrder, KeepsNumber, Gone
  <2>2. CASE x # o
    BY <1>2, <1>4, <2>2, NullsAssumption
    DEF SerialInv, RowInv, RowsTypeOK, DeleteTx, HolderWithout, MovesOrder, KeepsNumber
  <2> QED
    BY <2>1, <2>2
<1>6. Moves("deleteOrder")
  BY <1>5 DEF Moves, DeleteTx
<1> QED
  BY <1>2, <1>3, <1>6

\* An added item moves nothing.
LEMMA AddItemFresh ==
  ASSUME SerialInv, NEW o \in Order, NEW a \in Additions, AddItemTx(o, a)
  PROVE  SerialInv' /\ Moves("addItem")
<1>1. SerialInv'
  BY AddItemSerial
<1>2. Moves("addItem")
  BY DEF AddItemTx, Moves, MovesOrder, KeepsNumber, numberRows
<1> QED
  BY <1>1, <1>2

\* A delivery report still finds a paid order.
LEMMA UpdateDeliveryFresh ==
  ASSUME SerialInv, NEW c \in Call, c.op = "updateDeliveryStatus", Fresh(c),
         NEW o \in c.orders, NEW d \in AssignmentStatus, UpdateDeliveryTx(o, d)
  PROVE  SerialInv' /\ Moves("updateDeliveryStatus")
<1>1. o \in Order
  BY DEF Call
<1>2. status[o] \in PaidStages
  BY DEF Fresh, UpdateDeliveryTx, Exists, Absent, Gone
<1>3. SerialInv'
  BY <1>1, <1>2, UpdateDeliverySerial
<1>4. mapDeliveryStatusToOrderStatus(d) \in PaidStages
  BY DEF mapDeliveryStatusToOrderStatus, PaidStages
<1>5. Moves("updateDeliveryStatus")
  BY <1>1, <1>2, <1>4
  DEF SerialInv, RowInv, RowsTypeOK, UpdateDeliveryTx, Moves, MovesOrder, KeepsNumber, numberRows
<1> QED
  BY <1>3, <1>5

\* A draw still finds its number undrawn and held by the order it read.
LEMMA DrawFresh ==
  ASSUME SerialInv, NEW c \in Call, c.op = "draw", c.number \in Number, Fresh(c),
         NEW o \in c.orders, DrawTx(c.number, o)
  PROVE  SerialInv' /\ Moves("draw")
<1>1. o \in Order
  BY DEF Call
<1>2. ~drawn[c.number] /\ holder[c.number] = o /\ payment[o] = "VERIFIED"
  BY DEF Fresh, DrawTx, Exists, Absent, Gone
<1>3. SerialInv'
  BY <1>1, <1>2, DrawSerial
<1>4. Moves("draw")
  BY DEF DrawTx, Moves, MovesOrder, KeepsNumber, orderRows
<1> QED
  BY <1>3, <1>4

\* A creation, or the catalogue, moves no order that was placed before; it
\* counts as an operation that moves nothing.
LEMMA SingleFresh ==
  ASSUME SerialInv, Single
  PROVE  SerialInv' /\ Moves("addItem")
<1>1. ASSUME NEW S \in SUBSET Order, NEW g \in SUBSET Order, NEW ch \in Channels,
             NEW lettered \in SUBSET S, NEW cart \in [S -> Carts],
             CreateTx(S, g, ch, lettered, cart)
      PROVE  SerialInv' /\ Moves("addItem")
  <2>1. SerialInv'
    BY <1>1, CreateTxSerial
  <2>2. Moves("addItem")
    BY <1>1 DEF CreateTx, Moves, MovesOrder, KeepsNumber, numberRows
  <2> QED
    BY <2>1, <2>2
<1>2. ASSUME NEW p \in Product, SetProductActive(p) PROVE SerialInv' /\ Moves("addItem")
  <2>1. SerialInv'
    BY <1>2, NextSerial DEF Next
  <2>2. Moves("addItem")
    BY <1>2 DEF SetProductActive, Moves, MovesOrder, KeepsNumber, orderRows, numberRows
  <2> QED
    BY <2>1, <2>2
<1> QED
  BY <1>1, <1>2 DEF Single, CreatePublicOrdersMulti, CreatePublicOrder

\* Whichever transaction runs, on orders that are fresh for its call.
LEMMA CommitFresh ==
  ASSUME OverlapInv, NEW r \in Request, CommitStep(r)
  PROVE  /\ req[r] # Idle
         /\ req' = [req EXCEPT ![r] = Idle]
         /\ SerialInv' /\ Moves(req[r].op)
<1>1. /\ req[r] # Idle
      /\ req' = [req EXCEPT ![r] = Idle]
  BY DEF CommitStep, Finish, CommitVerifyMessage, CommitResubmitMessage,
     CommitSelectRaffleNumber, CommitVerifyPayment, CommitDeleteOrder, CommitAddItem,
     CommitUpdateDelivery, CommitDraw
<1> DEFINE c == req[r]
<1>2. /\ c \in Call /\ Fresh(c) /\ c.orders \in SUBSET Order
      /\ c.op = "draw" => c.number \in Number
  BY <1>1, CallRows DEF OverlapInv, CallsFresh, InFlight
<1>3. SerialInv
  BY DEF OverlapInv
<1> HIDE DEF c
<1>4. CASE CommitVerifyMessage(r)
  BY <1>1, <1>2, <1>3, <1>4, VerifyMessageFresh DEF CommitVerifyMessage, Finish, c
<1>5. CASE CommitResubmitMessage(r)
  BY <1>1, <1>2, <1>3, <1>5, ResubmitMessageFresh DEF CommitResubmitMessage, Finish, c
<1>6. CASE CommitSelectRaffleNumber(r)
  BY <1>1, <1>2, <1>3, <1>6, SelectRaffleNumberFresh DEF CommitSelectRaffleNumber, Finish, c
<1>7. CASE CommitVerifyPayment(r)
  BY <1>1, <1>2, <1>3, <1>7, VerifyPaymentFresh DEF CommitVerifyPayment, Finish, c
<1>8. CASE CommitDeleteOrder(r)
  BY <1>1, <1>2, <1>3, <1>8, DeleteOrderFresh DEF CommitDeleteOrder, Finish, c
<1>9. CASE CommitAddItem(r)
  BY <1>1, <1>2, <1>3, <1>9, AddItemFresh DEF CommitAddItem, Finish, c
<1>10. CASE CommitUpdateDelivery(r)
  BY <1>1, <1>2, <1>3, <1>10, UpdateDeliveryFresh DEF CommitUpdateDelivery, Finish, c
<1>11. CASE CommitDraw(r)
  BY <1>1, <1>2, <1>3, <1>11, DrawFresh DEF CommitDraw, Finish, c
<1> QED
  BY <1>4, <1>5, <1>6, <1>7, <1>8, <1>9, <1>10, <1>11 DEF CommitStep

\* A slot that becomes free leaves the others apart.
LEMMA IdleApart ==
  ASSUME CallsApart, CallsOK, NEW r \in Request, req' = [req EXCEPT ![r] = Idle]
  PROVE  CallsApart'
BY DEF CallsApart, InFlight, CallsOK

\* The calls that stay in flight stay fresh when an operation commits that
\* conflicts with none of them.
LEMMA OthersFresh ==
  ASSUME OverlapInv, SerialInv', NEW op \in Op, Moves(op), NEW q \in Request,
         req[q] # Idle, {op, req[q].op} \in SafePairs, req'[q] = req[q]
  PROVE  Fresh(req[q])'
<1>1. req[q] \in Call /\ (req[q].op = "draw" => req[q].number \in Number)
  BY CallRows DEF OverlapInv
<1>2. Fresh(req[q])
  BY DEF OverlapInv, CallsFresh, InFlight
<1>3. PICK c : c = req[q]
  OBVIOUS
<1>4. Fresh(c)'
  BY <1>1, <1>2, <1>3, FreshKept DEF OverlapInv
<1> QED
  BY <1>3, <1>4 DEF Fresh

\* What the beginning of a call leaves behind.
Begun(r) ==
  /\ req[r] = Idle
  /\ Fresh(req[r])'
  /\ Admitted(req'[r].op)
  /\ \A q \in Request : q # r => req'[q] = req[q]

\* A call whose rows are fresh begins like this.
LEMMA BeginIsFresh ==
  ASSUME OverlapInv, NEW r \in Request, NEW op \in Op, NEW S \in SUBSET Order, NEW n,
         Begin(r, op, S, n), Fresh([op |-> op, orders |-> S, number |-> n])
  PROVE  Begun(r)
<1> DEFINE call == [op |-> op, orders |-> S, number |-> n]
<1>1. req' = [req EXCEPT ![r] = call]
  BY DEF Begin
<1>2. req'[r] = call /\ \A q \in Request : q # r => req'[q] = req[q]
  BY <1>1 DEF OverlapInv, CallsOK
<1>3. UNCHANGED <<status, payment, drawn, holder>>
  BY DEF Begin, vars, orderRows, numberRows
<1>4. PICK k : k = n
  OBVIOUS
<1> DEFINE same == [op |-> op, orders |-> S, number |-> k]
<1>5. Fresh(same)'
  <2>1. \A o \in Order : NumberOf(o)' = NumberOf(o)
    BY <1>3 DEF NumberOf, HoldsNumber
  <2> QED
    BY <1>3, <1>4, <2>1 DEF Fresh, CanVerifyMessage, CanResubmitMessage, Gone
<1>6. Fresh(req[r])'
  BY <1>2, <1>4, <1>5 DEF Fresh
<1> QED
  BY <1>2, <1>6 DEF Begin, Begun

\* Every handler's test makes its call fresh.
LEMMA BeginFresh ==
  ASSUME OverlapInv, NEW r \in Request, BeginStep(r)
  PROVE  UNCHANGED vars /\ CallsOK' /\ Begun(r)
<1>1. UNCHANGED vars /\ CallsOK'
  BY BeginStepCalls DEF OverlapInv, SerialInv
<1> USE DEF Op, Fresh
<1>2. ASSUME NEW o \in Order, BeginVerifyMessage(r, o) PROVE Begun(r)
  BY <1>2, BeginIsFresh DEF BeginVerifyMessage, CanVerifyMessage
<1>3. ASSUME NEW o \in Order, BeginResubmitMessage(r, o) PROVE Begun(r)
  BY <1>3, BeginIsFresh DEF BeginResubmitMessage, CanResubmitMessage
<1>4. ASSUME NEW o \in Order, BeginSelectRaffleNumber(r, o) PROVE Begun(r)
  BY <1>4, BeginIsFresh DEF BeginSelectRaffleNumber, CanSelectRaffleNumber
<1>5. ASSUME NEW S \in SUBSET Order, BeginVerifyPayment(r, S) PROVE Begun(r)
  BY <1>5, BeginIsFresh DEF BeginVerifyPayment, CanVerifyPayment
<1>6. \A o \in Order : GroupRows(group[o]) \in SUBSET Order
  BY DEF OverlapInv, SerialInv, RowInv, RowsTypeOK, GroupRows
<1>7. ASSUME NEW o \in Order, BeginDeleteOrder(r, o) PROVE Begun(r)
  BY <1>7, BeginIsFresh DEF BeginDeleteOrder, CanDelete, Exists, Absent
<1>8. ASSUME NEW o \in Order, BeginAddItem(r, o) PROVE Begun(r)
  BY <1>8, BeginIsFresh DEF BeginAddItem, CanAddItem, Exists, Absent
<1>9. ASSUME NEW o \in Order, BeginUpdateDelivery(r, o) PROVE Begun(r)
  <2>1. status[o] \in PaidStages
    BY <1>9 DEF BeginUpdateDelivery, CanUpdateDelivery, PaidStages, OverlapInv,
       SerialInv, StageRows
  <2> QED
    BY <1>9, <2>1, BeginIsFresh DEF BeginUpdateDelivery, PaidStages
<1>10. ASSUME NEW n \in Number, BeginDraw(r, n) PROVE Begun(r)
  <2>1. /\ holder[n] \in Order /\ ~drawn[n]
        /\ payment[holder[n]] = "VERIFIED" /\ status[holder[n]] # "UNUSED"
    BY <1>10 DEF BeginDraw, Eligible, OverlapInv, SerialInv, RowInv, RowsTypeOK, StageRows
  <2> QED
    BY <1>10, <2>1, BeginIsFresh DEF BeginDraw
<1> QED
  BY <1>1, <1>2, <1>3, <1>4, <1>5, <1>6, <1>7, <1>8, <1>9, <1>10 DEF BeginStep

\* OverlapInv is inductive when conflicting operations are kept apart.
LEMMA OverlapNext ==
  ASSUME Together \subseteq SafePairs, OverlapInv, [RequestNext]_requestVars
  PROVE  OverlapInv'
<1> USE DEF OverlapInv
<1>1. ASSUME NEW op \in Op, Moves(op), SerialInv', NEW q \in Request, req[q] # Idle,
             {op, req[q].op} \in Together, req'[q] = req[q]
      PROVE  Fresh(req[q])'
  BY <1>1, OthersFresh
<1>2. CASE Single
  <2>1. SerialInv' /\ Moves("addItem") /\ UNCHANGED req
    BY <1>2, SingleFresh DEF Single
  <2>2. CallsOK' /\ CallsApart'
    BY <2>1 DEF CallsOK, CallsApart, InFlight
  <2>3. ASSUME NEW q \in Request, req[q] # Idle PROVE {"addItem", req[q].op} \in SafePairs
    <3>1. req[q].op \in Op
      BY <2>3, CallRows
    <3> QED
      BY <3>1 DEF SafePairs, AllPairs, ConflictingPairs, Op
  <2>4. CallsFresh'
    BY <2>1, <2>3, OthersFresh DEF CallsFresh, InFlight, Op
  <2> QED
    BY <2>1, <2>2, <2>4
<1>3. ASSUME NEW r \in Request, BeginStep(r) PROVE OverlapInv'
  <2>1. UNCHANGED vars /\ CallsOK' /\ Begun(r)
    BY <1>3, BeginFresh
  <2>2. SerialInv'
    BY <2>1, NextSerial
  <2>3. Moves("addItem")
    BY <2>1 DEF vars, orderRows, numberRows, Moves, MovesOrder, KeepsNumber
  <2>4. CallsFresh'
    <3>1. ASSUME NEW q \in Request, req'[q] # Idle, q # r PROVE Fresh(req[q])'
      <4>1. req[q] # Idle /\ req'[q] = req[q]
        BY <2>1, <3>1 DEF Begun
      <4>2. req[q].op \in Op
        BY <4>1, CallRows
      <4>3. {"addItem", req[q].op} \in SafePairs
        BY <4>2 DEF SafePairs, AllPairs, ConflictingPairs, Op
      <4> QED
        BY <2>2, <2>3, <4>1, <4>3, OthersFresh DEF Op
    <3>2. Fresh(req[r])'
      BY <2>1 DEF Begun
    <3> QED
      BY <3>1, <3>2 DEF CallsFresh, InFlight
  <2>5. CallsApart'
    BY <2>1 DEF CallsApart, InFlight, Begun, Admitted
  <2> QED
    BY <2>1, <2>2, <2>4, <2>5
<1>4. ASSUME NEW r \in Request, CommitStep(r) PROVE OverlapInv'
  <2>1. /\ req[r] # Idle /\ req' = [req EXCEPT ![r] = Idle]
        /\ SerialInv' /\ Moves(req[r].op)
    BY <1>4, CommitFresh
  <2>2. CallsOK' /\ CallsApart'
    BY <2>1, IdleCalls, IdleApart
  <2>3. ASSUME NEW q \in Request, req'[q] # Idle PROVE Fresh(req[q])'
    <3>1. q # r /\ req'[q] = req[q] /\ req[q] # Idle
      BY <2>1, <2>3 DEF CallsOK
    <3>2. {req[r].op, req[q].op} \in Together /\ req[r].op \in Op
      BY <2>1, <3>1, CallRows DEF CallsApart, InFlight
    <3> QED
      BY <1>1, <2>1, <3>1, <3>2
  <2> QED
    BY <2>1, <2>2, <2>3 DEF CallsFresh, InFlight
<1>5. CASE UNCHANGED vars /\ CallsOK' /\ CallsApart'
           /\ \A q \in Request : req'[q] # Idle => req'[q] = req[q]
  <2>1. SerialInv'
    BY <1>5, NextSerial
  <2>2. Moves("addItem")
    BY <1>5 DEF vars, orderRows, numberRows, Moves, MovesOrder, KeepsNumber
  <2>3. ASSUME NEW q \in Request, req'[q] # Idle PROVE Fresh(req[q])'
    <3>1. req'[q] = req[q] /\ req[q].op \in Op
      BY <1>5, <2>3, CallRows
    <3>2. {"addItem", req[q].op} \in SafePairs
      BY <3>1 DEF SafePairs, AllPairs, ConflictingPairs, Op
    <3> QED
      BY <2>1, <2>2, <2>3, <3>1, <3>2, OthersFresh DEF Op
  <2> QED
    BY <1>5, <2>1, <2>3 DEF CallsFresh, InFlight
<1>6. ASSUME NEW r \in Request, Fail(r) PROVE OverlapInv'
  <2>1. UNCHANGED vars /\ req' = [req EXCEPT ![r] = Idle]
    BY <1>6 DEF Fail
  <2> QED
    BY <1>5, <2>1, IdleCalls, IdleApart DEF CallsOK
<1>7. CASE UNCHANGED requestVars
  <2>1. UNCHANGED vars /\ UNCHANGED req
    BY <1>7 DEF requestVars
  <2> QED
    BY <1>5, <2>1 DEF CallsOK, CallsApart, InFlight
<1> QED
  BY <1>2, <1>3, <1>4, <1>6, <1>7 DEF RequestNext

\* However many requests overlap, as long as no two conflict, the invariant
\* of the one-at-a-time service holds and every call is fresh.
THEOREM OverlapInvariant ==
  ASSUME Together \subseteq SafePairs
  PROVE  RequestSpec => []OverlapInv
<1>1. RequestInit => OverlapInv
  BY InitSerial DEF RequestInit, OverlapInv, CallsOK, CallsFresh, CallsApart, InFlight
<1>2. OverlapInv /\ [RequestNext]_requestVars => OverlapInv'
  BY OverlapNext
<1> QED
  BY <1>1, <1>2, PTL DEF RequestSpec

\* Unless conflicting operations overlap, an order owns a number exactly from
\* the choice of it to the rejection of its payment or its deletion.
THEOREM OverlapNumbersOwned ==
  ASSUME Together \subseteq SafePairs
  PROVE  RequestSpec => []NumbersOwned
<1>1. OverlapInv => NumbersOwned
  BY DEF OverlapInv, SerialInv
<1> QED
  BY <1>1, OverlapInvariant, PTL

\* Unless conflicting operations overlap, nobody owns a raffle number without
\* an approved dedication.
THEOREM OverlapRaffleGate ==
  ASSUME Together \subseteq SafePairs
  PROVE  RequestSpec => []RaffleGate
<1>1. OverlapInv => RaffleGate
  BY SerialGate DEF OverlapInv
<1> QED
  BY <1>1, OverlapInvariant, PTL

\* Unless conflicting operations overlap, whatever is on its way, delivered or
\* drawn has a confirmed payment.
THEOREM OverlapPaidFirst ==
  ASSUME Together \subseteq SafePairs
  PROVE  RequestSpec => []PaidFirst
<1>1. OverlapInv => PaidFirst
  BY DEF OverlapInv, SerialInv
<1> QED
  BY <1>1, OverlapInvariant, PTL

\* Unless conflicting operations overlap, a number wins once, an order wins
\* once, and the winner keeps its number.
THEOREM OverlapWinnersDistinct ==
  ASSUME Together \subseteq SafePairs
  PROVE  RequestSpec => []WinnersDistinct
<1>1. OverlapInv => WinnersDistinct
  BY DEF OverlapInv, SerialInv
<1> QED
  BY <1>1, OverlapInvariant, PTL

-----------------------------------------------------------------------------
(* The stock of a product and what the orders that own a number took of it *)
(* (HeldUnits): each transaction of the service changes both by the same   *)
(* units, so their sum, the books of the product, stays what it was.       *)

Holders == {o \in Order : HoldsNumber(o)}
UnitsTable(p) == [o \in Order |-> Units(o)[p]]
Books(p) == stock[p] + HeldUnits(p)

\* There are at most as many holders as numbers.
LEMMA HoldersFinite == IsFiniteSet(Holders)
<1>1. IsFiniteSet({holder[n] : n \in Number})
  BY NumbersAssumption, ImageFinite
<1>2. Holders \subseteq {holder[n] : n \in Number}
  BY DEF Holders, HoldsNumber
<1> QED
  BY <1>1, <1>2, FS_Subset

\* An order asks for a natural number of units of each product.
LEMMA UnitsNatural ==
  ASSUME RowsTypeOK, NEW o \in Order, NEW p \in Product
  PROVE  UnitsTable(p)[o] = items[o].main[p] + items[o].addOn[p] /\ UnitsTable(p)[o] \in Nat
<1>1. items[o] \in Cart
  BY DEF RowsTypeOK
<1>2. items[o].main[p] \in Nat /\ items[o].addOn[p] \in Nat
  BY <1>1 DEF Cart
<1> QED
  BY <1>2 DEF UnitsTable, Units

\* The books of a product are a number.
LEMMA BooksType ==
  ASSUME TypeOK, NEW p \in Product
  PROVE  stock[p] \in Int /\ HeldUnits(p) \in Nat
<1>1. \A o \in Holders : UnitsTable(p)[o] \in Nat
  BY UnitsNatural DEF TypeOK, Holders
<1>2. SumFunctionOnSet(UnitsTable(p), Holders) \in Nat
  BY <1>1, HoldersFinite, SumNotNegative
<1> QED
  BY <1>2 DEF TypeOK, HeldUnits, UnitsTable, Holders

\* The sum of the units that orders S took of a product.
LEMMA UnitsOfSum ==
  ASSUME RowsTypeOK, NEW S, S \subseteq Order, IsFiniteSet(S), NEW p \in Product
  PROVE  UnitsOf(S, p) = SumFunctionOnSet(UnitsTable(p), S) /\ UnitsOf(S, p) \in Nat
<1>1. \A o \in S : UnitsTable(p)[o] \in Nat
  BY UnitsNatural
<1>2. SumFunctionOnSet(UnitsTable(p), S) \in Nat
  BY <1>1, SumNotNegative
<1> QED
  BY <1>2 DEF UnitsOf, UnitsTable

\* The units of orders whose carts a step leaves alone.
LEMMA UnitsKept ==
  ASSUME NEW S, S \subseteq Order, IsFiniteSet(S), NEW p \in Product,
         \A o \in S : items'[o] = items[o]
  PROVE  UnitsOf(S, p)' = UnitsOf(S, p)
<1> DEFINE f == UnitsTable(p)
           g == UnitsTable(p)'
<1>1. \A o \in S : f[o] = g[o]
  BY DEF UnitsTable, Units
<1>2. UnitsOf(S, p) = SumFunctionOnSet(f, S) /\ UnitsOf(S, p)' = SumFunctionOnSet(g, S)
  BY DEF UnitsOf, UnitsTable
<1> HIDE DEF f, g
<1> QED
  BY <1>1, <1>2, SumSame

\* One order more adds its units.
LEMMA UnitsAdd ==
  ASSUME RowsTypeOK, NEW S, S \subseteq Order, IsFiniteSet(S), NEW p \in Product,
         NEW o \in Order, o \notin S, items' = items
  PROVE  UnitsOf(S \cup {o}, p)' = UnitsOf(S, p) + Units(o)[p]
<1> DEFINE f == UnitsTable(p)
<1>1. \A x \in S \cup {o} : f[x] \in Int
  BY UnitsNatural
<1>2. /\ UnitsOf(S, p) = SumFunctionOnSet(f, S) /\ UnitsOf(S, p) \in Nat
      /\ UnitsOf(S \cup {o}, p)' = SumFunctionOnSet(f, S \cup {o})
  BY UnitsOfSum DEF UnitsOf, UnitsTable, Units
<1>3. f[o] = Units(o)[p]
  BY DEF UnitsTable
<1> HIDE DEF f
<1>4. SumFunctionOnSet(f, S \cup {o}) = f[o] + SumFunctionOnSet(f, S)
  BY <1>1, SumAdd
<1> QED
  BY <1>1, <1>2, <1>3, <1>4

\* Orders that go take their units out.
LEMMA UnitsRemove ==
  ASSUME RowsTypeOK, NEW H, H \subseteq Order, IsFiniteSet(H), NEW p \in Product,
         NEW S, S \subseteq H, \A x \in H \ S : items'[x] = items[x]
  PROVE  /\ UnitsOf(S, p) \in Nat
         /\ UnitsOf(H \ S, p)' \in Nat
         /\ UnitsOf(H, p) = UnitsOf(H \ S, p)' + UnitsOf(S, p)
<1> DEFINE f == UnitsTable(p)
           K == H \ S
<1>1. \A x \in H : f[x] \in Nat
  BY UnitsNatural
<1>2. IsFiniteSet(S) /\ IsFiniteSet(K) /\ H = K \cup S /\ K \cap S = {} /\ K \subseteq Order
  BY FS_Subset
<1>3. UnitsOf(H, p) = SumFunctionOnSet(f, H)
  BY DEF UnitsOf, UnitsTable
<1>4. UnitsOf(S, p) = SumFunctionOnSet(f, S) /\ UnitsOf(S, p) \in Nat
  BY <1>2, UnitsOfSum
<1>5. UnitsOf(K, p) = SumFunctionOnSet(f, K) /\ UnitsOf(K, p) \in Nat
  BY <1>2, UnitsOfSum
<1>6. UnitsOf(K, p)' = UnitsOf(K, p)
  <2>1. \A x \in K : items'[x] = items[x]
    OBVIOUS
  <2> HIDE DEF K
  <2> QED
    BY <1>2, <2>1, UnitsKept
<1> HIDE DEF f, K
<1>7. SumFunctionOnSet(f, K \cup S) = SumFunctionOnSet(f, K) + SumFunctionOnSet(f, S)
  BY <1>1, <1>2, SumUnion
<1>8. UnitsOf(H, p) = UnitsOf(K, p)' + UnitsOf(S, p) /\ UnitsOf(K, p)' \in Nat
  BY <1>2, <1>3, <1>4, <1>5, <1>6, <1>7
<1> QED
  BY <1>4, <1>8 DEF K

\* The same for the orders that own a number.
LEMMA HeldKept ==
  ASSUME TypeOK, NEW p \in Product, Holders' = Holders,
         \A o \in Holders : items'[o] = items[o]
  PROVE  HeldUnits(p)' = HeldUnits(p)
<1>1. PICK H : H = Holders /\ H \subseteq Order /\ IsFiniteSet(H)
  BY HoldersFinite DEF Holders
<1>2. HeldUnits(p) = UnitsOf(H, p) /\ HeldUnits(p)' = UnitsOf(H, p)'
  BY <1>1 DEF HeldUnits, UnitsOf, Holders
<1> QED
  BY <1>1, <1>2, UnitsKept

\* An order that becomes a holder adds its units to those held.
LEMMA HeldAdd ==
  ASSUME TypeOK, NEW p \in Product, NEW o \in Order, o \notin Holders,
         Holders' = Holders \cup {o}, items' = items
  PROVE  HeldUnits(p)' = HeldUnits(p) + Units(o)[p]
<1>1. PICK H : H = Holders /\ H \subseteq Order /\ IsFiniteSet(H)
  BY HoldersFinite DEF Holders
<1>2. HeldUnits(p) = UnitsOf(H, p) /\ HeldUnits(p)' = UnitsOf(H \cup {o}, p)'
  BY <1>1 DEF HeldUnits, UnitsOf, Holders
<1> QED
  BY <1>1, <1>2, UnitsAdd DEF TypeOK

\* Holders that stop being holders take their units with them.
LEMMA HeldRemove ==
  ASSUME TypeOK, NEW p \in Product, NEW S, S \subseteq Holders,
         Holders' = Holders \ S, \A x \in Holders \ S : items'[x] = items[x]
  PROVE  /\ UnitsOf(S, p) \in Nat
         /\ HeldUnits(p)' \in Nat
         /\ HeldUnits(p) = HeldUnits(p)' + UnitsOf(S, p)
<1>1. PICK H : H = Holders /\ H \subseteq Order /\ IsFiniteSet(H)
  BY HoldersFinite DEF Holders
<1>2. HeldUnits(p) = UnitsOf(H, p) /\ HeldUnits(p)' = UnitsOf(H \ S, p)'
  BY <1>1 DEF HeldUnits, UnitsOf, Holders
<1> QED
  BY <1>1, <1>2, UnitsRemove DEF TypeOK

-----------------------------------------------------------------------------
(* The transactions.                                                       *)

\* A step keeps the books and never takes the last unit twice.
Balances ==
  /\ stock' \in [Product -> Int]
  /\ \A p \in Product : /\ Books(p)' = Books(p)
                        /\ stock[p] >= 0 => stock'[p] >= 0

\* A step that touches neither numbers nor stock, nor the cart of an order
\* that owns a number.
LEMMA UntouchedBalances ==
  ASSUME TypeOK, UNCHANGED <<holder, stock>>, \A o \in Holders : items'[o] = items[o]
  PROVE  Balances
<1>1. Holders' = Holders
  BY DEF Holders, HoldsNumber
<1>2. ASSUME NEW p \in Product PROVE Books(p)' = Books(p)
  <2>1. HeldUnits(p)' = HeldUnits(p)
    BY <1>1, HeldKept
  <2> QED
    BY <2>1 DEF Books
<1> QED
  BY <1>2 DEF Balances, TypeOK

\* New orders own no number.
LEMMA CreateBalances ==
  ASSUME RowInv, TypeOK, NEW S \in SUBSET Order, NEW g, NEW ch, NEW lettered, NEW cart,
         CreateTx(S, g, ch, lettered, cart)
  PROVE  Balances
<1>1. \A o \in Holders : o \notin S
  BY NullsAssumption
  DEF CreateTx, Holders, HoldsNumber, RowInv, NumbersAgree, Exists, Absent
<1>2. \A o \in Holders : items'[o] = items[o]
  BY <1>1 DEF CreateTx, Holders
<1> QED
  BY <1>2, UntouchedBalances DEF CreateTx, numberRows, productRows

\* The stock that the choice of a number takes is what the order then holds.
LEMMA SelectBalances ==
  ASSUME RowInv, TypeOK, NEW o \in Order, NEW n \in Number, SelectRaffleNumberTx(o, n)
  PROVE  Balances
<1> USE DEF SelectRaffleNumberTx
<1>1. holder[n] = NoOrder
  BY DEF RowInv, NumbersAgree, Claimable
<1>2. \A m \in Number : holder'[m] = IF m = n THEN o ELSE holder[m]
  BY DEF TypeOK, RowsTypeOK
<1>3. o \notin Holders /\ Holders' = Holders \cup {o}
  BY <1>1, <1>2, NullsAssumption DEF Holders, HoldsNumber
<1>4. ASSUME NEW p \in Product
      PROVE  /\ stock'[p] \in Int
             /\ Books(p)' = Books(p)
             /\ stock[p] >= 0 => stock'[p] >= 0
  <2>1. Units(o)[p] \in Nat
    BY UnitsNatural DEF TypeOK, UnitsTable
  <2>2. stock'[p] = stock[p] - Units(o)[p]
    OBVIOUS
  <2>3. HeldUnits(p)' = HeldUnits(p) + Units(o)[p]
    BY <1>3, HeldAdd
  <2>4. stock[p] \in Int /\ HeldUnits(p) \in Nat
    BY BooksType
  <2>5. Units(o)[p] > 0 => stock[p] >= Units(o)[p]
    BY DEF InStock, Covers
  <2> HIDE DEF SelectRaffleNumberTx
  <2> QED
    BY <2>1, <2>2, <2>3, <2>4, <2>5 DEF Books
<1>5. stock' \in [Product -> Int]
  BY <1>4
<1> QED
  BY <1>4, <1>5 DEF Balances

\* A rejection gives back what its orders held: each of them owned a number.
LEMMA PaymentBalances ==
  ASSUME SerialInv, TypeOK, NEW S \in SUBSET Order, NEW verified \in BOOLEAN,
         \A x \in S : status[x] = "PAYMENT_PENDING", VerifyPaymentTx(S, verified)
  PROVE  Balances
<1>1. CASE verified
  BY <1>1, UntouchedBalances DEF VerifyPaymentTx
<1>2. CASE ~verified
  <2>1. /\ holder' = [m \in Number |-> IF holder[m] \in S THEN NoOrder ELSE holder[m]]
        /\ stock' = [p \in Product |-> stock[p] + UnitsOf(S, p)]
        /\ items' = items
    BY <1>2 DEF VerifyPaymentTx
  <2>2. S \subseteq Holders
    BY DEF SerialInv, NumbersOwned, Reserving, Holders
  <2>3. Holders' = Holders \ S
    BY <2>1, NullsAssumption DEF Holders, HoldsNumber
  <2>4. ASSUME NEW p \in Product
        PROVE  /\ stock'[p] \in Int
               /\ Books(p)' = Books(p)
               /\ stock[p] >= 0 => stock'[p] >= 0
    <3>1. /\ UnitsOf(S, p) \in Nat /\ HeldUnits(p)' \in Nat
          /\ HeldUnits(p) = HeldUnits(p)' + UnitsOf(S, p)
      BY <2>1, <2>2, <2>3, HeldRemove
    <3>2. stock'[p] = stock[p] + UnitsOf(S, p)
      BY <2>1
    <3>3. stock[p] \in Int /\ HeldUnits(p) \in Nat
      BY BooksType
    <3> QED
      BY <3>1, <3>2, <3>3 DEF Books
  <2>5. stock' \in [Product -> Int]
    BY <2>1, <2>4
  <2> QED
    BY <2>4, <2>5 DEF Balances
<1> QED
  BY <1>1, <1>2

\* One order took its own units.
LEMMA UnitsOfOne ==
  ASSUME RowsTypeOK, NEW o \in Order, NEW p \in Product
  PROVE  UnitsOf({o}, p) = Units(o)[p]
<1> DEFINE f == UnitsTable(p)
<1>1. f[o] \in Nat /\ f[o] = Units(o)[p] /\ UnitsOf({o}, p) = SumFunctionOnSet(f, {o})
  BY UnitsNatural DEF UnitsOf, UnitsTable
<1> HIDE DEF f
<1>2. SumFunctionOnSet(f, {} \cup {o}) = f[o] + SumFunctionOnSet(f, {})
  BY <1>1, SumAdd, FS_EmptySet
<1>3. {} \cup {o} = {o}
  OBVIOUS
<1> QED
  BY <1>1, <1>2, <1>3, SumEmpty

\* A deletion gives back what the order held, and nothing if it owned no
\* number.
LEMMA DeleteBalances ==
  ASSUME SerialInv, TypeOK, NEW o \in Order, DeleteTx(o, NumberOf(o))
  PROVE  Balances
<1>1. \A m \in Number : holder[m] = o <=> m = NumberOf(o)
  BY NullsAssumption DEF SerialInv, RowInv, NumbersAgree, NumberOf, HoldsNumber
<1>2. \A m \in Number : holder'[m] = IF holder[m] = o THEN NoOrder ELSE holder[m]
  BY <1>1 DEF DeleteTx, HolderWithout
<1>3. \A x \in Order : x # o => items'[x] = items[x]
  BY DEF DeleteTx, TypeOK, RowsTypeOK
<1>4. CASE o \in Holders
  <2>1. NumberOf(o) # NoNumber
    BY <1>4, NullsAssumption DEF Holders, HoldsNumber, NumberOf
  <2>2. stock' = [p \in Product |-> stock[p] + Units(o)[p]]
    BY <2>1 DEF DeleteTx
  <2>3. Holders' = Holders \ {o}
    BY <1>2, NullsAssumption DEF Holders, HoldsNumber
  <2>4. ASSUME NEW p \in Product
        PROVE  /\ stock'[p] \in Int
               /\ Books(p)' = Books(p)
               /\ stock[p] >= 0 => stock'[p] >= 0
    <3>1. /\ UnitsOf({o}, p) \in Nat /\ HeldUnits(p)' \in Nat
          /\ HeldUnits(p) = HeldUnits(p)' + UnitsOf({o}, p)
      BY <1>3, <1>4, <2>3, HeldRemove DEF Holders
    <3>2. stock'[p] = stock[p] + UnitsOf({o}, p)
      BY <2>2, UnitsOfOne DEF TypeOK
    <3>3. stock[p] \in Int
      BY BooksType
    <3> QED
      BY <3>1, <3>2, <3>3 DEF Books
  <2>5. stock' \in [Product -> Int]
    BY <2>2, <2>4
  <2> QED
    BY <2>4, <2>5 DEF Balances
<1>5. CASE o \notin Holders
  <2>1. NumberOf(o) = NoNumber
    BY <1>5 DEF Holders, NumberOf
  <2>2. UNCHANGED <<holder, stock>>
    BY <1>2, <1>5, <2>1 DEF DeleteTx, Holders, HoldsNumber, HolderWithout, TypeOK, RowsTypeOK
  <2> QED
    BY <1>3, <1>5, <2>2, UntouchedBalances DEF Holders
<1> QED
  BY <1>4, <1>5

\* An added item takes from the stock what it adds to the order, but for the
\* product linked to it; the order may not own a number yet, and then nobody
\* holds these units.
LEMMA AddItemSells ==
  ASSUME SerialInv, TypeOK, NEW o \in Order, NEW a \in Additions, AddItemTx(o, a)
  PROVE  /\ stock' \in [Product -> Int]
         /\ \A p \in Product : /\ a.linked # p => Books(p)' <= Books(p)
                               /\ stock[p] >= 0 => stock'[p] >= 0
<1> DEFINE more(p) == IF p = a.product THEN a.quantity ELSE 0
<1>1. a.product \in Product /\ a.quantity \in Nat
  BY AdditionsAssumption
<1>2. Holders' = Holders
  BY DEF AddItemTx, numberRows, Holders, HoldsNumber
<1>3. ASSUME NEW p \in Product, a.linked # p
      PROVE  /\ Units(o)'[p] = Units(o)[p] + more(p)
             /\ \A x \in Order : x # o => Units(x)'[p] = Units(x)[p]
  <2>1. items[o] \in Cart
    BY DEF TypeOK, RowsTypeOK
  <2>2. items[o].main[p] \in Nat /\ items[o].addOn[p] \in Nat
    BY <2>1 DEF Cart
  <2>3. items' = [items EXCEPT ![o] = WithItem(items[o], a)]
    BY DEF AddItemTx
  <2>4. items'[o] = WithItem(items[o], a) /\ \A x \in Order : x # o => items'[x] = items[x]
    BY <2>3 DEF TypeOK, RowsTypeOK
  <2>5. /\ items'[o].main[p] = items[o].main[p] + more(p)
        /\ items'[o].addOn[p] = items[o].addOn[p] + 0
    BY <1>3, <2>4 DEF WithItem
  <2> QED
    BY <1>1, <2>2, <2>4, <2>5 DEF Units
<1>4. ASSUME NEW p \in Product, a.linked # p
      PROVE  /\ HeldUnits(p)' \in Int
             /\ HeldUnits(p)' = HeldUnits(p) \/ HeldUnits(p)' = HeldUnits(p) + more(p)
  <2>1. CASE o \in Holders
    <3> DEFINE f == UnitsTable(p)
               g == UnitsTable(p)'
               H == Holders
    <3>1. /\ HeldUnits(p) = SumFunctionOnSet(f, H)
          /\ HeldUnits(p)' = SumFunctionOnSet(g, H)
      BY <1>2 DEF HeldUnits, UnitsTable, Holders
    <3>2. \A x \in H : f[x] \in Nat
      BY UnitsNatural DEF TypeOK, Holders
    <3>3. g[o] = f[o] + more(p) /\ \A x \in H \ {o} : f[x] = g[x]
      BY <1>3, <1>4 DEF UnitsTable, Holders
    <3>4. IsFiniteSet(H) /\ o \in H
      BY <2>1, HoldersFinite
    <3>5. more(p) \in Nat
      BY <1>1
    <3> HIDE DEF f, g, H, more
    <3>6. \A x \in H : f[x] \in Int /\ g[x] \in Int
      BY <3>2, <3>3, <3>4, <3>5
    <3>7. SumFunctionOnSet(g, H) = SumFunctionOnSet(f, H) + g[o] - f[o]
      BY <3>3, <3>4, <3>6, SumChange
    <3>8. SumFunctionOnSet(f, H) \in Int
      BY <3>4, <3>6, SumType
    <3> QED
      BY <3>1, <3>2, <3>3, <3>4, <3>5, <3>7, <3>8
  <2>2. CASE o \notin Holders
    <3>1. \A x \in Holders : items'[x] = items[x]
      BY <2>2 DEF AddItemTx, Holders, TypeOK, RowsTypeOK
    <3> QED
      BY <1>2, <3>1, HeldKept, BooksType
  <2> QED
    BY <2>1, <2>2
<1>5. ASSUME NEW p \in Product
      PROVE  /\ stock'[p] \in Int
             /\ stock'[p] = stock[p] - more(p)
             /\ stock[p] >= 0 => stock'[p] >= 0
  <2>1. stock' = [stock EXCEPT ![a.product] = @ - a.quantity] /\ stock[a.product] >= a.quantity
    BY DEF AddItemTx, Covers
  <2>2. stock[p] \in Int
    BY BooksType
  <2>3. stock'[p] = IF p = a.product THEN stock[p] - a.quantity ELSE stock[p]
    BY <2>1 DEF TypeOK
  <2> QED
    BY <1>1, <2>1, <2>2, <2>3
<1>6. stock' \in [Product -> Int]
  BY <1>1, <1>5 DEF AddItemTx, TypeOK
<1>7. ASSUME NEW p \in Product, a.linked # p PROVE Books(p)' <= Books(p)
  <2>1. more(p) \in Nat
    BY <1>1
  <2>2. stock[p] \in Int /\ HeldUnits(p) \in Nat
    BY BooksType
  <2> HIDE DEF more
  <2> QED
    BY <1>4, <1>5, <1>7, <2>1, <2>2 DEF Books
<1> QED
  BY <1>5, <1>6, <1>7

-----------------------------------------------------------------------------
(* The requests.                                                           *)

\* An item is added to an order.
AddsItem == \E o \in Order, a \in Additions : AddItemTx(o, a)

\* Every transaction but that of addItem keeps the books.
LEMMA CommitBalances ==
  ASSUME OverlapInv, TypeOK, NEW r \in Request, CommitStep(r)
  PROVE  Balances \/ AddsItem
<1> DEFINE c == req[r]
<1>1. req[r] # Idle
  BY CommitFresh
<1>2. /\ c \in Call /\ Fresh(c) /\ c.orders \in SUBSET Order
      /\ SerialInv
  BY <1>1, CallRows DEF OverlapInv, CallsFresh, InFlight
<1> HIDE DEF c
<1>3. CASE CommitVerifyMessage(r) \/ CommitResubmitMessage(r)
           \/ CommitUpdateDelivery(r) \/ CommitDraw(r)
  <2>1. UNCHANGED <<holder, stock, items>>
    BY <1>3
    DEF CommitVerifyMessage, CommitResubmitMessage, CommitUpdateDelivery, CommitDraw,
        VerifyMessageTx, ResubmitMessageTx, UpdateDeliveryTx, DrawTx, orderRows,
        numberRows, productRows
  <2> QED
    BY <2>1, UntouchedBalances
<1>4. CASE CommitSelectRaffleNumber(r)
  BY <1>2, <1>4, SelectBalances DEF CommitSelectRaffleNumber, SerialInv, c
<1>5. CASE CommitVerifyPayment(r)
  <2>1. \A o \in c.orders : status[o] = "PAYMENT_PENDING"
    BY <1>2, <1>5 DEF CommitVerifyPayment, Finish, Fresh, c
  <2> QED
    BY <1>2, <1>5, <2>1, PaymentBalances DEF CommitVerifyPayment, c
<1>6. CASE CommitDeleteOrder(r)
  <2>1. PICK o \in c.orders : DeleteTx(o, c.number)
    BY <1>6 DEF CommitDeleteOrder, c
  <2>2. c.number = NumberOf(o)
    BY <1>2, <1>6, <2>1, DeleteOrderFresh DEF CommitDeleteOrder, Finish, c
  <2> QED
    BY <1>2, <2>1, <2>2, DeleteBalances
<1>7. CASE CommitAddItem(r)
  BY <1>2, <1>7 DEF CommitAddItem, AddsItem, c
<1> QED
  BY <1>3, <1>4, <1>5, <1>6, <1>7 DEF CommitStep

\* So does everything else a request or the shop does.
LEMMA RequestBalances ==
  ASSUME OverlapInv, TypeOK, [RequestNext]_requestVars
  PROVE  Balances \/ AddsItem
<1>1. RowInv
  BY DEF OverlapInv, SerialInv
<1>2. CASE Single
  BY <1>1, <1>2, CreateBalances, UntouchedBalances
  DEF Single, CreatePublicOrdersMulti, CreatePublicOrder, SetProductActive, orderRows, numberRows
<1>3. CASE UNCHANGED vars
  BY <1>3, UntouchedBalances DEF vars, orderRows, numberRows, productRows
<1>4. ASSUME NEW r \in Request, BeginStep(r) PROVE UNCHANGED vars
  BY <1>4, BeginFresh
<1>5. ASSUME NEW r \in Request, CommitStep(r) PROVE Balances \/ AddsItem
  BY <1>5, CommitBalances
<1>6. ASSUME NEW r \in Request, Fail(r) PROVE UNCHANGED vars
  BY <1>6 DEF Fail
<1>7. UNCHANGED requestVars => UNCHANGED vars
  BY DEF requestVars
<1> QED
  BY <1>2, <1>3, <1>4, <1>5, <1>6, <1>7 DEF RequestNext

\* When sales open, nothing is held and all the stock is there.
LEMMA InitBooks ==
  ASSUME Init
  PROVE  TypeOK /\ \A p \in Product : Books(p) = InitialStock[p] /\ stock[p] >= 0
<1>1. TypeOK
  BY InitRows, StockAssumption DEF Init, RowInv, TypeOK
<1>2. Holders = {}
  BY NullsAssumption DEF Init, Holders, HoldsNumber
<1>3. ASSUME NEW p \in Product PROVE HeldUnits(p) = 0
  <2>1. HeldUnits(p) = SumFunctionOnSet(UnitsTable(p), {})
    BY <1>2 DEF HeldUnits, UnitsTable, Holders
  <2> QED
    BY <2>1, SumEmpty
<1> QED
  BY <1>1, <1>3, StockAssumption DEF Init, Books

Balanced == TypeOK /\ \A p \in Product : Books(p) = InitialStock[p]

\* Unless conflicting operations overlap or items are added by hand, what is
\* in stock and what the orders that own a number took adds up to what was
\* there when sales opened (selectRaffleNumber, the rejection of a payment
\* and deleteOrder, orders.service.ts).
THEOREM OverlapStockLedger ==
  ASSUME Together \subseteq SafePairs, Additions = {}
  PROVE  RequestSpec => []StockLedger
<1>1. RequestInit => Balanced
  BY InitBooks DEF RequestInit, Balanced
<1>2. OverlapInv /\ OverlapInv' /\ Balanced /\ [RequestNext]_requestVars => Balanced'
  <2> SUFFICES ASSUME OverlapInv, OverlapInv', Balanced, [RequestNext]_requestVars
               PROVE  Balanced'
    OBVIOUS
  <2>1. Balances
    BY RequestBalances DEF Balanced, AddsItem
  <2>2. TypeOK'
    BY <2>1 DEF Balances, OverlapInv, SerialInv, RowInv, TypeOK
  <2> QED
    BY <2>1, <2>2 DEF Balances, Balanced
<1>3. Balanced => StockLedger
  BY DEF Balanced, StockLedger, Books
<1> QED
  BY <1>1, <1>2, <1>3, OverlapInvariant, PTL DEF RequestSpec

\* The products that come with no added item.
Unlinked == {p \in Product : \A a \in Additions : a.linked # p}
BooksInt == \A p \in Product : Books(p) \in Int
Bounded ==
  /\ TypeOK
  /\ \A p \in Product : stock[p] >= 0
  /\ \A p \in Unlinked : Books(p) <= InitialStock[p]

\* Unless conflicting operations overlap, no product is sold that is not
\* there, and none appears from nowhere but one that is linked to an item
\* added by hand.
THEOREM OverlapStockBounded ==
  ASSUME Together \subseteq SafePairs
  PROVE  RequestSpec => []StockBounded
<1>1. RequestInit => Bounded
  <2> SUFFICES ASSUME RequestInit PROVE Bounded
    OBVIOUS
  <2>1. /\ TypeOK
        /\ \A p \in Product : Books(p) = InitialStock[p] /\ stock[p] >= 0
    BY InitBooks DEF RequestInit
  <2> QED
    BY <2>1, StockAssumption DEF Bounded, Unlinked
<1>2. (TypeOK => BooksInt) /\ (TypeOK' => BooksInt')
  <2>1. TypeOK => BooksInt
    BY BooksType DEF BooksInt, Books
  <2> QED
    BY <2>1, PTL
<1>3. OverlapInv /\ OverlapInv' /\ Bounded /\ [RequestNext]_requestVars => Bounded'
  <2> SUFFICES ASSUME OverlapInv, OverlapInv', Bounded, [RequestNext]_requestVars
               PROVE  Bounded'
    OBVIOUS
  <2>1. TypeOK /\ SerialInv
    BY DEF Bounded, OverlapInv
  <2>2. /\ stock' \in [Product -> Int]
        /\ \A p \in Unlinked : Books(p)' <= Books(p)
        /\ \A p \in Product : stock[p] >= 0 => stock'[p] >= 0
    <3>1. CASE Balances
      <4>1. \A p \in Product : Books(p) \in Int
        BY <2>1, BooksType DEF Books
      <4> QED
        BY <3>1, <4>1 DEF Balances, Unlinked
    <3>2. CASE AddsItem
      BY <2>1, <3>2, AddItemSells DEF AddsItem, Unlinked
    <3> QED
      BY <2>1, <3>1, <3>2, RequestBalances
  <2>3. TypeOK'
    BY <2>2 DEF OverlapInv, SerialInv, RowInv, TypeOK
  <2>4. \A p \in Product : Books(p) \in Int /\ Books(p)' \in Int
    BY <1>2, <2>1, <2>3 DEF BooksInt
  <2>5. \A p \in Unlinked : p \in Product /\ InitialStock[p] \in Int
    BY StockAssumption DEF Unlinked
  <2>6. \A p \in Unlinked : Books(p)' <= InitialStock[p]
    BY <2>2, <2>4, <2>5 DEF Bounded
  <2>7. \A p \in Product : stock'[p] >= 0
    BY <2>2 DEF Bounded
  <2> QED
    BY <2>3, <2>6, <2>7 DEF Bounded, Unlinked
<1>4. Bounded => StockBounded
  BY DEF Bounded, StockBounded, Books, Unlinked
<1> QED
  BY <1>1, <1>3, <1>4, OverlapInvariant, PTL DEF RequestSpec

-----------------------------------------------------------------------------
(* However requests overlap, no unit is lost while no order was deleted: a *)
(* payment decision gives back at least what its orders held, for it may   *)
(* find orders whose number an earlier decision has already released.      *)

\* A deleted order has no payment, so that no decision brings it back.
GoneUnpaid == \A o \in Order : Gone(o) => payment[o] = "NONE"
NoneGone == \A o \in Order : ~Gone(o)
Grows ==
  /\ stock' \in [Product -> Int]
  /\ \A p \in Product : Books(p)' >= Books(p)

\* A step that keeps the books loses nothing.
LEMMA BalanceGrows ==
  ASSUME TypeOK, Balances
  PROVE  Grows
<1>1. \A p \in Product : Books(p) \in Int
  BY BooksType DEF Books
<1> QED
  BY <1>1 DEF Balances, Grows

\* A rejection gives back what all its orders took, those that still own a
\* number among them.
LEMMA PaymentGrows ==
  ASSUME TypeOK, IsFiniteSet(Order), NEW S \in SUBSET Order, NEW verified \in BOOLEAN,
         VerifyPaymentTx(S, verified)
  PROVE  Grows
<1>1. CASE verified
  BY <1>1, UntouchedBalances, BalanceGrows DEF VerifyPaymentTx
<1>2. CASE ~verified
  <2>1. PICK K : K = S \cap Holders
    OBVIOUS
  <2>2. /\ holder' = [m \in Number |-> IF holder[m] \in S THEN NoOrder ELSE holder[m]]
        /\ stock' = [p \in Product |-> stock[p] + UnitsOf(S, p)]
        /\ items' = items
    BY <1>2 DEF VerifyPaymentTx
  <2>3. Holders' = Holders \ K
    BY <2>1, <2>2, NullsAssumption DEF Holders, HoldsNumber
  <2>4. K \subseteq Holders /\ K \subseteq S /\ IsFiniteSet(S) /\ S \subseteq Order
    BY <2>1, FS_Subset
  <2>5. ASSUME NEW p \in Product
        PROVE  stock'[p] \in Int /\ Books(p)' >= Books(p)
    <3>1. /\ UnitsOf(K, p) \in Nat /\ HeldUnits(p)' \in Nat
          /\ HeldUnits(p) = HeldUnits(p)' + UnitsOf(K, p)
      BY <2>2, <2>3, <2>4, HeldRemove
    <3>2. /\ UnitsOf(S \ K, p)' \in Nat
          /\ UnitsOf(S, p) = UnitsOf(S \ K, p)' + UnitsOf(K, p)
      <4>1. RowsTypeOK /\ \A x \in S \ K : items'[x] = items[x]
        BY <2>2 DEF TypeOK
      <4> QED
        BY <2>4, <4>1, UnitsRemove
    <3>3. stock'[p] = stock[p] + UnitsOf(S, p)
      BY <2>2
    <3>4. stock[p] \in Int /\ HeldUnits(p) \in Nat
      BY BooksType
    <3> QED
      BY <3>1, <3>2, <3>3, <3>4 DEF Books
  <2>6. stock' \in [Product -> Int]
    BY <2>2, <2>5
  <2> QED
    BY <2>5, <2>6 DEF Grows
<1> QED
  BY <1>1, <1>2

\* Every transaction loses nothing or deletes an order.
LEMMA CommitGrows ==
  ASSUME RowInv, CallsOK, TypeOK, IsFiniteSet(Order), Additions = {},
         NEW r \in Request, CommitStep(r)
  PROVE  Grows \/ ~NoneGone'
<1> DEFINE c == req[r]
<1>1. req[r] # Idle
  BY DEF CommitStep, Finish, CommitVerifyMessage, CommitResubmitMessage,
     CommitSelectRaffleNumber, CommitVerifyPayment, CommitDeleteOrder, CommitAddItem,
     CommitUpdateDelivery, CommitDraw
<1>2. c.orders \in SUBSET Order
  BY <1>1, CallRows
<1> HIDE DEF c
<1>3. CASE CommitVerifyMessage(r) \/ CommitResubmitMessage(r)
           \/ CommitUpdateDelivery(r) \/ CommitDraw(r)
  <2>1. UNCHANGED <<holder, stock, items>>
    BY <1>3
    DEF CommitVerifyMessage, CommitResubmitMessage, CommitUpdateDelivery, CommitDraw,
        VerifyMessageTx, ResubmitMessageTx, UpdateDeliveryTx, DrawTx, orderRows,
        numberRows, productRows
  <2> QED
    BY <2>1, UntouchedBalances, BalanceGrows
<1>4. CASE CommitSelectRaffleNumber(r)
  BY <1>2, <1>4, SelectBalances, BalanceGrows DEF CommitSelectRaffleNumber, c
<1>5. CASE CommitVerifyPayment(r)
  BY <1>2, <1>5, PaymentGrows DEF CommitVerifyPayment, c
<1>6. CASE CommitDeleteOrder(r)
  BY <1>2, <1>6
  DEF CommitDeleteOrder, DeleteTx, TypeOK, RowsTypeOK, NoneGone, Gone, c
<1>7. ~CommitAddItem(r)
  BY DEF CommitAddItem
<1> QED
  BY <1>3, <1>4, <1>5, <1>6, <1>7 DEF CommitStep

\* So does every other step.
LEMMA RequestGrows ==
  ASSUME RowInv, CallsOK, TypeOK, IsFiniteSet(Order), Additions = {},
         [RequestNext]_requestVars
  PROVE  Grows \/ ~NoneGone'
<1>1. CASE Single
  BY <1>1, CreateBalances, UntouchedBalances, BalanceGrows
  DEF Single, CreatePublicOrdersMulti, CreatePublicOrder, SetProductActive, orderRows, numberRows
<1>2. CASE UNCHANGED vars
  BY <1>2, UntouchedBalances, BalanceGrows DEF vars, orderRows, numberRows, productRows
<1>3. ASSUME NEW r \in Request, BeginStep(r) PROVE UNCHANGED vars
  BY <1>3, BeginStepCalls
<1>4. ASSUME NEW r \in Request, CommitStep(r) PROVE Grows \/ ~NoneGone'
  BY <1>4, CommitGrows
<1>5. ASSUME NEW r \in Request, Fail(r) PROVE UNCHANGED vars
  BY <1>5 DEF Fail
<1>6. UNCHANGED requestVars => UNCHANGED vars
  BY DEF requestVars
<1> QED
  BY <1>1, <1>2, <1>3, <1>4, <1>5, <1>6 DEF RequestNext

\* A deleted order stays deleted and without a payment.
LEMMA StaysGone ==
  ASSUME RowInv, CallsOK, GoneUnpaid, [RequestNext]_requestVars
  PROVE  GoneUnpaid' /\ \A o \in Order : Gone(o) => Gone(o)'
<1> DEFINE Stays == GoneUnpaid' /\ \A o \in Order : Gone(o) => Gone(o)'
<1> USE DEF RowInv, RowsTypeOK, GoneUnpaid, Gone
<1>1. CASE UNCHANGED <<status, payment>>
  BY <1>1
<1>2. ASSUME NEW S \in SUBSET Order, NEW g, NEW ch, NEW lettered, NEW cart,
             CreateTx(S, g, ch, lettered, cart)
      PROVE  Stays
  BY <1>2 DEF CreateTx, DedicationStatus
<1>3. CASE Single
  BY <1>1, <1>2, <1>3
  DEF Single, CreatePublicOrdersMulti, CreatePublicOrder, SetProductActive, orderRows
<1>4. ASSUME NEW r \in Request, CommitStep(r) PROVE Stays
  <2>1. req[r].orders \in SUBSET Order
    <3>1. req[r] # Idle
      BY <1>4
      DEF CommitStep, Finish, CommitVerifyMessage, CommitResubmitMessage,
          CommitSelectRaffleNumber, CommitVerifyPayment, CommitDeleteOrder, CommitAddItem,
          CommitUpdateDelivery, CommitDraw
    <3> QED
      BY <3>1, CallRows
  <2> USE DEF Exists, Absent
  <2>2. CASE CommitVerifyMessage(r)
    BY <2>1, <2>2 DEF CommitVerifyMessage, VerifyMessageTx
  <2>3. CASE CommitResubmitMessage(r)
    BY <2>1, <2>3 DEF CommitResubmitMessage, ResubmitMessageTx, DedicationStatus
  <2>4. CASE CommitSelectRaffleNumber(r)
    BY <2>1, <2>4 DEF CommitSelectRaffleNumber, SelectRaffleNumberTx
  <2>5. CASE CommitVerifyPayment(r)
    BY <2>1, <2>5 DEF CommitVerifyPayment, VerifyPaymentTx
  <2>6. CASE CommitDeleteOrder(r)
    BY <2>1, <2>6 DEF CommitDeleteOrder, DeleteTx
  <2>7. CASE CommitAddItem(r) \/ CommitDraw(r)
    BY <1>1, <2>7 DEF CommitAddItem, AddItemTx, CommitDraw, DrawTx, orderRows
  <2>8. CASE CommitUpdateDelivery(r)
    BY <2>1, <2>8 DEF CommitUpdateDelivery, UpdateDeliveryTx, mapDeliveryStatusToOrderStatus
  <2> QED
    BY <1>4, <2>2, <2>3, <2>4, <2>5, <2>6, <2>7, <2>8 DEF CommitStep
<1>5. ASSUME NEW r \in Request, BeginStep(r) \/ Fail(r) PROVE Stays
  BY <1>1, <1>5, BeginStepCalls DEF Fail, vars, orderRows
<1>6. CASE UNCHANGED requestVars
  BY <1>1, <1>6 DEF requestVars, vars, orderRows
<1> QED
  BY <1>3, <1>4, <1>5, <1>6 DEF RequestNext

LostInv ==
  /\ GoneUnpaid
  /\ NoneGone => TypeOK /\ \A p \in Product : Books(p) >= InitialStock[p]

\* However requests overlap, and for any number of them, no unit of stock is
\* lost as long as no order was deleted and no item added by hand: the guard
\* of the number's row and the row locks keep every choice and every
\* rejection whole (selectRaffleNumber and applyPaymentVerificationTx,
\* orders.service.ts).
THEOREM RequestsNoUnitLost ==
  ASSUME IsFiniteSet(Order), Additions = {}
  PROVE  RequestSpec => []NoUnitLost
<1>1. RequestInit => LostInv
  <2> SUFFICES ASSUME RequestInit PROVE LostInv
    OBVIOUS
  <2>1. TypeOK /\ \A p \in Product : Books(p) = InitialStock[p]
    BY InitBooks DEF RequestInit
  <2>2. GoneUnpaid
    BY DEF RequestInit, Init, GoneUnpaid, Gone
  <2> QED
    BY <2>1, <2>2, StockAssumption DEF LostInv
<1>2. (TypeOK => BooksInt) /\ (TypeOK' => BooksInt')
  <2>1. TypeOK => BooksInt
    BY BooksType DEF BooksInt, Books
  <2> QED
    BY <2>1, PTL
<1>3. RowInv /\ CallsOK /\ LostInv /\ [RequestNext]_requestVars => LostInv'
  <2> SUFFICES ASSUME RowInv, CallsOK, LostInv, [RequestNext]_requestVars
               PROVE  LostInv'
    OBVIOUS
  <2>1. GoneUnpaid' /\ \A o \in Order : Gone(o) => Gone(o)'
    BY StaysGone DEF LostInv
  <2>2. ASSUME NoneGone'
        PROVE  TypeOK' /\ \A p \in Product : Books(p)' >= InitialStock[p]
    <3>1. NoneGone
      BY <2>1, <2>2 DEF NoneGone
    <3>2. TypeOK /\ \A p \in Product : Books(p) >= InitialStock[p]
      BY <3>1 DEF LostInv
    <3>3. Grows
      BY <2>2, <3>2, RequestGrows
    <3>4. RowInv'
      BY RequestNextRows
    <3>5. TypeOK'
      BY <3>3, <3>4 DEF Grows, RowInv, TypeOK
    <3>6. \A p \in Product : Books(p) \in Int /\ Books(p)' \in Int
      BY <1>2, <3>2, <3>5 DEF BooksInt
    <3>7. \A p \in Product : Books(p)' >= InitialStock[p]
      BY <3>2, <3>3, <3>6, StockAssumption DEF Grows
    <3> QED
      BY <3>5, <3>7
  <2> QED
    BY <2>1, <2>2 DEF LostInv
<1>4. LostInv => NoUnitLost
  BY DEF LostInv, NoUnitLost, NoneGone, Gone, Books
<1> QED
  BY <1>1, <1>3, <1>4, RequestsRows, PTL DEF RequestSpec

-----------------------------------------------------------------------------
(* The lifecycle when requests overlap.  For a report and for a deletion a *)
(* little more than Fresh must last until the transaction: that the order  *)
(* was not delivered meanwhile.                                            *)

LastingCall(c) ==
  /\ c.orders # {}
  /\ \A o \in c.orders :
       /\ c.op = "updateDeliveryStatus" => CanUpdateDelivery(o) \/ Gone(o)
       /\ c.op = "deleteOrder" => status[o] # "DELIVERED"
Lasting == \A r \in InFlight : LastingCall(req[r])

\* A committed operation delivers no order that another call reports on or
\* deletes, unless the two are kept apart.
LEMMA LastingKept ==
  ASSUME NEW op \in Op, Moves(op), NEW c \in Call, Fresh(c), LastingCall(c),
         {op, c.op} \in LifecyclePairs
  PROVE  LastingCall(c)'
<1>1. /\ c.op = "updateDeliveryStatus" => op \notin {"updateDeliveryStatus", "deleteOrder"}
      /\ c.op = "deleteOrder" => op # "updateDeliveryStatus"
      /\ c.op = "deleteOrder" => op # "verifyPayment"
  BY DEF LifecyclePairs, SafePairs, ConflictingPairs
<1>2. ASSUME NEW o \in c.orders
      PROVE  /\ c.op = "updateDeliveryStatus" => CanUpdateDelivery(o)' \/ Gone(o)'
             /\ c.op = "deleteOrder" => status'[o] # "DELIVERED"
  <2>1. o \in Order /\ status[o] # "UNUSED"
    BY DEF Call, Fresh
  <2>2. MovesOrder(op, o)
    BY <2>1 DEF Moves
  <2> QED
    BY <1>1, <2>2 DEF LastingCall, MovesOrder, CanUpdateDelivery, CanVerifyMessage, Gone
<1> QED
  BY <1>2 DEF LastingCall

\* Every handler's test makes its call lasting.
LEMMA BeginLasting ==
  ASSUME CallsOK, NEW r \in Request, BeginStep(r)
  PROVE  LastingCall(req'[r])
<1>1. ASSUME NEW op, NEW S, NEW n, Begin(r, op, S, n),
             LastingCall([op |-> op, orders |-> S, number |-> n])
      PROVE  LastingCall(req'[r])
  <2>1. req'[r] = [op |-> op, orders |-> S, number |-> n]
    BY <1>1 DEF Begin, CallsOK
  <2> QED
    BY <1>1, <2>1
<1> USE DEF LastingCall
<1>2. ASSUME NEW o \in Order,
             \/ BeginVerifyMessage(r, o) \/ BeginResubmitMessage(r, o)
             \/ BeginSelectRaffleNumber(r, o) \/ BeginAddItem(r, o)
      PROVE  LastingCall(req'[r])
  BY <1>1, <1>2
  DEF BeginVerifyMessage, BeginResubmitMessage, BeginSelectRaffleNumber, BeginAddItem
<1>3. ASSUME NEW S, BeginVerifyPayment(r, S) PROVE LastingCall(req'[r])
  BY <1>1, <1>3 DEF BeginVerifyPayment
<1>4. ASSUME NEW o \in Order, BeginDeleteOrder(r, o) PROVE LastingCall(req'[r])
  BY <1>1, <1>4 DEF BeginDeleteOrder, CanDelete
<1>5. ASSUME NEW o \in Order, BeginUpdateDelivery(r, o) PROVE LastingCall(req'[r])
  BY <1>1, <1>5 DEF BeginUpdateDelivery
<1>6. ASSUME NEW n \in Number, BeginDraw(r, n) PROVE LastingCall(req'[r])
  BY <1>1, <1>6 DEF BeginDraw
<1> QED
  BY <1>2, <1>3, <1>4, <1>5, <1>6 DEF BeginStep

\* Calls stay lasting when reports meet neither a report nor a deletion.
LEMMA LastingNext ==
  ASSUME Together \subseteq LifecyclePairs, OverlapInv, Lasting, [RequestNext]_requestVars
  PROVE  Lasting'
<1>1. ASSUME NEW op \in Op, Moves(op), NEW q \in Request, req[q] # Idle,
             {op, req[q].op} \in LifecyclePairs, req'[q] = req[q]
      PROVE  LastingCall(req[q])'
  <2>1. req[q] \in Call /\ Fresh(req[q]) /\ LastingCall(req[q])
    BY <1>1, CallRows DEF OverlapInv, CallsFresh, Lasting, InFlight
  <2>2. PICK c : c = req[q]
    OBVIOUS
  <2>3. LastingCall(c)'
    BY <1>1, <2>1, <2>2, LastingKept
  <2> QED
    BY <1>1, <2>2, <2>3 DEF LastingCall
<1>2. \A q \in Request : req[q] # Idle => {"addItem", req[q].op} \in LifecyclePairs
  <2>1. ASSUME NEW q \in Request, req[q] # Idle
        PROVE  {"addItem", req[q].op} \in LifecyclePairs
    <3>1. req[q].op \in Op
      BY <2>1, CallRows DEF OverlapInv
    <3> QED
      BY <3>1 DEF LifecyclePairs, SafePairs, AllPairs, ConflictingPairs, Op
  <2> QED
    BY <2>1
<1>3. CASE Single
  <2>1. Moves("addItem") /\ UNCHANGED req
    BY <1>3, SingleFresh DEF Single, OverlapInv
  <2> QED
    BY <1>1, <1>2, <2>1 DEF Lasting, InFlight, Op
<1>4. ASSUME NEW r \in Request, CommitStep(r) PROVE Lasting'
  <2>1. /\ req[r] # Idle /\ req' = [req EXCEPT ![r] = Idle]
        /\ Moves(req[r].op)
    BY <1>4, CommitFresh
  <2>2. ASSUME NEW q \in Request, req'[q] # Idle PROVE LastingCall(req[q])'
    <3>1. q # r /\ req'[q] = req[q] /\ req[q] # Idle
      BY <2>1, <2>2 DEF OverlapInv, CallsOK
    <3>2. {req[r].op, req[q].op} \in LifecyclePairs /\ req[r].op \in Op
      BY <2>1, <3>1, CallRows DEF OverlapInv, CallsApart, InFlight
    <3> QED
      BY <1>1, <2>1, <3>1, <3>2
  <2> QED
    BY <2>2 DEF Lasting, InFlight
<1>5. ASSUME UNCHANGED vars, NEW q \in Request, req[q] # Idle, req'[q] = req[q]
      PROVE  LastingCall(req[q])'
  BY <1>5 DEF Lasting, InFlight, LastingCall, CanUpdateDelivery, Gone, vars, orderRows
<1>6. ASSUME NEW r \in Request, BeginStep(r) PROVE Lasting'
  <2>1. UNCHANGED vars /\ Begun(r)
    BY <1>6, BeginFresh
  <2>2. LastingCall(req[r])'
    BY <1>6, <2>1, BeginLasting
    DEF OverlapInv, LastingCall, CanUpdateDelivery, Gone, vars, orderRows
  <2> QED
    BY <1>5, <2>1, <2>2 DEF Lasting, InFlight, Begun
<1>7. ASSUME NEW r \in Request, Fail(r) PROVE Lasting'
  BY <1>5, <1>7 DEF Fail, Lasting, InFlight, OverlapInv, CallsOK
<1>8. CASE UNCHANGED requestVars
  BY <1>5, <1>8 DEF requestVars, Lasting, InFlight
<1> QED
  BY <1>3, <1>4, <1>6, <1>7, <1>8 DEF RequestNext

\* Every transaction, on orders for which its call is fresh and lasting, is a
\* step of the lifecycle or none.
LEMMA CommitLifecycle ==
  ASSUME OverlapInv, RowInv', Lasting, NEW r \in Request, CommitStep(r)
  PROVE  Lifecycle!Next \/ UNCHANGED Lifecycle!vars
<1> DEFINE c == req[r]
<1>1. /\ c \in Call /\ Fresh(c) /\ c.orders \in SUBSET Order
      /\ LastingCall(c) /\ SerialInv /\ RowInv
  <2>1. req[r] # Idle
    BY CommitFresh
  <2> QED
    BY <2>1, CallRows DEF OverlapInv, SerialInv, CallsFresh, Lasting, InFlight
<1> HIDE DEF c
<1>2. CASE CommitVerifyMessage(r)
  <2>1. PICK o \in c.orders, approved \in BOOLEAN : VerifyMessageTx(o, approved)
    BY <1>2 DEF CommitVerifyMessage, c
  <2>2. o \in Order /\ CanVerifyMessage(o)
    BY <1>1, <1>2, <2>1
    DEF CommitVerifyMessage, Finish, Fresh, VerifyMessageTx, Exists, Absent, Gone, c
  <2> QED
    BY <1>1, <2>1, <2>2, ReviewApproves
    DEF CanVerifyMessage, VerifyMessageTx, StageOf, numberRows
<1>3. CASE CommitResubmitMessage(r)
  <2>1. PICK o \in c.orders, hasLetter \in BOOLEAN : ResubmitMessageTx(o, hasLetter)
    BY <1>3 DEF CommitResubmitMessage, c
  <2>2. o \in Order /\ CanResubmitMessage(o)
    BY <1>1, <1>3, <2>1
    DEF CommitResubmitMessage, Finish, Fresh, ResubmitMessageTx, Exists, Absent, Gone, c
  <2> QED
    BY <1>1, <2>1, <2>2, ReviewApproves
    DEF CanResubmitMessage, ResubmitMessageTx, DedicationStatus, StageOf, numberRows
<1>4. CASE CommitSelectRaffleNumber(r)
  <2>1. PICK o \in c.orders, n \in Number : SelectRaffleNumberTx(o, n)
    BY <1>4 DEF CommitSelectRaffleNumber, c
  <2>2. CanSelectRaffleNumber(o)
    BY <1>1, <1>4, <2>1, SelectRaffleNumberFresh DEF CommitSelectRaffleNumber, Finish, c
  <2> QED
    BY <1>1, <2>1, <2>2, SelectReserves
<1>5. CASE CommitVerifyPayment(r)
  <2>1. PICK verified \in BOOLEAN : VerifyPaymentTx(c.orders, verified)
    BY <1>5 DEF CommitVerifyPayment, c
  <2>2. c.orders # {} /\ \A o \in c.orders : status[o] = "PAYMENT_PENDING"
    BY <1>1, <1>5 DEF CommitVerifyPayment, Finish, Fresh, LastingCall, c
  <2> QED
    BY <1>1, <2>1, <2>2, PaymentDecides
<1>6. CASE CommitDeleteOrder(r)
  <2>1. PICK o \in c.orders : DeleteTx(o, c.number)
    BY <1>6 DEF CommitDeleteOrder, c
  <2>2. c.number = NumberOf(o)
    BY <1>1, <1>6, <2>1, DeleteOrderFresh DEF CommitDeleteOrder, Finish, c
  <2>3. CanDelete(o)
    BY <1>1, <1>6, <2>1
    DEF CommitDeleteOrder, Finish, LastingCall, DeleteTx, Deletable, CanDelete, c
  <2> QED
    BY <1>1, <2>1, <2>2, <2>3, DeleteRemoves
<1>7. CASE CommitUpdateDelivery(r)
  <2>1. PICK o \in c.orders, d \in AssignmentStatus : UpdateDeliveryTx(o, d)
    BY <1>7 DEF CommitUpdateDelivery, c
  <2>2. CanUpdateDelivery(o)
    BY <1>1, <1>7, <2>1
    DEF CommitUpdateDelivery, Finish, LastingCall, UpdateDeliveryTx, Exists, Absent, Gone, c
  <2> QED
    BY <1>1, <2>1, <2>2, UpdateDelivers
<1>8. CASE CommitAddItem(r) \/ CommitDraw(r)
  <2>1. UNCHANGED <<status, holder>>
    BY <1>8 DEF CommitAddItem, AddItemTx, CommitDraw, DrawTx, orderRows, numberRows
  <2> QED
    BY <1>1, <2>1, LifecycleStutter
<1> QED
  BY <1>2, <1>3, <1>4, <1>5, <1>6, <1>7, <1>8 DEF CommitStep

\* For any number of overlapping requests, an outsider sees each order go
\* through the promised lifecycle: no number before an approved dedication,
\* one owner per number, no delivery before a confirmed payment, and nothing
\* after it, unless conflicting operations overlap or a report meets another
\* report or a deletion (orders.service.ts, createPublicOrder to deleteOrder).
THEOREM OverlapLifecycle ==
  ASSUME Together \subseteq LifecyclePairs
  PROVE  RequestSpec => LifecycleSpec
<1>1. RequestInit => Lasting /\ Lifecycle!Init
  BY InitLifecycle DEF RequestInit, Lasting, InFlight
<1>2. OverlapInv /\ Lasting /\ [RequestNext]_requestVars => Lasting'
  BY LastingNext
<1>3. ASSUME OverlapInv, OverlapInv', Lasting, [RequestNext]_requestVars
      PROVE  [Lifecycle!Next]_(Lifecycle!vars)
  <2>1. RowInv /\ RowInv'
    BY <1>3 DEF OverlapInv, SerialInv
  <2>2. Single => [Next]_vars
    BY DEF Single, Next
  <2>3. ASSUME NEW r \in Request, BeginStep(r) \/ Fail(r) PROVE UNCHANGED vars
    BY <1>3, <2>3, BeginFresh DEF Fail
  <2>4. UNCHANGED requestVars => UNCHANGED vars
    BY DEF requestVars
  <2>5. ASSUME NEW r \in Request, CommitStep(r)
        PROVE  Lifecycle!Next \/ UNCHANGED Lifecycle!vars
    BY <1>3, <2>1, <2>5, CommitLifecycle
  <2>6. [Next]_vars => Lifecycle!Next \/ UNCHANGED Lifecycle!vars
    BY <2>1, NextLifecycle
  <2> QED
    BY <1>3, <2>2, <2>3, <2>4, <2>5, <2>6 DEF RequestNext
<1>4. Together \subseteq SafePairs
  BY DEF LifecyclePairs
<1>5. RequestSpec => []OverlapInv
  BY <1>4, OverlapInvariant
<1> QED
  BY <1>1, <1>2, <1>3, <1>5, PTL DEF RequestSpec, LifecycleSpec, Lifecycle!Spec

-----------------------------------------------------------------------------
(* The administration of the raffle.  A reset takes the numbers of orders  *)
(* that go on: the invariant of Orders is weakened for them (orphans), and *)
(* says what they can still become.                                        *)

\* What an order whose number was deleted can be or become.
OrphanStatus == Reserving \cup {"PAYMENT_REJECTED", "DELETED"}

OrdersOK ==
  \A o \in Order :
    /\ status[o] # "IN_PREPARATION"
    /\ o \notin orphans => (HoldsNumber(o) <=> status[o] \in Reserving)
    /\ o \in orphans => ~HoldsNumber(o) /\ ~InDraw(o) /\ status[o] \in OrphanStatus

NumbersOK ==
  \A n \in Number :
    /\ numStatus[n] = "ASSIGNED" <=> holder[n] # NoOrder
    /\ drawn[n] \/ holder[n] # NoOrder => n \in rows

\* The numbers are 1..k, and no configuration counted more than k.
Ranges ==
  \E k \in 0..Total :
    /\ rows = 1..k
    /\ \A a \in Admin : conf[a] # NoConf =>
         conf[a].existing <= k /\ conf[a].existing < conf[a].count

\* They are when no reset overlaps with a configuration.
RangesOK ==
  apart => Ranges /\ (cleared # NoReset => \A a \in Admin : conf[a] = NoConf)

AdminTypeOK ==
  /\ rows \subseteq Number
  /\ conf \in [Admin -> Configuration \cup {NoConf}]
  /\ orphans \subseteq Order
  /\ apart \in BOOLEAN

\* The invariant of the administration.
RaffleInv == RowInv /\ OrdersOK /\ NumbersOK /\ AdminTypeOK /\ RangesOK

\* The raffle begins without orders, rounds or configurations in progress.
LEMMA InitRaffle == RaffleInit => RaffleInv
<1> SUFFICES ASSUME RaffleInit PROVE RaffleInv
  OBVIOUS
<1>1. RowInv
  BY InitRows DEF RaffleInit
<1>2. OrdersOK
  BY NullsAssumption DEF RaffleInit, Init, OrdersOK, HoldsNumber, Reserving
<1>3. NumbersOK /\ AdminTypeOK
  BY DEF RaffleInit, Init, NumbersOK, AdminTypeOK
<1>4. RangesOK
  <2>1. 0 \in 0..Total /\ rows = 1..0
    BY NumberAssumption DEF RaffleInit
  <2> QED
    BY <2>1 DEF RaffleInit, RangesOK, Ranges
<1> QED
  BY <1>1, <1>2, <1>3, <1>4 DEF RaffleInv

\* What a request about an order keeps, but for the rows of Orders.
ServedOK == OrdersOK' /\ NumbersOK'

\* An order that did not hold a number, and is no orphan, is not in a stage
\* that owns one.
LEMMA OrphanStages ==
  ASSUME RaffleInv, NEW o \in orphans
  PROVE  o \in Order /\ status[o] \in OrphanStatus
BY DEF RaffleInv, AdminTypeOK, OrdersOK

\* A step that moves orders between stages without touching a number.
LEMMA StagesServed ==
  ASSUME RaffleInv, UNCHANGED <<holder, numStatus, drawn, rounds, rows, orphans>>,
         \A o \in Order : /\ status'[o] # "IN_PREPARATION"
                          /\ status'[o] \in Reserving <=> status[o] \in Reserving
                          /\ status[o] \in OrphanStatus => status'[o] \in OrphanStatus
  PROVE  ServedOK
<1>1. OrdersOK'
  BY DEF RaffleInv, OrdersOK, HoldsNumber, InDraw
<1>2. NumbersOK'
  BY DEF RaffleInv, NumbersOK
<1> QED
  BY <1>1, <1>2 DEF ServedOK

\* The creation of orders keeps what the invariant says of orders and numbers.
LEMMA CreateServed ==
  ASSUME RaffleInv, UNCHANGED adminVars, NEW S \in SUBSET Order, NEW g, NEW ch, NEW lettered,
         NEW cart, CreateTx(S, g, ch, lettered, cart)
  PROVE  ServedOK
<1>1. \A o \in Order :
        \/ status'[o] = status[o]
        \/ status[o] = "UNUSED" /\ status'[o] \in {"MESSAGE_PENDING_REVIEW", "MESSAGE_APPROVED"}
  BY DEF CreateTx, DedicationStatus
<1>2. UNCHANGED <<holder, numStatus, drawn, rounds, rows, orphans>>
  BY DEF CreateTx, numberRows, adminVars
<1>3. \A o \in Order : status[o] # "IN_PREPARATION"
  BY DEF RaffleInv, OrdersOK
<1> QED
  BY <1>1, <1>2, <1>3, StagesServed DEF Reserving, OrphanStatus

\* So does a review of a dedication, or its resubmission.
LEMMA ReviewServed ==
  ASSUME RaffleInv, UNCHANGED adminVars, NEW o \in Order, VerifyMessage(o) \/ ResubmitMessage(o)
  PROVE  ServedOK
<1>1. RowsTypeOK
  BY DEF RaffleInv, RowInv
<1>2. \A x \in Order :
        \/ status'[x] = status[x]
        \/ /\ status[x] \in {"MESSAGE_PENDING_REVIEW", "MESSAGE_REJECTED"}
           /\ status'[x] \in {"MESSAGE_PENDING_REVIEW", "MESSAGE_APPROVED", "MESSAGE_REJECTED"}
  BY <1>1 DEF RowsTypeOK, VerifyMessage, CanVerifyMessage, VerifyMessageTx,
     ResubmitMessage, CanResubmitMessage, ResubmitMessageTx, DedicationStatus
<1>3. UNCHANGED <<holder, numStatus, drawn, rounds, rows, orphans>>
  BY DEF VerifyMessage, VerifyMessageTx, ResubmitMessage, ResubmitMessageTx, numberRows, adminVars
<1>4. \A x \in Order : status[x] # "IN_PREPARATION"
  BY DEF RaffleInv, OrdersOK
<1> QED
  BY <1>2, <1>3, <1>4, StagesServed DEF Reserving, OrphanStatus

\* The order was in the catalogue of approved ones: no orphan is.
LEMMA SelectServed ==
  ASSUME RaffleInv, UNCHANGED adminVars, NEW o \in Order, NEW n \in Number,
         CanSelectRaffleNumber(o), SelectRaffleNumberTx(o, n), n \in rows
  PROVE  ServedOK
<1> USE DEF SelectRaffleNumberTx, CanSelectRaffleNumber
<1>1. RowsTypeOK
  BY DEF RaffleInv, RowInv
<1>2. holder[n] = NoOrder
  BY DEF RaffleInv, RowInv, NumbersAgree, Claimable
<1>3. \A m \in Number : /\ holder'[m] = IF m = n THEN o ELSE holder[m]
                        /\ numStatus'[m] = IF m = n THEN "ASSIGNED" ELSE numStatus[m]
  BY <1>1 DEF RowsTypeOK
<1>4. \A x \in Order : status'[x] = IF x = o THEN "PAYMENT_PENDING" ELSE status[x]
  BY <1>1 DEF RowsTypeOK
<1>5. o \notin orphans
  BY DEF RaffleInv, OrdersOK, OrphanStatus, Reserving
<1>6. UNCHANGED <<drawn, rounds, rows, orphans>>
  BY DEF adminVars
<1>7. OrdersOK'
  <2>1. \A x \in Order : HoldsNumber(x)' <=> x = o \/ HoldsNumber(x)
    BY <1>2, <1>3, NullsAssumption DEF HoldsNumber
  <2>2. \A x \in Order : InDraw(x)' <=> InDraw(x)
    BY <1>6 DEF InDraw
  <2> QED
    BY <1>4, <1>5, <1>6, <2>1, <2>2 DEF RaffleInv, OrdersOK, Reserving
<1>8. NumbersOK'
  BY <1>3, <1>6, NullsAssumption DEF RaffleInv, NumbersOK
<1> QED
  BY <1>7, <1>8 DEF ServedOK

\* A rejected order gives its number back, if a reset left it one.
LEMMA PaymentServed ==
  ASSUME RaffleInv, UNCHANGED adminVars, NEW S \in SUBSET Order, NEW verified \in BOOLEAN,
         \A x \in S : status[x] = "PAYMENT_PENDING", VerifyPaymentTx(S, verified)
  PROVE  ServedOK
<1> USE DEF VerifyPaymentTx
<1>1. \A x \in Order :
        status'[x] = IF x \notin S THEN status[x]
                     ELSE IF verified THEN "PAYMENT_VERIFIED" ELSE "PAYMENT_REJECTED"
  OBVIOUS
<1>2. CASE verified
  <2>1. UNCHANGED <<holder, numStatus, drawn, rounds, rows, orphans>>
    BY <1>2 DEF adminVars
  <2>2. \A o \in Order : status[o] # "IN_PREPARATION"
    BY DEF RaffleInv, OrdersOK
  <2> QED
    BY <1>1, <1>2, <2>1, <2>2, StagesServed DEF Reserving, OrphanStatus
<1>3. CASE ~verified
  <2>1. \A m \in Number :
          /\ holder'[m] = IF holder[m] \in S THEN NoOrder ELSE holder[m]
          /\ numStatus'[m] = IF holder[m] \in S THEN "AVAILABLE" ELSE numStatus[m]
    BY <1>3
  <2>2. UNCHANGED <<drawn, rounds, rows, orphans>>
    BY DEF adminVars
  <2>3. \A x \in Order : HoldsNumber(x)' <=> x \notin S /\ HoldsNumber(x)
    BY <2>1, NullsAssumption DEF HoldsNumber
  <2>4. \A x \in Order : InDraw(x)' <=> InDraw(x)
    BY <2>2 DEF InDraw
  <2>5. OrdersOK'
    BY <1>1, <1>3, <2>2, <2>3, <2>4 DEF RaffleInv, OrdersOK, Reserving, OrphanStatus
  <2>6. NumbersOK'
    BY <2>1, <2>2, NullsAssumption DEF RaffleInv, NumbersOK
  <2> QED
    BY <2>5, <2>6 DEF ServedOK
<1> QED
  BY <1>2, <1>3

\* So does a deletion.
LEMMA DeleteServed ==
  ASSUME RaffleInv, UNCHANGED adminVars, NEW o \in Order, DeleteTx(o, NumberOf(o))
  PROVE  ServedOK
<1> USE DEF DeleteTx
<1>1. RowsTypeOK
  BY DEF RaffleInv, RowInv
<1>2. \A m \in Number : holder[m] = o <=> m = NumberOf(o)
  BY NullsAssumption DEF RaffleInv, RowInv, NumbersAgree, NumberOf, HoldsNumber
<1>3. \A m \in Number : /\ holder'[m] = IF holder[m] = o THEN NoOrder ELSE holder[m]
                        /\ numStatus'[m] = IF holder[m] = o THEN "AVAILABLE" ELSE numStatus[m]
  BY <1>2 DEF HolderWithout
<1>4. \A x \in Order : status'[x] = IF x = o THEN "DELETED" ELSE status[x]
  BY <1>1 DEF RowsTypeOK
<1>5. UNCHANGED <<drawn, rounds, rows, orphans>>
  BY DEF adminVars
<1>6. OrdersOK'
  <2>1. \A x \in Order : HoldsNumber(x)' <=> x # o /\ HoldsNumber(x)
    BY <1>3, NullsAssumption DEF HoldsNumber
  <2>2. \A x \in Order : InDraw(x)' <=> InDraw(x)
    BY <1>5 DEF InDraw
  <2> QED
    BY <1>4, <1>5, <2>1, <2>2 DEF RaffleInv, OrdersOK, Reserving, OrphanStatus
<1>7. NumbersOK'
  BY <1>3, <1>5, NullsAssumption DEF RaffleInv, NumbersOK
<1> QED
  BY <1>6, <1>7 DEF ServedOK

\* So does a delivery report.
LEMMA DeliveryServed ==
  ASSUME RaffleInv, UNCHANGED adminVars, NEW o \in Order, UpdateDeliveryStatus(o)
  PROVE  ServedOK
<1>1. RowsTypeOK
  BY DEF RaffleInv, RowInv
<1>2. \A x \in Order : status[x] # "IN_PREPARATION"
  BY DEF RaffleInv, OrdersOK
<1>3. \A x \in Order :
        \/ status'[x] = status[x]
        \/ /\ status[x] \in {"PAYMENT_VERIFIED", "IN_ROUTE"}
           /\ status'[x] \in {"IN_ROUTE", "DELIVERED", "CANCELLED"}
  BY <1>1, <1>2 DEF RowsTypeOK, UpdateDeliveryStatus, CanUpdateDelivery, UpdateDeliveryTx,
     mapDeliveryStatusToOrderStatus, AssignmentStatus
<1>4. UNCHANGED <<holder, numStatus, drawn, rounds, rows, orphans>>
  BY DEF UpdateDeliveryStatus, UpdateDeliveryTx, numberRows, adminVars
<1> QED
  BY <1>2, <1>3, <1>4, StagesServed DEF Reserving, OrphanStatus

\* The winner owns a number, so it is no orphan.
LEMMA DrawServed ==
  ASSUME RaffleInv, UNCHANGED adminVars, NEW n \in Number, Draw(n)
  PROVE  ServedOK
<1> USE DEF Draw, Eligible, DrawTx, orderRows
<1>1. RowsTypeOK
  BY DEF RaffleInv, RowInv
<1> DEFINE o == holder[n]
<1>2. o \in Order /\ HoldsNumber(o)
  BY <1>1, NullsAssumption DEF RowsTypeOK, HoldsNumber
<1>3. \A i \in DOMAIN rounds' :
        \/ i \in DOMAIN rounds /\ rounds'[i] = rounds[i]
        \/ rounds'[i].order = o
  BY <1>1, <1>2, AppendProperties DEF RowsTypeOK
<1>4. UNCHANGED <<status, holder, numStatus, rows, orphans>>
  BY DEF adminVars
<1>5. \A m \in Number : drawn'[m] => m = n \/ drawn[m]
  BY <1>1 DEF RowsTypeOK
<1>6. NumbersOK'
  BY <1>4, <1>5 DEF RaffleInv, NumbersOK
<1>7. \A x \in Order : InDraw(x)' => InDraw(x) \/ x = o
  BY <1>3 DEF InDraw
<1>8. OrdersOK'
  BY <1>2, <1>4, <1>7 DEF RaffleInv, OrdersOK, HoldsNumber
<1> QED
  BY <1>6, <1>8 DEF ServedOK

\* A request about an order, or a draw.
LEMMA ServeOK ==
  ASSUME RaffleInv, ServeOrders
  PROVE  ServedOK
<1>1. Next /\ UNCHANGED adminVars /\ \A n \in Number : holder'[n] # NoOrder => n \in rows
  BY DEF ServeOrders
<1>2. RowsTypeOK
  BY DEF RaffleInv, RowInv
<1>3. ASSUME NEW S \in SUBSET Order, CreatePublicOrdersMulti(S) PROVE ServedOK
  BY <1>1, <1>3, CreateServed DEF CreatePublicOrdersMulti
<1>4. ASSUME NEW o \in Order, CreatePublicOrder(o) PROVE ServedOK
  BY <1>1, <1>4, CreateServed DEF CreatePublicOrder
<1>5. ASSUME NEW o \in Order, VerifyMessage(o) \/ ResubmitMessage(o) PROVE ServedOK
  BY <1>1, <1>5, ReviewServed
<1>6. ASSUME NEW o \in Order, SelectRaffleNumber(o) PROVE ServedOK
  <2>1. PICK n \in Number : CanSelectRaffleNumber(o) /\ SelectRaffleNumberTx(o, n)
    BY <1>6 DEF SelectRaffleNumber
  <2>2. holder'[n] = o /\ o # NoOrder
    BY <1>2, <2>1, NullsAssumption DEF SelectRaffleNumberTx, RowsTypeOK
  <2>3. n \in rows
    BY <1>1, <2>2
  <2> QED
    BY <1>1, <2>1, <2>3, SelectServed
<1>7. ASSUME NEW o \in Order, VerifyPayment(o) PROVE ServedOK
  BY <1>1, <1>7, PaymentServed DEF VerifyPayment, CanVerifyPayment
<1>8. ASSUME NEW o \in Order, VerifyPaymentGroup(group[o]) PROVE ServedOK
  <2>1. GroupRows(group[o]) \in SUBSET Order
    BY <1>2 DEF RowsTypeOK, GroupRows
  <2> QED
    BY <1>1, <1>8, <2>1, PaymentServed DEF VerifyPaymentGroup, CanVerifyPayment
<1>9. ASSUME NEW o \in Order, DeleteOrder(o) PROVE ServedOK
  BY <1>1, <1>9, DeleteServed DEF DeleteOrder
<1>10. ASSUME NEW o \in Order, UpdateDeliveryStatus(o) PROVE ServedOK
  BY <1>1, <1>10, DeliveryServed
<1>11. ASSUME NEW n \in Number, Draw(n) PROVE ServedOK
  BY <1>1, <1>11, DrawServed
<1>12. ASSUME UNCHANGED <<status, holder, numStatus, drawn, rounds>> PROVE ServedOK
  <2>1. UNCHANGED <<rows, orphans>>
    BY <1>1 DEF adminVars
  <2>2. \A o \in Order : status[o] # "IN_PREPARATION"
    BY DEF RaffleInv, OrdersOK
  <2> QED
    BY <1>12, <2>1, <2>2, StagesServed
<1>13. ASSUME NEW o \in Order, AddItem(o) PROVE ServedOK
  BY <1>12, <1>13 DEF AddItem, AddItemTx, numberRows
<1>14. ASSUME NEW p \in Product, SetProductActive(p) PROVE ServedOK
  BY <1>12, <1>14 DEF SetProductActive, orderRows, numberRows
<1> QED
  BY <1>1, <1>3, <1>4, <1>5, <1>6, <1>7, <1>8, <1>9, <1>10, <1>11, <1>13, <1>14 DEF Next

\* Cardinalities of ranges of numbers.
LEMMA RowsCounted ==
  ASSUME rows \subseteq Number
  PROVE  /\ Cardinality(rows) \in 0..Total
         /\ \A k \in Nat : rows = 1..k => Cardinality(rows) = k
<1>1. IsFiniteSet(Number) /\ Cardinality(Number) = Total
  BY NumberAssumption, FS_Interval
<1>2. /\ IsFiniteSet(rows) /\ Cardinality(rows) <= Cardinality(Number)
  BY <1>1, FS_Subset
<1>3. Cardinality(rows) \in Nat
  BY <1>2, FS_CardinalityType
<1>4. ASSUME NEW k \in Nat, rows = 1..k PROVE Cardinality(rows) = k
  BY <1>4, FS_Interval
<1> QED
  BY <1>1, <1>2, <1>3, <1>4, NumberAssumption

\* What a step does to the rows of the numbers.
LEMMA RangesStep ==
  ASSUME RaffleInv, [RaffleNext]_raffleVars
  PROVE  AdminTypeOK' /\ RangesOK'
<1> USE DEF RaffleInv
<1>1. CASE UNCHANGED <<rows, conf, cleared, apart>> /\ orphans' \subseteq Order
  BY <1>1 DEF AdminTypeOK, RangesOK, Ranges
<1>2. ASSUME NEW a \in Admin, CountNumbers(a) PROVE AdminTypeOK' /\ RangesOK'
  <2>1. PICK count \in Number :
          /\ count > Cardinality(rows)
          /\ conf' = [conf EXCEPT ![a] = [count |-> count, existing |-> Cardinality(rows)]]
    BY <1>2 DEF CountNumbers
  <2> DEFINE c == [count |-> count, existing |-> Cardinality(rows)]
  <2>2. /\ Cardinality(rows) \in 0..Total
        /\ \A k \in Nat : rows = 1..k => Cardinality(rows) = k
    BY RowsCounted DEF AdminTypeOK
  <2>3. c \in Configuration
    BY <2>2, NumberAssumption DEF Configuration
  <2>4. UNCHANGED <<rows, cleared, orphans, apart>> /\ (apart => cleared = NoReset)
    BY <1>2 DEF CountNumbers
  <2>5. AdminTypeOK'
    BY <2>1, <2>3, <2>4 DEF AdminTypeOK
  <2>6. \A b \in Admin : conf'[b] = IF b = a THEN c ELSE conf[b]
    BY <2>1 DEF AdminTypeOK
  <2>7. ASSUME apart
        PROVE  \E k \in 0..Total :
                 /\ rows = 1..k
                 /\ \A b \in Admin : conf'[b] # NoConf =>
                      conf'[b].existing <= k /\ conf'[b].existing < conf'[b].count
    <3>1. PICK k \in 0..Total :
            /\ rows = 1..k
            /\ \A b \in Admin : conf[b] # NoConf =>
                 conf[b].existing <= k /\ conf[b].existing < conf[b].count
      BY <2>7 DEF RangesOK, Ranges
    <3>2. Cardinality(rows) = k
      BY <2>2, <3>1
    <3>3. c.existing = k /\ c.count > k
      BY <2>1, <3>2
    <3>4. c.existing <= k /\ c.existing < c.count
      BY <3>3, NumberAssumption
    <3> HIDE DEF c
    <3> QED
      BY <2>6, <3>1, <3>4
  <2> QED
    BY <2>4, <2>5, <2>7 DEF RangesOK, Ranges
<1>3. ASSUME NEW a \in Admin, CreateNumbers(a) PROVE AdminTypeOK' /\ RangesOK'
  <2> DEFINE c == conf[a]
  <2>1. /\ c # NoConf /\ rows' = rows \cup Missing(c) /\ Missing(c) \cap rows = {}
        /\ conf' = [conf EXCEPT ![a] = NoConf] /\ UNCHANGED <<cleared, orphans, apart>>
    BY <1>3 DEF CreateNumbers, RangeFree
  <2>2. c \in Configuration
    BY <2>1 DEF AdminTypeOK
  <2>3. c.count \in 1..Total /\ c.existing \in 0..Total
    BY <2>2 DEF Configuration
  <2>4. Missing(c) = (c.existing + 1)..c.count
    BY DEF Missing
  <2>5. AdminTypeOK'
    <3>1. Missing(c) \subseteq Number
      BY <2>3, <2>4, NumberAssumption
    <3> QED
      BY <2>1, <3>1 DEF AdminTypeOK
  <2>6. \A b \in Admin : conf'[b] = IF b = a THEN NoConf ELSE conf[b]
    BY <2>1 DEF AdminTypeOK
  <2>7. ASSUME apart
        PROVE  \E k \in 0..Total :
                 /\ rows' = 1..k
                 /\ \A b \in Admin : conf'[b] # NoConf =>
                      conf'[b].existing <= k /\ conf'[b].existing < conf'[b].count
    <3>1. PICK k \in 0..Total :
            /\ rows = 1..k
            /\ \A b \in Admin : conf[b] # NoConf =>
                 conf[b].existing <= k /\ conf[b].existing < conf[b].count
      BY <2>7 DEF RangesOK, Ranges
    <3>2. c.existing <= k /\ c.existing < c.count
      BY <2>1, <3>1
    <3>3. c.existing = k
      <4> SUFFICES ASSUME c.existing < k PROVE FALSE
        BY <2>3, <3>2
      <4>1. c.existing + 1 \in (c.existing + 1)..c.count /\ c.existing + 1 \in 1..k
        BY <2>3, <3>2
      <4> QED
        BY <2>1, <2>4, <3>1, <4>1
    <3>4. rows' = 1..c.count /\ k < c.count
      <4>1. rows' = (1..k) \cup ((k + 1)..c.count)
        BY <2>1, <2>4, <3>1, <3>3
      <4> HIDE DEF c
      <4> QED
        BY <2>3, <3>2, <3>3, <4>1
    <3>5. \A b \in Admin : conf'[b] # NoConf =>
            conf'[b].existing <= c.count /\ conf'[b].existing < conf'[b].count
      <4> SUFFICES ASSUME NEW b \in Admin, conf'[b] # NoConf
                   PROVE  conf'[b].existing <= c.count /\ conf'[b].existing < conf'[b].count
        OBVIOUS
      <4>1. conf'[b] = conf[b] /\ conf[b] \in Configuration
        BY <2>6 DEF AdminTypeOK
      <4>2. conf[b].existing \in Nat
        BY <4>1 DEF Configuration
      <4> QED
        BY <2>3, <3>1, <3>4, <4>1, <4>2
    <3>6. c.count \in 0..Total
      BY <2>3
    <3> HIDE DEF c
    <3> QED
      BY <3>4, <3>5, <3>6
  <2> QED
    BY <2>1, <2>5, <2>6, <2>7 DEF RangesOK, Ranges
<1>4. ASSUME NEW a \in Admin, ConfigureFails(a) PROVE AdminTypeOK' /\ RangesOK'
  <2>1. \A b \in Admin : conf'[b] = IF b = a THEN NoConf ELSE conf[b]
    BY <1>4 DEF ConfigureFails, AdminTypeOK
  <2> QED
    BY <1>4, <2>1 DEF ConfigureFails, AdminTypeOK, RangesOK, Ranges
<1>5. CASE resetAll
  <2>1. /\ rows' = {} /\ UNCHANGED <<conf, apart>> /\ cleared # NoReset /\ cleared' = NoReset
        /\ orphans' = orphans \cup {o \in Order : HoldsNumber(o)}
    <3>1. Len(rounds) \in Nat
      BY LenProperties DEF RowInv, RowsTypeOK
    <3> QED
      BY <1>5, <3>1 DEF resetAll, NoReset
  <2>2. AdminTypeOK'
    BY <2>1 DEF AdminTypeOK
  <2>3. apart => \A a \in Admin : conf'[a] = NoConf
    BY <2>1 DEF RangesOK
  <2>4. rows' = 1..0 /\ 0 \in 0..Total
    BY <2>1, NumberAssumption
  <2> QED
    BY <2>1, <2>2, <2>3, <2>4 DEF RangesOK, Ranges
<1>6. CASE ClearRounds \/ ResetFails
  BY <1>6 DEF ClearRounds, ResetFails, AdminTypeOK, RangesOK, Ranges
<1> QED
  BY <1>1, <1>2, <1>3, <1>4, <1>5, <1>6
  DEF RaffleNext, ServeOrders, adminVars, raffleVars, AdminTypeOK

\* Every step of the orders and of the administration keeps the invariant.
LEMMA RaffleStep == RaffleInv /\ [RaffleNext]_raffleVars => RaffleInv'
<1> SUFFICES ASSUME RaffleInv, [RaffleNext]_raffleVars PROVE RaffleInv'
  OBVIOUS
<1>1. AdminTypeOK' /\ RangesOK'
  BY RangesStep
<1>2. CASE ServeOrders
  <2>1. RowInv'
    BY <1>2, NextRows DEF ServeOrders, RaffleInv
  <2> QED
    BY <1>1, <1>2, <2>1, ServeOK DEF ServedOK, RaffleInv
<1>3. ASSUME UNCHANGED vars, UNCHANGED orphans, rows \subseteq rows' PROVE RaffleInv'
  <2>1. RowInv'
    BY <1>3, NextRows DEF RaffleInv
  <2>2. UNCHANGED <<status, holder, numStatus, drawn, rounds>>
    BY <1>3 DEF vars, orderRows, numberRows
  <2>3. OrdersOK'
    BY <1>3, <2>2 DEF RaffleInv, OrdersOK, HoldsNumber, InDraw
  <2>4. NumbersOK'
    BY <1>3, <2>2 DEF RaffleInv, NumbersOK
  <2> QED
    BY <1>1, <2>1, <2>3, <2>4 DEF RaffleInv
<1>4. CASE UNCHANGED raffleVars
  BY <1>3, <1>4 DEF raffleVars, adminVars
<1>5. ASSUME NEW a \in Admin, CountNumbers(a) \/ CreateNumbers(a) \/ ConfigureFails(a)
      PROVE  RaffleInv'
  BY <1>3, <1>5 DEF CountNumbers, CreateNumbers, ConfigureFails
<1>7. CASE ClearRounds \/ ResetFails
  BY <1>3, <1>7 DEF ClearRounds, ResetFails
<1>6. CASE resetAll
  <2>1. /\ rounds' = <<>> /\ rows' = {}
        /\ holder' = [n \in Number |-> NoOrder]
        /\ numStatus' = [n \in Number |-> "AVAILABLE"]
        /\ drawn' = [n \in Number |-> FALSE]
        /\ orphans' = orphans \cup {o \in Order : HoldsNumber(o)}
        /\ UNCHANGED <<status, channel, group, review, payment, assignment, items, stock, active>>
    BY <1>6 DEF resetAll, RoundsAfterReset, orderRows, productRows
  <2>2. RowsTypeOK'
    BY <2>1 DEF RaffleInv, RowInv, RowsTypeOK
  <2>3. NumbersAgree' /\ StatusAgrees' /\ WinnersKept'
    BY <2>1 DEF RaffleInv, RowInv, NumbersAgree, StatusAgrees, WinnersKept
  <2>4. \A o \in Order : ~HoldsNumber(o)' /\ ~InDraw(o)'
    BY <2>1, NullsAssumption DEF HoldsNumber, InDraw
  <2>5. OrdersOK'
    BY <2>1, <2>4 DEF RaffleInv, OrdersOK, OrphanStatus
  <2>6. NumbersOK'
    BY <2>1 DEF NumbersOK
  <2> QED
    BY <1>1, <2>2, <2>3, <2>5, <2>6 DEF RaffleInv, RowInv
<1> QED
  BY <1>2, <1>4, <1>5, <1>6, <1>7 DEF RaffleNext

\* The rows of the raffle and of the orders agree, however configurations
\* and resets come between the requests.
THEOREM RaffleInvariant == RaffleSpec => []RaffleInv
BY InitRaffle, RaffleStep, PTL DEF RaffleSpec

\* The numbers are 1..n without a hole, however configurations overlap, as
\* long as no reset comes between the count and the insert of one
\* (raffle-numbers.service.ts, configure).
THEOREM NumbersWithoutHole == RaffleSpec => []Contiguous
<1>1. RaffleInv => Contiguous
  <2> SUFFICES ASSUME RaffleInv, apart PROVE rows = 1..Cardinality(rows)
    BY DEF Contiguous
  <2>1. PICK k \in 0..Total : rows = 1..k
    BY DEF RaffleInv, RangesOK, Ranges
  <2>2. Cardinality(rows) = k
    BY <2>1, RowsCounted, NumberAssumption DEF RaffleInv, AdminTypeOK
  <2> QED
    BY <2>1, <2>2
<1> QED
  BY <1>1, RaffleInvariant, PTL

\* An order that a reset took the number from never owns one again and wins
\* nothing; every other one owns a number as in Orders.
THEOREM NumbersSoldOnce == RaffleSpec => []SoldOrOrphaned
<1>1. ASSUME RaffleInv
      PROVE  SoldOrOrphaned
  <2>1. ASSUME NEW i \in DOMAIN rounds PROVE rounds[i].number \in rows
    <3>1. rounds \in Seq([number : Number, order : Order]) /\ drawn[rounds[i].number]
      BY <1>1 DEF RaffleInv, RowInv, RowsTypeOK, WinnersKept
    <3>2. rounds[i] \in [number : Number, order : Order]
      BY <3>1, ElementOfSeq, LenProperties
    <3>3. rounds[i].number \in Number
      BY <3>2
    <3> QED
      BY <1>1, <3>1, <3>3 DEF RaffleInv, NumbersOK
  <2> QED
    BY <1>1, <2>1 DEF RaffleInv, OrdersOK, NumbersOK, SoldOrOrphaned
<1> QED
  BY <1>1, RaffleInvariant, PTL

-----------------------------------------------------------------------------
(* The stock over resets: it is counted with the orders by their stage,    *)
(* whether a reset left them a number or not.                              *)

SoldSet == {o \in Order : status[o] \in Reserving}
Account(p) == stock[p] + UnitsOf(SoldSet, p)
AllThere == \A o \in orphans : Exists(o)

\* As long as no orphan was deleted, the stock and what was sold are what
\* there was; afterwards they are no more than that.
ShelfInv ==
  /\ TypeOK /\ IsFiniteSet(orphans)
  /\ \A p \in Product : /\ Account(p) <= InitialStock[p]
                        /\ AllThere => Account(p) = InitialStock[p]

\* What a step may do to the account of a product: only the deletion of an
\* orphan takes from it.
Settles(p) ==
  /\ stock'[p] \in Int
  /\ Account(p)' \in Int
  /\ Account(p)' <= Account(p)
  /\ AllThere' => Account(p)' = Account(p)

\* Finitely many orders are sold: each has a number, or had one.
LEMMA SoldFinite ==
  ASSUME RaffleInv, IsFiniteSet(orphans)
  PROVE  IsFiniteSet(SoldSet)
<1>1. SoldSet \subseteq Holders \cup orphans
  BY DEF SoldSet, Holders, RaffleInv, OrdersOK
<1>2. IsFiniteSet(Holders \cup orphans)
  BY HoldersFinite, FS_Union
<1> QED
  BY <1>1, <1>2, FS_Subset

\* The account of a product is a number.
LEMMA AccountType ==
  ASSUME RaffleInv, TypeOK, IsFiniteSet(orphans), NEW p \in Product
  PROVE  stock[p] \in Int /\ UnitsOf(SoldSet, p) \in Nat /\ Account(p) \in Int
<1>1. PICK S : S = SoldSet /\ S \subseteq Order /\ IsFiniteSet(S)
  BY SoldFinite DEF SoldSet
<1>2. UnitsOf(S, p) \in Nat
  BY <1>1, UnitsOfSum DEF TypeOK
<1>3. stock[p] \in Int /\ UnitsOf(SoldSet, p) \in Nat
  BY <1>1, <1>2 DEF TypeOK
<1> QED
  BY <1>3 DEF Account

\* The units a step leaves sold, for a set that does not change.
LEMMA SoldAfter ==
  ASSUME NEW T, T = SoldSet', NEW p
  PROVE  UnitsOf(SoldSet, p)' = UnitsOf(T, p)'
BY DEF UnitsOf

\* A step that changes neither the stock nor what was sold settles.
LEMMA StageSettles ==
  ASSUME RaffleInv, TypeOK, IsFiniteSet(orphans), NEW p \in Product,
         SoldSet' = SoldSet, UNCHANGED stock, \A o \in SoldSet : items'[o] = items[o]
  PROVE  Settles(p)
<1>1. PICK S : S = SoldSet /\ S \subseteq Order /\ IsFiniteSet(S)
  BY SoldFinite DEF SoldSet
<1>2. UnitsOf(S, p)' = UnitsOf(S, p)
  BY <1>1, UnitsKept
<1>3. UnitsOf(SoldSet, p)' = UnitsOf(SoldSet, p)
  BY <1>1, <1>2, SoldAfter
<1> QED
  BY <1>3, AccountType DEF Settles, Account

\* The choice of a number takes from the stock what its order is sold.
LEMMA SelectSettles ==
  ASSUME RaffleInv, TypeOK, IsFiniteSet(orphans), NEW p \in Product,
         NEW o \in Order, NEW n \in Number, CanSelectRaffleNumber(o), SelectRaffleNumberTx(o, n)
  PROVE  Settles(p)
<1>1. PICK S : S = SoldSet /\ S \subseteq Order /\ IsFiniteSet(S)
  BY SoldFinite DEF SoldSet
<1>2. /\ status[o] = "MESSAGE_APPROVED" /\ status' = [status EXCEPT ![o] = "PAYMENT_PENDING"]
      /\ items' = items /\ stock'[p] = stock[p] - Units(o)[p]
  BY DEF CanSelectRaffleNumber, SelectRaffleNumberTx
<1>3. o \notin S /\ SoldSet' = S \cup {o}
  BY <1>1, <1>2 DEF TypeOK, RowsTypeOK, SoldSet, Reserving
<1>4. UnitsOf(S \cup {o}, p)' = UnitsOf(S, p) + Units(o)[p]
  BY <1>1, <1>2, <1>3, UnitsAdd DEF TypeOK
<1>5. UnitsOf(SoldSet, p)' = UnitsOf(SoldSet, p) + Units(o)[p]
  BY <1>1, <1>3, <1>4, SoldAfter
<1>6. Units(o)[p] \in Nat
  BY UnitsNatural DEF TypeOK, UnitsTable
<1>7. stock[p] \in Int /\ UnitsOf(SoldSet, p) \in Nat
  BY AccountType
<1>8. Account(p)' = Account(p) /\ Account(p) \in Int /\ stock'[p] \in Int
  BY <1>2, <1>5, <1>6, <1>7 DEF Account
<1> QED
  BY <1>8 DEF Settles

\* Orders that leave the sold ones and give back what they took.
LEMMA ReturnSettles ==
  ASSUME RaffleInv, TypeOK, IsFiniteSet(orphans), NEW p \in Product,
         NEW S, S \subseteq SoldSet, SoldSet' = SoldSet \ S,
         \A x \in SoldSet \ S : items'[x] = items[x],
         \/ stock'[p] = stock[p] + UnitsOf(S, p)
         \/ stock'[p] = stock[p] /\ ~AllThere'
  PROVE  Settles(p)
<1>1. PICK H : H = SoldSet /\ H \subseteq Order /\ IsFiniteSet(H)
  BY SoldFinite DEF SoldSet
<1>2. /\ UnitsOf(S, p) \in Nat
      /\ UnitsOf(H \ S, p)' \in Nat
      /\ UnitsOf(H, p) = UnitsOf(H \ S, p)' + UnitsOf(S, p)
  BY <1>1, UnitsRemove DEF TypeOK
<1>3. UnitsOf(SoldSet, p)' = UnitsOf(H \ S, p)'
  BY <1>1, SoldAfter
<1>4. stock[p] \in Int /\ UnitsOf(SoldSet, p) = UnitsOf(H, p)
  BY <1>1, AccountType
<1>5. /\ Account(p)' = stock'[p] + UnitsOf(H \ S, p)'
      /\ Account(p) = stock[p] + UnitsOf(H \ S, p)' + UnitsOf(S, p)
  BY <1>2, <1>3, <1>4 DEF Account
<1> QED
  BY <1>2, <1>4, <1>5 DEF Settles

\* A rejected payment puts back what the orders were sold; a verified one
\* moves nothing.
LEMMA PaymentSettles ==
  ASSUME RaffleInv, TypeOK, IsFiniteSet(orphans), NEW p \in Product,
         NEW S \in SUBSET Order, NEW verified \in BOOLEAN,
         \A x \in S : status[x] = "PAYMENT_PENDING", VerifyPaymentTx(S, verified)
  PROVE  Settles(p)
<1>1. /\ items' = items
      /\ \A x \in Order :
           status'[x] = IF x \notin S THEN status[x]
                        ELSE IF verified THEN "PAYMENT_VERIFIED" ELSE "PAYMENT_REJECTED"
  BY DEF VerifyPaymentTx
<1>2. CASE verified
  <2>1. SoldSet' = SoldSet /\ UNCHANGED stock
    BY <1>1, <1>2 DEF SoldSet, Reserving, VerifyPaymentTx
  <2> QED
    BY <1>1, <2>1, StageSettles
<1>3. CASE ~verified
  <2>1. S \subseteq SoldSet /\ SoldSet' = SoldSet \ S
    BY <1>1, <1>3 DEF SoldSet, Reserving
  <2>2. stock'[p] = stock[p] + UnitsOf(S, p)
    BY <1>3 DEF VerifyPaymentTx
  <2> QED
    BY <1>1, <2>1, <2>2, ReturnSettles
<1> QED
  BY <1>2, <1>3

\* Only an orphan is deleted with the units it took.
LEMMA DeleteSettles ==
  ASSUME RaffleInv, TypeOK, IsFiniteSet(orphans), UNCHANGED orphans, NEW p \in Product,
         NEW o \in Order, DeleteTx(o, NumberOf(o))
  PROVE  Settles(p)
<1>1. /\ \A x \in Order : status'[x] = IF x = o THEN "DELETED" ELSE status[x]
      /\ \A x \in Order : x # o => items'[x] = items[x]
      /\ stock' = IF NumberOf(o) = NoNumber THEN stock
                  ELSE [q \in Product |-> stock[q] + Units(o)[q]]
  BY DEF DeleteTx, TypeOK, RowsTypeOK
<1>2. CASE o \notin SoldSet
  <2>1. SoldSet' = SoldSet
    BY <1>1, <1>2 DEF SoldSet, Reserving
  <2>2. ~HoldsNumber(o)
    BY <1>2 DEF SoldSet, RaffleInv, OrdersOK
  <2>3. UNCHANGED stock
    BY <1>1, <2>2 DEF NumberOf
  <2>4. \A x \in SoldSet : items'[x] = items[x]
    BY <1>1, <1>2 DEF SoldSet
  <2> QED
    BY <2>1, <2>3, <2>4, StageSettles
<1>3. CASE o \in SoldSet
  <2>1. {o} \subseteq SoldSet /\ SoldSet' = SoldSet \ {o}
    BY <1>1, <1>3 DEF SoldSet, Reserving
  <2>2. \A x \in SoldSet \ {o} : items'[x] = items[x]
    BY <1>1 DEF SoldSet
  <2>3. CASE HoldsNumber(o)
    <3>1. NumberOf(o) # NoNumber
      BY <2>3, NullsAssumption DEF NumberOf, HoldsNumber
    <3>2. stock'[p] = stock[p] + UnitsOf({o}, p)
      BY <1>1, <3>1, UnitsOfOne DEF TypeOK
    <3> QED
      BY <2>1, <2>2, <3>2, ReturnSettles
  <2>4. CASE ~HoldsNumber(o)
    <3>1. stock'[p] = stock[p]
      BY <1>1, <2>4 DEF NumberOf
    <3>2. o \in orphans
      BY <1>3, <2>4 DEF SoldSet, RaffleInv, OrdersOK
    <3>3. ~AllThere'
      BY <1>1, <3>2 DEF AllThere, Exists, Absent
    <3> QED
      BY <2>1, <2>2, <3>1, <3>3, ReturnSettles
  <2> QED
    BY <2>3, <2>4
<1> QED
  BY <1>2, <1>3

\* A request about an order settles the account of every product.
LEMMA ServeSettles ==
  ASSUME Additions = {}, RaffleInv, TypeOK, IsFiniteSet(orphans), ServeOrders,
         NEW p \in Product
  PROVE  Settles(p)
<1>1. Next /\ UNCHANGED orphans
  BY DEF ServeOrders, adminVars
<1>2. ASSUME NEW S \in SUBSET Order, NEW g, NEW ch, NEW lettered, NEW cart,
             CreateTx(S, g, ch, lettered, cart)
      PROVE  Settles(p)
  <2>1. \A o \in S : status[o] = "UNUSED"
    BY <1>2 DEF CreateTx
  <2>2. \A o \in Order : status'[o] \in Reserving <=> status[o] \in Reserving
    BY <1>2, <2>1 DEF CreateTx, DedicationStatus, Reserving
  <2>3. \A o \in SoldSet : items'[o] = items[o]
    BY <1>2, <2>1 DEF CreateTx, SoldSet, Reserving
  <2>4. SoldSet' = SoldSet /\ UNCHANGED stock
    BY <1>2, <2>2 DEF SoldSet, CreateTx, productRows
  <2> QED
    BY <2>3, <2>4, StageSettles
<1>3. ASSUME UNCHANGED <<stock, items>>,
             \A o \in Order : status'[o] \in Reserving <=> status[o] \in Reserving
      PROVE  Settles(p)
  <2>1. SoldSet' = SoldSet
    BY <1>3 DEF SoldSet
  <2> QED
    BY <1>3, <2>1, StageSettles
<1>4. ASSUME NEW o \in Order, VerifyMessage(o) \/ ResubmitMessage(o) PROVE Settles(p)
  <2>1. UNCHANGED <<stock, items>>
    BY <1>4 DEF VerifyMessage, ResubmitMessage, VerifyMessageTx, ResubmitMessageTx, productRows
  <2>2. \A x \in Order : status'[x] \in Reserving <=> status[x] \in Reserving
    BY <1>4 DEF VerifyMessage, CanVerifyMessage, VerifyMessageTx, ResubmitMessage,
       CanResubmitMessage, ResubmitMessageTx, DedicationStatus, Reserving, TypeOK, RowsTypeOK
  <2> QED
    BY <1>3, <2>1, <2>2
<1>5. ASSUME NEW o \in Order, UpdateDeliveryStatus(o) PROVE Settles(p)
  <2>1. UNCHANGED <<stock, items>>
    BY <1>5 DEF UpdateDeliveryStatus, UpdateDeliveryTx, productRows
  <2>2. \A x \in Order : status'[x] \in Reserving <=> status[x] \in Reserving
    BY <1>5 DEF UpdateDeliveryStatus, CanUpdateDelivery, UpdateDeliveryTx,
       mapDeliveryStatusToOrderStatus, Reserving, TypeOK, RowsTypeOK, RaffleInv, OrdersOK
  <2> QED
    BY <1>3, <2>1, <2>2
<1>6. ASSUME NEW n \in Number, Draw(n) PROVE Settles(p)
  BY <1>3, <1>6 DEF Draw, DrawTx, orderRows, productRows
<1>7. ASSUME NEW q \in Product, SetProductActive(q) PROVE Settles(p)
  BY <1>3, <1>7 DEF SetProductActive, orderRows
<1>8. ASSUME NEW o \in Order, CreatePublicOrder(o) PROVE Settles(p)
  BY <1>2, <1>8 DEF CreatePublicOrder
<1>9. ASSUME NEW S \in SUBSET Order, CreatePublicOrdersMulti(S) PROVE Settles(p)
  BY <1>2, <1>9 DEF CreatePublicOrdersMulti
<1>10. ASSUME NEW o \in Order, SelectRaffleNumber(o) PROVE Settles(p)
  BY <1>10, SelectSettles DEF SelectRaffleNumber
<1>11. ASSUME NEW o \in Order, VerifyPayment(o) PROVE Settles(p)
  BY <1>11, PaymentSettles DEF VerifyPayment, CanVerifyPayment
<1>12. ASSUME NEW o \in Order, VerifyPaymentGroup(group[o]) PROVE Settles(p)
  <2>1. GroupRows(group[o]) \in SUBSET Order
    BY DEF TypeOK, RowsTypeOK, GroupRows
  <2> QED
    BY <1>12, <2>1, PaymentSettles DEF VerifyPaymentGroup, CanVerifyPayment
<1>13. ASSUME NEW o \in Order, DeleteOrder(o) PROVE Settles(p)
  BY <1>1, <1>13, DeleteSettles DEF DeleteOrder
<1>14. \A o \in Order : ~AddItem(o)
  BY DEF AddItem
<1> QED
  BY <1>1, <1>4, <1>5, <1>6, <1>7, <1>8, <1>9, <1>10, <1>11, <1>12, <1>13, <1>14 DEF Next

\* What every request leaves: the stock is a table of the products, and a
\* deleted order stays deleted.
Shape ==
  /\ stock' = [p \in Product |-> stock'[p]]
  /\ \A o \in Order : status[o] = "DELETED" => status'[o] = "DELETED"

\* So does every step of Orders.
LEMMA ServeShape ==
  ASSUME TypeOK, Next
  PROVE  Shape
<1> USE DEF Shape, Exists, Absent
<1>t. status \in [Order -> OrderStatus \cup Absent] /\ stock = [p \in Product |-> stock[p]]
  BY DEF TypeOK, RowsTypeOK
<1>1. ASSUME NEW S \in SUBSET Order, NEW g, NEW ch, NEW lettered, NEW cart,
             CreateTx(S, g, ch, lettered, cart)
      PROVE  Shape
  BY <1>1, <1>t DEF CreateTx, productRows
<1>2. ASSUME NEW o \in Order, VerifyMessage(o) \/ ResubmitMessage(o) PROVE Shape
  BY <1>2, <1>t DEF VerifyMessage, CanVerifyMessage, VerifyMessageTx,
     ResubmitMessage, CanResubmitMessage, ResubmitMessageTx, productRows
<1>3. ASSUME NEW o \in Order, NEW n \in Number, SelectRaffleNumberTx(o, n) PROVE Shape
  <2>1. stock' = [p \in Product |-> stock[p] - Units(o)[p]]
    BY <1>3 DEF SelectRaffleNumberTx
  <2>2. stock' = [p \in Product |-> stock'[p]]
    BY <2>1
  <2> QED
    BY <1>3, <1>t, <2>2 DEF SelectRaffleNumberTx
<1>4. ASSUME NEW S \in SUBSET Order, NEW verified \in BOOLEAN, VerifyPaymentTx(S, verified),
             \A x \in S : status[x] = "PAYMENT_PENDING"
      PROVE  Shape
  <2>1. stock' = stock \/ stock' = [p \in Product |-> stock[p] + UnitsOf(S, p)]
    BY <1>4 DEF VerifyPaymentTx
  <2>2. stock' = [p \in Product |-> stock'[p]]
    BY <1>t, <2>1
  <2> QED
    BY <1>4, <2>2 DEF VerifyPaymentTx
<1>5. ASSUME NEW o \in Order, NEW n, DeleteTx(o, n) PROVE Shape
  <2>1. stock' = stock \/ stock' = [p \in Product |-> stock[p] + Units(o)[p]]
    BY <1>5 DEF DeleteTx
  <2>2. stock' = [p \in Product |-> stock'[p]]
    BY <1>t, <2>1
  <2> QED
    BY <1>5, <1>t, <2>2 DEF DeleteTx
<1>6. ASSUME NEW o \in Order, NEW a \in Additions, AddItemTx(o, a) PROVE Shape
  <2>1. stock' = [stock EXCEPT ![a.product] = @ - a.quantity] /\ UNCHANGED status
    BY <1>6 DEF AddItemTx
  <2>2. stock' = [p \in Product |-> stock'[p]]
    BY <1>t, <2>1
  <2> QED
    BY <2>1, <2>2
<1>7. ASSUME NEW o \in Order, UpdateDeliveryStatus(o) PROVE Shape
  BY <1>7, <1>t DEF UpdateDeliveryStatus, CanUpdateDelivery, UpdateDeliveryTx, productRows
<1>8. ASSUME UNCHANGED <<stock, status>> PROVE Shape
  BY <1>8, <1>t
<1>9. ASSUME NEW n \in Number, Draw(n) PROVE Shape
  BY <1>8, <1>9 DEF Draw, DrawTx, orderRows, productRows
<1>10. ASSUME NEW p \in Product, SetProductActive(p) PROVE Shape
  BY <1>8, <1>10 DEF SetProductActive, orderRows
<1>11. ASSUME NEW o \in Order, VerifyPaymentGroup(group[o]) PROVE Shape
  <2>1. GroupRows(group[o]) \in SUBSET Order
    BY DEF TypeOK, RowsTypeOK, GroupRows
  <2> QED
    BY <1>4, <1>11, <2>1 DEF VerifyPaymentGroup, CanVerifyPayment
<1>12. ASSUME NEW o \in Order, VerifyPayment(o) PROVE Shape
  BY <1>4, <1>12 DEF VerifyPayment, CanVerifyPayment
<1>13. ASSUME NEW o \in Order,
             SelectRaffleNumber(o) \/ DeleteOrder(o) \/ AddItem(o) \/ CreatePublicOrder(o)
      PROVE  Shape
  BY <1>1, <1>3, <1>5, <1>6, <1>13
  DEF SelectRaffleNumber, DeleteOrder, AddItem, CreatePublicOrder
<1>14. ASSUME NEW S \in SUBSET Order, CreatePublicOrdersMulti(S) PROVE Shape
  BY <1>1, <1>14 DEF CreatePublicOrdersMulti
<1> HIDE DEF Shape
<1> QED
  BY <1>2, <1>7, <1>9, <1>10, <1>11, <1>12, <1>13, <1>14 DEF Next

\* A number of orders is finite that hold numbers, so resets leave finitely
\* many orphans; and the account of each product follows from the lemmas
\* above, since a reset changes neither stock nor stages.
LEMMA ShelfStep ==
  ASSUME Additions = {}, RaffleInv, ShelfInv, [RaffleNext]_raffleVars
  PROVE  ShelfInv'
<1> USE DEF ShelfInv
<1>1. CASE ServeOrders
  <2>1. Next /\ UNCHANGED orphans
    BY <1>1 DEF ServeOrders, adminVars
  <2>2. Shape
    BY <2>1, ServeShape
  <2>3. \A o \in orphans : o \in Order /\ (Exists(o) <=> status[o] # "DELETED")
    BY DEF RaffleInv, OrdersOK, AdminTypeOK, OrphanStatus, Reserving, Exists, Absent
  <2>4. AllThere' => AllThere
    BY <2>1, <2>2, <2>3 DEF AllThere, Exists, Absent, Shape
  <2>5. \A p \in Product : Settles(p)
    BY <1>1, ServeSettles
  <2>6. TypeOK'
    <3>1. RowInv'
      BY <2>1, NextRows DEF RaffleInv
    <3>2. \A p \in Product : stock'[p] \in Int
      BY <2>5 DEF Settles
    <3>3. stock' \in [Product -> Int]
      BY <2>2, <3>2 DEF Shape
    <3> QED
      BY <3>1, <3>3 DEF RowInv, TypeOK
  <2>7. ASSUME NEW p \in Product
        PROVE  /\ Account(p)' <= InitialStock[p]
               /\ AllThere' => Account(p)' = InitialStock[p]
    <3>1. /\ Account(p) <= InitialStock[p] /\ InitialStock[p] \in Int
          /\ AllThere => Account(p) = InitialStock[p]
      BY StockAssumption
    <3>2. Account(p) \in Int
      BY AccountType
    <3>3. /\ Account(p)' \in Int /\ Account(p)' <= Account(p)
          /\ AllThere' => Account(p)' = Account(p)
      BY <2>5 DEF Settles
    <3> QED
      BY <2>4, <3>1, <3>2, <3>3
  <2> QED
    BY <2>1, <2>6, <2>7
<1>2. ASSUME UNCHANGED <<status, items, stock>>, TypeOK', IsFiniteSet(orphans'),
             orphans \subseteq orphans'
      PROVE  ShelfInv'
  <2>1. ASSUME NEW p \in Product PROVE Account(p)' = Account(p)
    BY <1>2 DEF Account, UnitsOf, Units, SoldSet
  <2>2. AllThere' => AllThere
    BY <1>2 DEF AllThere, Exists
  <2> QED
    BY <1>2, <2>1, <2>2
<1>3. ASSUME UNCHANGED <<vars, orphans>> PROVE ShelfInv'
  <2>1. TypeOK'
    BY <1>3 DEF TypeOK, RowsTypeOK, vars, orderRows, numberRows, productRows
  <2> QED
    BY <1>2, <1>3, <2>1 DEF vars, orderRows, productRows
<1>4. CASE resetAll
  <2>1. /\ orphans' = orphans \cup Holders
        /\ UNCHANGED <<status, items, stock>>
    BY <1>4 DEF resetAll, orderRows, productRows, Holders
  <2>2. IsFiniteSet(orphans')
    BY <2>1, HoldersFinite, FS_Union
  <2>3. TypeOK'
    BY <1>4 DEF TypeOK, RowsTypeOK, resetAll, orderRows, productRows, RoundsAfterReset
  <2> QED
    BY <1>2, <2>1, <2>2, <2>3
<1>5. CASE UNCHANGED raffleVars
  BY <1>3, <1>5 DEF raffleVars, adminVars
<1>6. ASSUME NEW a \in Admin, CountNumbers(a) \/ CreateNumbers(a) \/ ConfigureFails(a)
      PROVE  ShelfInv'
  BY <1>3, <1>6 DEF CountNumbers, CreateNumbers, ConfigureFails
<1>7. CASE ClearRounds \/ ResetFails
  BY <1>3, <1>7 DEF ClearRounds, ResetFails
<1> QED
  BY <1>1, <1>4, <1>5, <1>6, <1>7 DEF RaffleNext

\* At first everything is in stock and nothing is sold.
LEMMA InitShelf == RaffleInit => ShelfInv
<1> SUFFICES ASSUME RaffleInit PROVE ShelfInv
  OBVIOUS
<1>1. TypeOK /\ orphans = {}
  BY InitBooks DEF RaffleInit
<1>2. SoldSet = {}
  BY DEF RaffleInit, Init, SoldSet, Reserving
<1>3. ASSUME NEW p \in Product
      PROVE  Account(p) = InitialStock[p] /\ InitialStock[p] \in Nat
  <2>1. UnitsOf(SoldSet, p) = 0
    BY <1>2, SumEmpty DEF UnitsOf
  <2> QED
    BY <2>1, StockAssumption DEF RaffleInit, Init, Account
<1> QED
  BY <1>1, <1>3, FS_EmptySet DEF ShelfInv

\* A reset of the raffle leaves the books of the stock as they are: what the
\* orders in payment or later took is out of stock, also when their number
\* is gone, unless an order without its number is deleted
\* (raffle-numbers.service.ts, resetAll; orders.service.ts, deleteOrder).
THEOREM StockSurvivesReset ==
  ASSUME Additions = {}
  PROVE  RaffleSpec => []BooksSurviveReset
<1>1. RaffleInv /\ ShelfInv /\ [RaffleNext]_raffleVars => ShelfInv'
  BY ShelfStep
<1>2. ShelfInv => BooksSurviveReset
  BY DEF ShelfInv, BooksSurviveReset, Account, SoldSet, AllThere
<1> QED
  BY <1>1, <1>2, InitShelf, RaffleInvariant, PTL DEF RaffleSpec

-----------------------------------------------------------------------------
(* The codes of new orders (OrderCodes), which depend on nothing else of   *)
(* the orders.                                                             *)

\* The checkouts that were given their codes.
Given == {c \in Checkout : pc[c] = "created"}

\* Until another commits, no code is above the last one a checkout read.
ReadHighest ==
  \A c \in Checkout : pc[c] = "creating" /\ ~raced[c] => \A r \in codes : r.seq <= base[c]

\* A checkout in attempt k lost k - 1 races, or k if it lost one since its
\* last read, each to one of those given a code.
RacesLost ==
  \A c \in Checkout :
    /\ pc[c] = "idle" => attempt[c] = 1
    /\ pc[c] \in {"reading", "creating"} => Cardinality(Given) >= attempt[c] - 1
    /\ pc[c] = "creating" /\ raced[c] => Cardinality(Given) >= attempt[c]
    /\ pc[c] = "rejected" => Cardinality(Given) >= MaxAttempts

CodesInv ==
  /\ CodesTypeOK /\ year \in Nat
  /\ IsFiniteSet(codes) /\ IsFiniteSet(Given)
  /\ ReadHighest /\ RacesLost

\* The last sequence is read as the highest of those in use.
LEMMA LastIsHighest ==
  ASSUME NEW S, S \subseteq Code, IsFiniteSet(S)
  PROVE  /\ LastOrderSequence(S) \in Nat
         /\ \A r \in S : r.seq <= LastOrderSequence(S)
<1> DEFINE T == {0} \cup {r.seq : r \in S}
<1>1. IsFiniteSet(T) /\ T # {} /\ \A y \in T : y \in Nat
  <2>1. IsFiniteSet({r.seq : r \in S})
    <3> DEFINE f == [r \in S |-> r.seq]
    <3>1. {f[r] : r \in S} = {r.seq : r \in S}
      OBVIOUS
    <3> HIDE DEF f
    <3>2. IsFiniteSet({f[r] : r \in S})
      BY ImageFinite
    <3> QED BY <3>1, <3>2
  <2>2. IsFiniteSet({0} \cup {r.seq : r \in S})
    BY <2>1, FS_Singleton, FS_Union
  <2> QED BY <2>2 DEF Code
<1>2. LastOrderSequence(S) = CHOOSE x \in T : \A y \in T : x >= y
  BY DEF LastOrderSequence, Max
<1>3. \A r \in S : r.seq \in T
  OBVIOUS
<1> HIDE DEF T
<1>4. \E x \in T : \A y \in T : x >= y
  BY <1>1, LargestExists
<1> QED BY <1>1, <1>2, <1>3, <1>4

\* The codes that a checkout asks for are finitely many, and above the last
\* one it read.
LEMMA WantedCodes ==
  ASSUME CodesInv, NEW c \in Checkout
  PROVE  /\ IsFiniteSet(Wanted(c)) /\ Wanted(c) \subseteq Code
         /\ \A r \in Wanted(c) : r.seq > base[c]
<1> DEFINE I == (base[c] + 1)..(base[c] + size[c])
           f == [s \in I |-> [year |-> year, seq |-> s]]
<1>1. base[c] \in Nat /\ size[c] \in Nat /\ year \in Nat
  BY SizesAssumption DEF CodesInv, CodesTypeOK
<1>2. IsFiniteSet(I)
  BY <1>1, FS_Interval
<1>3. Wanted(c) = {f[s] : s \in I}
  <2>1. \A r : r \in Wanted(c) => \E s \in I : r = f[s]
    BY DEF Wanted
  <2>2. \A s \in I : f[s] \in Wanted(c)
    BY DEF Wanted
  <2> HIDE DEF f
  <2> QED BY <2>1, <2>2
<1>4. \A s \in I : s \in Nat /\ s > base[c]
  BY <1>1
<1>5. \A s \in I : f[s] \in Code /\ f[s].seq > base[c]
  BY <1>1, <1>4 DEF Code
<1> HIDE DEF I, f
<1>6. IsFiniteSet({f[s] : s \in I})
  BY <1>2, ImageFinite
<1> QED BY <1>3, <1>5, <1>6

\* The checkouts answered are counted by a natural number.
LEMMA GivenCounted == ASSUME IsFiniteSet(Given) PROVE Cardinality(Given) \in Nat
BY FS_CardinalityType

\* No checkout has read or raced at first.
LEMMA InitCodes == CodesInit => CodesInv
<1> SUFFICES ASSUME CodesInit PROVE CodesInv
  OBVIOUS
<1>1. Given = {} /\ IsFiniteSet({}) /\ Cardinality({}) = 0
  BY FS_EmptySet DEF CodesInit, Given
<1>2. CodesTypeOK
  BY AttemptsAssumption, YearAssumption DEF CodesInit, CodesTypeOK
<1>3. IsFiniteSet(codes) /\ ReadHighest
  BY <1>1 DEF CodesInit, ReadHighest
<1>4. RacesLost
  BY <1>1 DEF CodesInit, RacesLost
<1>5. year \in Nat /\ IsFiniteSet(Given)
  BY <1>1 DEF CodesInit
<1> QED BY <1>2, <1>3, <1>4, <1>5 DEF CodesInv

\* A checkout that reads the last sequence is raced by nobody yet.
LEMMA ReadCodes ==
  ASSUME CodesInv, NEW c \in Checkout, getLastOrderSequence(c)
  PROVE  CodesInv'
<1> USE DEF getLastOrderSequence
<1>1. LastOrderSequence(codes) \in Nat /\ \A r \in codes : r.seq <= LastOrderSequence(codes)
  BY LastIsHighest DEF CodesInv, CodesTypeOK
<1>2. CodesTypeOK'
  BY <1>1 DEF CodesInv, CodesTypeOK
<1>3. Given' = Given
  BY DEF CodesInv, CodesTypeOK, Given
<1>4. ReadHighest'
  BY <1>1 DEF CodesInv, CodesTypeOK, ReadHighest
<1>5. RacesLost'
  BY <1>3 DEF CodesInv, CodesTypeOK, RacesLost
<1> QED BY <1>2, <1>3, <1>4, <1>5 DEF CodesInv

\* A checkout that commits races every other one, and is answered.
LEMMA CreateCodes ==
  ASSUME CodesInv, NEW c \in Checkout, Create(c)
  PROVE  CodesInv'
<1> USE DEF Create
<1>1. IsFiniteSet(Wanted(c)) /\ Wanted(c) \subseteq Code
  BY WantedCodes DEF CodesInv
<1>2. CodesTypeOK'
  BY <1>1 DEF CodesInv, CodesTypeOK
<1>3. IsFiniteSet(codes')
  BY <1>1, FS_Union DEF CodesInv
<1>4. Given' = Given \cup {c} /\ c \notin Given
  BY DEF CodesInv, CodesTypeOK, Given
<1>5. /\ IsFiniteSet(Given') /\ Cardinality(Given') = Cardinality(Given) + 1
      /\ Cardinality(Given) \in Nat
  BY <1>4, GivenCounted, FS_AddElement DEF CodesInv
<1>6. ReadHighest'
  BY DEF CodesInv, CodesTypeOK, ReadHighest
<1>7. RacesLost'
  <2> SUFFICES ASSUME NEW d \in Checkout
               PROVE  /\ pc'[d] = "idle" => attempt'[d] = 1
                      /\ pc'[d] \in {"reading", "creating"} => Cardinality(Given') >= attempt'[d] - 1
                      /\ pc'[d] = "creating" /\ raced'[d] => Cardinality(Given') >= attempt'[d]
                      /\ pc'[d] = "rejected" => Cardinality(Given') >= MaxAttempts
    BY DEF RacesLost
  <2>1. attempt'[d] = attempt[d] /\ attempt[d] \in Nat /\ pc'[d] = IF d = c THEN "created" ELSE pc[d]
    BY DEF CodesInv, CodesTypeOK
  <2>2. /\ pc[d] = "idle" => attempt[d] = 1
        /\ pc[d] \in {"reading", "creating"} => Cardinality(Given) >= attempt[d] - 1
        /\ pc[d] = "rejected" => Cardinality(Given) >= MaxAttempts
    BY DEF CodesInv, RacesLost
  <2> QED BY <1>5, <2>1, <2>2, AttemptsAssumption
<1> QED BY <1>2, <1>3, <1>5, <1>6, <1>7 DEF CodesInv

\* A refused checkout lost a race since it read: it is in another attempt,
\* or it has lost as many as it may.
LEMMA CollideCodes ==
  ASSUME CodesInv, NEW c \in Checkout, Collide(c)
  PROVE  CodesInv'
<1> USE DEF Collide
<1>1. raced[c]
  <2>1. PICK r \in codes : r \in Wanted(c)
    OBVIOUS
  <2>2. r.seq > base[c] /\ r.seq \in Nat /\ base[c] \in Nat
    BY <2>1, WantedCodes DEF CodesInv, CodesTypeOK, Code
  <2>3. ~(r.seq <= base[c])
    BY <2>2
  <2> QED BY <2>1, <2>3 DEF CodesInv, ReadHighest, CodesTypeOK
<1>2. Cardinality(Given) \in Nat /\ Cardinality(Given) >= attempt[c] /\ attempt[c] \in 1..MaxAttempts
  BY <1>1, GivenCounted DEF CodesInv, RacesLost, CodesTypeOK
<1>3. Given' = Given
  BY DEF CodesInv, CodesTypeOK, Given
<1>4. CodesTypeOK'
  BY <1>2, AttemptsAssumption DEF CodesInv, CodesTypeOK
<1>5. ReadHighest'
  BY DEF CodesInv, CodesTypeOK, ReadHighest
<1>6. RacesLost'
  <2> SUFFICES ASSUME NEW d \in Checkout
               PROVE  /\ pc'[d] = "idle" => attempt'[d] = 1
                      /\ pc'[d] \in {"reading", "creating"} => Cardinality(Given) >= attempt'[d] - 1
                      /\ pc'[d] = "creating" /\ raced'[d] => Cardinality(Given) >= attempt'[d]
                      /\ pc'[d] = "rejected" => Cardinality(Given) >= MaxAttempts
    BY <1>3 DEF RacesLost
  <2>1. CASE d = c
    BY <1>2, <2>1, AttemptsAssumption DEF CodesInv, CodesTypeOK
  <2>2. CASE d # c
    BY <2>2 DEF CodesInv, CodesTypeOK, RacesLost
  <2> QED BY <2>1, <2>2
<1> QED BY <1>3, <1>4, <1>5, <1>6 DEF CodesInv

\* The other steps read nothing, give no code and lose no race.
LEMMA OtherCodes ==
  ASSUME CodesInv,
         \/ \E c \in Checkout : BeginCheckout(c) \/ OtherError(c)
         \/ \E r \in codes : ReleaseCode(r)
         \/ NewYear
         \/ UNCHANGED codesVars
  PROVE  CodesInv'
<1>1. ASSUME NEW c \in Checkout, BeginCheckout(c) PROVE CodesInv'
  <2>1. CodesTypeOK' /\ Given' = Given
    BY <1>1 DEF CodesInv, CodesTypeOK, BeginCheckout, Given
  <2>2. ReadHighest'
    BY <1>1 DEF CodesInv, CodesTypeOK, BeginCheckout, ReadHighest
  <2>3. RacesLost'
    <3>1. Cardinality(Given) \in Nat
      BY GivenCounted DEF CodesInv
    <3> QED BY <1>1, <2>1, <3>1 DEF CodesInv, CodesTypeOK, BeginCheckout, RacesLost
  <2> QED BY <1>1, <2>1, <2>2, <2>3 DEF CodesInv, BeginCheckout
<1>2. ASSUME NEW c \in Checkout, OtherError(c) PROVE CodesInv'
  <2>1. CodesTypeOK' /\ Given' = Given
    BY <1>2 DEF CodesInv, CodesTypeOK, OtherError, Given
  <2>2. ReadHighest'
    BY <1>2 DEF CodesInv, CodesTypeOK, OtherError, ReadHighest
  <2>3. RacesLost'
    BY <1>2, <2>1 DEF CodesInv, CodesTypeOK, OtherError, RacesLost
  <2> QED BY <1>2, <2>1, <2>2, <2>3 DEF CodesInv, OtherError
<1>3. ASSUME NEW r \in codes, ReleaseCode(r) PROVE CodesInv'
  <2>1. CodesTypeOK' /\ Given' = Given
    BY <1>3 DEF CodesInv, CodesTypeOK, ReleaseCode, checkoutVars, Given
  <2>2. IsFiniteSet(codes')
    BY <1>3, FS_Subset DEF CodesInv, ReleaseCode
  <2>3. ReadHighest' /\ RacesLost'
    BY <1>3, <2>1 DEF CodesInv, ReleaseCode, checkoutVars, ReadHighest, RacesLost
  <2>4. year' = year
    BY <1>3 DEF ReleaseCode
  <2> QED BY <2>1, <2>2, <2>3, <2>4 DEF CodesInv
<1>4. ASSUME NewYear PROVE CodesInv'
  <2>1. CodesTypeOK' /\ Given' = Given
    BY <1>4, YearAssumption DEF CodesInv, CodesTypeOK, NewYear, checkoutVars, Given
  <2> QED BY <1>4, <2>1 DEF CodesInv, NewYear, checkoutVars, ReadHighest, RacesLost
<1>5. ASSUME UNCHANGED codesVars PROVE CodesInv'
  <2>1. CodesTypeOK' /\ Given' = Given
    BY <1>5 DEF CodesInv, CodesTypeOK, codesVars, checkoutVars, Given
  <2> QED BY <1>5, <2>1 DEF CodesInv, codesVars, checkoutVars, ReadHighest, RacesLost
<1> QED BY <1>1, <1>2, <1>3, <1>4, <1>5

\* The invariant of the retry loop holds whatever the checkouts overlap with.
THEOREM CodesInvariant == CodesSpec => []CodesInv
<1>1. CodesInit => CodesInv
  BY InitCodes
<1>2. CodesInv /\ [CodesNext]_(codesVars) => CodesInv'
  BY ReadCodes, CreateCodes, CollideCodes, OtherCodes DEF CodesNext
<1> QED BY <1>1, <1>2, PTL DEF CodesSpec

\* A code is refused only to a checkout that another one overtook, however
\* many orders are deleted and whatever year it is.
THEOREM RefusedOnlyByRaces == CodesSpec => []CollisionsAreRaces
<1>1. CodesInv => CollisionsAreRaces
  <2> SUFFICES ASSUME CodesInv, NEW c \in Checkout, pc[c] = "creating",
                      NEW r \in codes, r \in Wanted(c)
               PROVE  raced[c]
    BY DEF CollisionsAreRaces
  <2>1. r.seq > base[c] /\ r.seq \in Nat /\ base[c] \in Nat
    BY WantedCodes DEF CodesInv, CodesTypeOK, Code
  <2>2. ~(r.seq <= base[c])
    BY <2>1
  <2> QED BY <2>2 DEF CodesInv, ReadHighest, CodesTypeOK
<1> QED BY <1>1, CodesInvariant, PTL

\* A checkout is rejected only after as many others were answered as it had
\* attempts: a different one won each of its races.
THEOREM RejectedOnlyAfterRaces == CodesSpec => []RejectedAfterRaces
<1>1. CodesInv => RejectedAfterRaces
  <2>1. {d \in Checkout : pc[d] = "created"} = Given
    BY DEF Given
  <2>2. CodesInv => \A c \in Checkout : pc[c] = "rejected" => Cardinality(Given) >= MaxAttempts
    BY DEF CodesInv, RacesLost
  <2>3. RejectedAfterRaces <=>
          \A c \in Checkout : pc[c] = "rejected" => Cardinality({d \in Checkout : pc[d] = "created"}) >= MaxAttempts
    BY Zenon DEF RejectedAfterRaces
  <2> QED BY <2>1, <2>2, <2>3, Zenon
<1> QED BY <1>1, CodesInvariant, PTL
=============================================================================
