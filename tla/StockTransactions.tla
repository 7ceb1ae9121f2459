--------------------------- MODULE StockTransactions ---------------------------
(***************************************************************************)
(* The statements inside two transactions of the order service, as         *)
(* PostgreSQL runs them at its default level, READ COMMITTED: the one of   *)
(* selectRaffleNumber, which takes the stock of a cart line by line and    *)
(* then claims a raffle number, and the one of a rejected payment, which   *)
(* gives both back.  A read sees what is committed and what its own        *)
(* transaction wrote; a write locks its row until the transaction ends; a  *)
(* transaction that cannot go on leaves nothing behind.  Each order runs   *)
(* its own transactions: two on the same order are in OrderRequests.       *)
(***************************************************************************)
EXTENDS Integers, Sequences, FiniteSets, Functions

CONSTANTS
  Order,         \* the orders; each runs one transaction at a time
  Number,        \* rows of raffle_numbers
  Product,       \* rows of products
  Nobody,        \* no order: a free row, or orderId IS NULL
  Carts,         \* what each order takes: its items in order, each followed
                 \* by the product linked to its add-on, if it has one
  InitialStock,  \* stock of each product before any sale
  OpenLimit      \* connections of the pool, one per open transaction

ASSUME NobodyAssumption == Nobody \notin Order
ASSUME CartsAssumption ==
  \A o \in Order : Carts[o] \in Seq([product : Product, quantity : Nat \ {0}]) \ {<<>>}
ASSUME StockAssumption == InitialStock \in [Product -> Nat]
ASSUME LimitAssumption == OpenLimit \in Nat \ {0}

Taking == {"checking", "decrementing", "claiming", "opening"}
Giving == {"freeing", "incrementing", "closing"}

VARIABLES
  stock,    \* products.stock, committed
  holder,   \* raffle_numbers.orderId, committed
  phase,    \* the statement each order is at, or where it rests
  line,     \* the line of its cart it is at
  delta,    \* what its open transaction added to each product
  number,   \* the raffle number the buyer chose
  rowLock,  \* the order whose transaction wrote each product row
  numLock,  \* the same for each row of raffle_numbers
  apart     \* whether no two takes of a common product are open at once in
            \* this behaviour (the code lets them)

locks == <<rowLock, numLock>>
vars == <<stock, holder, phase, line, delta, number, locks, apart>>

TypeOK ==
  /\ stock \in [Product -> Int]
  /\ holder \in [Number -> Order \cup {Nobody}]
  /\ phase \in [Order -> {"idle", "holding", "released"} \cup Taking \cup Giving]
  /\ \A o \in Order : line[o] \in DOMAIN Carts[o]
  /\ delta \in [Order -> [Product -> Int]]
  /\ number \in [Order -> Number]
  /\ rowLock \in [Product -> Order \cup {Nobody}]
  /\ numLock \in [Number -> Order \cup {Nobody}]
  /\ apart \in BOOLEAN

NoChange == [p \in Product |-> 0]

Init ==
  /\ stock = InitialStock
  /\ holder = [n \in Number |-> Nobody]
  /\ phase = [o \in Order |-> "idle"]
  /\ line = [o \in Order |-> 1]
  /\ delta = [o \in Order |-> NoChange]
  /\ number \in [Order -> Number]
  /\ rowLock = [p \in Product |-> Nobody]
  /\ numLock = [n \in Number |-> Nobody]
  /\ apart \in BOOLEAN

-----------------------------------------------------------------------------
Open(o) == phase[o] \in Taking \cup Giving
Item(o) == Carts[o][line[o]]
Last(o) == line[o] = Len(Carts[o])

\* What a statement of o reads: the committed value and its own writes.
Visible(o, p) == stock[p] + delta[o][p]
Lockable(o, p) == rowLock[p] \in {Nobody, o}

EndTransaction(o) ==
  /\ delta' = [delta EXCEPT ![o] = NoChange]
  /\ line' = [line EXCEPT ![o] = 1]
  /\ rowLock' = [p \in Product |-> IF rowLock[p] = o THEN Nobody ELSE rowLock[p]]
  /\ numLock' = [n \in Number |-> IF numLock[n] = o THEN Nobody ELSE numLock[n]]

Kept(o) == [p \in Product |-> stock[p] + delta[o][p]]   \* mutant
Undone(o) == stock
Rollback(o) ==
  /\ EndTransaction(o)
  /\ stock' = Undone(o)
  /\ phase' = [phase EXCEPT ![o] = IF @ \in Taking THEN "idle" ELSE "holding"]
  /\ UNCHANGED <<holder, number, apart>>

\* The row of the line's product is written: locked, and changed by k units.
WriteStock(o, k) ==
  /\ Lockable(o, Item(o).product)
  /\ rowLock' = [rowLock EXCEPT ![Item(o).product] = o]
  /\ delta' = [delta EXCEPT ![o][Item(o).product] = @ + k]

\* The loop goes on with statement s of the next line, or ends in phase e.
NextLine(o, s, e) ==
  /\ phase' = [phase EXCEPT ![o] = IF Last(o) THEN e ELSE s]
  /\ line' = [line EXCEPT ![o] = IF Last(o) THEN 1 ELSE @ + 1]

CanOpen == Cardinality({o \in Order : Open(o)}) < OpenLimit

-----------------------------------------------------------------------------
(* selectRaffleNumber.                                                     *)

ProductsOf(o) == {Carts[o][i].product : i \in DOMAIN Carts[o]}

BeginTake(o) ==
  /\ phase[o] = "idle"
  /\ apart => \A q \in Order : phase[q] \in Taking => ProductsOf(q) \cap ProductsOf(o) = {}
  /\ CanOpen
  /\ phase' = [phase EXCEPT ![o] = "checking"]
  /\ \E n \in Number : number' = [number EXCEPT ![o] = n]
  /\ UNCHANGED <<stock, holder, line, delta, locks, apart>>

\* decrementProductStock, its read and its test.
AnyStock(o) == Visible(o, Item(o).product) >= 0   \* mutant
EnoughStock(o) == Visible(o, Item(o).product) >= Item(o).quantity

CheckStock(o) ==
  /\ phase[o] = "checking"
  /\ EnoughStock(o)
  /\ phase' = [phase EXCEPT ![o] = "decrementing"]
  /\ UNCHANGED <<stock, holder, line, delta, number, locks, apart>>
RefuseStock(o) ==
  /\ phase[o] = "checking"
  /\ ~EnoughStock(o)
  /\ Rollback(o)

\* decrementProductStock, its write.
DecrementStock(o) ==
  /\ phase[o] = "decrementing"
  /\ WriteStock(o, -Item(o).quantity)
  /\ NextLine(o, "checking", "claiming")
  /\ UNCHANGED <<stock, holder, number, numLock, apart>>

\* updateMany ... WHERE status = AVAILABLE, which waits for the row and then
\* looks at what was committed.
Claimed(n) == TRUE   \* mutant
Available(n) == holder[n] = Nobody

ClaimNumber(o) ==
  /\ phase[o] = "claiming"
  /\ numLock[number[o]] = Nobody
  /\ Available(number[o])
  /\ numLock' = [numLock EXCEPT ![number[o]] = o]
  /\ phase' = [phase EXCEPT ![o] = "opening"]
  /\ UNCHANGED <<stock, holder, line, delta, number, rowLock, apart>>
LoseNumber(o) ==
  /\ phase[o] = "claiming"
  /\ numLock[number[o]] = Nobody
  /\ ~Available(number[o])
  /\ Rollback(o)

\* The payment is opened, the order updated, and the transaction committed.
CommitTake(o) ==
  /\ phase[o] = "opening"
  /\ EndTransaction(o)
  /\ stock' = [p \in Product |-> Visible(o, p)]
  /\ holder' = [holder EXCEPT ![number[o]] = o]
  /\ phase' = [phase EXCEPT ![o] = "holding"]
  /\ UNCHANGED <<number, apart>>

(* A rejected payment.                                                     *)

BeginGive(o) ==
  /\ phase[o] = "holding"
  /\ CanOpen
  /\ phase' = [phase EXCEPT ![o] = "freeing"]
  /\ UNCHANGED <<stock, holder, line, delta, number, locks, apart>>

FreeNumber(o) ==
  /\ phase[o] = "freeing"
  /\ numLock[number[o]] = Nobody
  /\ numLock' = [numLock EXCEPT ![number[o]] = o]
  /\ phase' = [phase EXCEPT ![o] = "incrementing"]
  /\ UNCHANGED <<stock, holder, line, delta, number, rowLock, apart>>

IncrementStock(o) ==
  /\ phase[o] = "incrementing"
  /\ WriteStock(o, Item(o).quantity)
  /\ NextLine(o, "incrementing", "closing")
  /\ UNCHANGED <<stock, holder, number, numLock, apart>>

CommitGive(o) ==
  /\ phase[o] = "closing"
  /\ EndTransaction(o)
  /\ stock' = [p \in Product |-> Visible(o, p)]
  /\ holder' = [holder EXCEPT ![number[o]] = Nobody]
  /\ phase' = [phase EXCEPT ![o] = "released"]
  /\ UNCHANGED <<number, apart>>

(* The database.                                                           *)

\* o waits for a row that d has written.
WaitsFor(o, d) ==
  /\ d # o
  /\ \/ phase[o] \in {"decrementing", "incrementing"} /\ rowLock[Item(o).product] = d
     \/ phase[o] \in {"claiming", "freeing"} /\ numLock[number[o]] = d

\* Transactions of which each waits for another one of them.
Deadlocked(S) == S # {} /\ \A o \in S : \E d \in S : WaitsFor(o, d)

\* One transaction of a deadlock is cancelled.
Undetected(o) == FALSE   \* mutant
InDeadlock(o) == \E S \in SUBSET Order : o \in S /\ Deadlocked(S)
CancelDeadlock(o) == InDeadlock(o) /\ Rollback(o)

\* The connection or the server is lost, or the transaction takes too long.
Abort(o) == Open(o) /\ Rollback(o)

-----------------------------------------------------------------------------
Next ==
  \E o \in Order :
    \/ BeginTake(o) \/ CheckStock(o) \/ RefuseStock(o) \/ DecrementStock(o)
    \/ ClaimNumber(o) \/ LoseNumber(o) \/ CommitTake(o)
    \/ BeginGive(o) \/ FreeNumber(o) \/ IncrementStock(o) \/ CommitGive(o)
    \/ CancelDeadlock(o) \/ Abort(o)

\* The server sends the next statement, the database runs it, grants a row
\* to those that wait for it in turn, and breaks deadlocks.
Fairness ==
  \A o \in Order :
    /\ WF_vars(CheckStock(o) \/ RefuseStock(o) \/ CommitTake(o) \/ CommitGive(o))
    /\ SF_vars(DecrementStock(o) \/ IncrementStock(o))
    /\ SF_vars(ClaimNumber(o) \/ LoseNumber(o) \/ FreeNumber(o))
    /\ WF_vars(CancelDeadlock(o))

Spec == Init /\ [][Next]_vars
FairSpec == Spec /\ Fairness

-----------------------------------------------------------------------------
\* The orders whose units are out of the stock.
Charged == {o \in Order : phase[o] = "holding" \/ phase[o] \in Giving}
UnitsIn(o, p) ==
  LET lines == {i \in DOMAIN Carts[o] : Carts[o][i].product = p}
  IN  SumFunctionOnSet([i \in DOMAIN Carts[o] |-> Carts[o][i].quantity], lines)

\* No decrement is lost and no half of a transaction stays: what is committed
\* and what the orders that own a number took add up to the initial stock.
StockConserved ==
  \A p \in Product :
    stock[p] + SumFunctionOnSet([o \in Order |-> UnitsIn(o, p)], Charged) = InitialStock[p]

\* A raffle number belongs to the order that committed it, and to no other,
\* until that order gives it back.
NumberOwned == \A o \in Charged : holder[number[o]] = o

\* Stock that is not there is never sold (SDD_Paloma_Mensajera.md:37;
\* decrementProductStock), whatever is given back, aborted or retried in the
\* meantime, unless two takes of the same product overlap: both can read the
\* last unit.
NoOversell == apart => \A p \in Product : stock[p] >= 0

\* Every transaction that is opened ends, although carts in opposite orders,
\* or a number given back while another buyer wants it, make transactions
\* wait for each other.
Ended == \A o \in Order : Open(o) ~> ~Open(o)
=============================================================================
