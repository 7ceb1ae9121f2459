------------------------------- MODULE Catalogue -------------------------------
(***************************************************************************)
(* The catalogue the administrator edits while orders are sold from it:    *)
(* products with their stock, groups of add-on options, options that are   *)
(* themselves a product (linkedProductId), and one order line at each      *)
(* stage that touches them.                                                *)
(*                                                                         *)
(* A new row reads the last position and is written later.  An edit writes *)
(* the stock that its form holds, read when the form was opened.  isActive *)
(* and the links of a product to its groups, which an administrator can    *)
(* switch at any moment, only decide whether an order can be placed or     *)
(* sold: here either may be the case.                                      *)
(***************************************************************************)
EXTENDS Integers, FiniteSets, FiniteSetsExt, Functions

CONSTANTS
  Product, Group, Option,  \* ids of the rows
  GroupOf,      \* addon_options.groupId
  NoProduct,    \* addon_options.linkedProductId IS NULL
  NoOption,     \* order_items.selectedAddOnOptionId IS NULL
  Order,        \* ids of the orders, of one item each
  NoLine,       \* the order has no row
  Request,      \* requests of administrators at the same time
  Idle,         \* a slot with no request
  FirstStock,   \* stock of a new product
  MaxStock,     \* bound: units of a product on a form that is saved
  MaxPosition   \* bound: the last position of a list

Entry == Product \cup Group \cup Option

\* A line of an order, and what was sold along with it.
Line == [product : Product, option : Option \cup {NoOption},
         stage : {"placed", "sold", "rejected"}, along : Product \cup {NoProduct}]

\* A row that is going to be created; a form with the stock it shows.
Call == [op : {"create"}, entry : Entry, position : Nat \ {0}]
          \cup [op : {"update"}, entry : Product, stock : Int]

ASSUME RowsAssumption ==
  /\ GroupOf \in [Option -> Group]
  /\ Product \cap Group = {} /\ Product \cap Option = {} /\ Group \cap Option = {}
  /\ NoProduct \notin Product /\ NoOption \notin Option
  /\ NoLine \notin Line /\ Idle \notin Call
ASSUME StockAssumption == {FirstStock, MaxStock, MaxPosition} \subseteq Nat

VARIABLES
  position,  \* position of each row, 0 when there is none
  stock,     \* products.stock
  linked,    \* addon_options.linkedProductId
  orders,    \* the line of each order
  req,       \* the call each slot works on, or Idle
  supplied,  \* units of each product the administrator meant to put on sale,
             \* followed where LedgerHolds reads it, with apart
  apart      \* whether conflicting requests never overlap in this behaviour
             \* (the code lets them)

rows == <<position, stock, linked, orders, supplied>>
catalogueVars == <<rows, req, apart>>

CatalogueTypeOK ==
  /\ position \in [Entry -> Nat]
  /\ stock \in [Product -> Int] /\ supplied \in [Product -> Int]
  /\ linked \in [Option -> Product \cup {NoProduct}]
  /\ orders \in [Order -> Line \cup {NoLine}]
  /\ req \in [Request -> Call \cup {Idle}]
  /\ apart \in BOOLEAN

CatalogueInit ==
  /\ position = [e \in Entry |-> 0]
  /\ stock = [p \in Product |-> 0] /\ supplied = stock
  /\ linked = [a \in Option |-> NoProduct]
  /\ orders = [o \in Order |-> NoLine]
  /\ req = [r \in Request |-> Idle]
  /\ apart \in BOOLEAN

-----------------------------------------------------------------------------
Exists(e) == position[e] # 0
End(r) == req' = [req EXCEPT ![r] = Idle]
Working(op, S) == \E r \in Request : req[r] # Idle /\ req[r].op = op /\ req[r].entry \in S

(* New rows: products, groups, and options within their group.             *)

Siblings(e) ==
  IF e \in Product THEN Product
  ELSE IF e \in Group THEN Group
  ELSE {a \in Option : GroupOf[a] = GroupOf[e]}

CountOfRows(e) == Cardinality({s \in Siblings(e) : Exists(s)})   \* mutant
LastPosition(e) == Max({position[s] : s \in Siblings(e)})

ReadLast(r, e) ==
  /\ req[r] = Idle
  /\ ~Exists(e) /\ ~Working("create", {e})   \* ids are new
  /\ e \in Option => Exists(GroupOf[e])
  /\ apart => ~Working("create", Siblings(e))
  /\ LastPosition(e) < MaxPosition   \* bound
  /\ req' = [req EXCEPT ![r] =
       [op |-> "create", entry |-> e, position |-> LastPosition(e) + 1]]
  /\ UNCHANGED <<rows, apart>>

\* The option's foreign keys; the product to link was looked up before.
Create(r) ==
  LET e == req[r].entry IN
  /\ req[r] # Idle /\ req[r].op = "create"
  /\ e \in Option => Exists(GroupOf[e])
  /\ position' = [position EXCEPT ![e] = req[r].position]
  /\ IF e \in Product
       THEN /\ stock' = [stock EXCEPT ![e] = FirstStock]
            /\ supplied' = IF apart THEN [supplied EXCEPT ![e] = FirstStock] ELSE supplied
       ELSE UNCHANGED <<stock, supplied>>
  /\ IF e \in Option
       THEN \E p \in {NoProduct} \cup {q \in Product : Exists(q)} :
              linked' = [linked EXCEPT ![e] = p]
       ELSE UNCHANGED linked
  /\ End(r)
  /\ UNCHANGED <<orders, apart>>

Fail(r) == req[r] # Idle /\ End(r) /\ UNCHANGED <<rows, apart>>

(* The stock of a product, through a form.                                 *)

OpenForm(r, p) ==
  /\ req[r] = Idle /\ Exists(p)
  /\ apart => ~Working("update", {p})
  /\ req' = [req EXCEPT ![r] = [op |-> "update", entry |-> p, stock |-> stock[p]]]
  /\ UNCHANGED <<rows, apart>>

\* d is what the administrator adds to the figure on the form.
UpdateStock(r) ==
  /\ req[r] # Idle /\ req[r].op = "update"
  /\ Exists(req[r].entry)
  /\ \E d \in {0, 1} :
       /\ req[r].stock + d <= MaxStock   \* bound
       /\ stock' = [stock EXCEPT ![req[r].entry] = req[r].stock + d]
       /\ supplied' = IF apart THEN [supplied EXCEPT ![req[r].entry] = @ + d] ELSE supplied
  /\ End(r)
  /\ UNCHANGED <<position, linked, orders, apart>>

(* The product of an option.                                               *)

Sold(o) == orders[o] # NoLine /\ orders[o].stage = "sold"

UpdateLinkedProduct(a, p) ==
  /\ Exists(a) /\ (p # NoProduct => Exists(p))
  /\ apart => \A o \in Order : Sold(o) => orders[o].option # a
  /\ linked' = [linked EXCEPT ![a] = p]
  /\ UNCHANGED <<position, stock, orders, req, supplied, apart>>

(* An order over the catalogue: placed, its stock taken, its stock returned. *)

PlaceOrder(o) ==
  /\ orders[o] = NoLine
  /\ \E p \in Product, a \in Option \cup {NoOption} :
       /\ Exists(p) /\ (a # NoOption => Exists(a))
       /\ orders' = [orders EXCEPT ![o] =
            [product |-> p, option |-> a, stage |-> "placed", along |-> NoProduct]]
  /\ UNCHANGED <<position, stock, linked, req, supplied, apart>>

LinkedTo(a) == IF a = NoOption THEN NoProduct ELSE linked[a]
Units(p, along, q) == (IF p = q THEN 1 ELSE 0) + (IF along = q THEN 1 ELSE 0)

\* Neither a sale nor a return falls between a form and its save.
Unedited(S) == apart => ~Working("update", S)

\* The transaction of selectRaffleNumber, as far as the catalogue is concerned.
SellLine(o) ==
  LET p == orders[o].product  along == LinkedTo(orders[o].option) IN
  /\ orders[o] # NoLine /\ orders[o].stage = "placed"
  /\ Unedited({p, along})
  /\ \A q \in Product : Units(p, along, q) > 0 =>
       stock[q] >= Units(p, along, q)
  /\ stock' = [q \in Product |-> stock[q] - Units(p, along, q)]
  /\ orders' = [orders EXCEPT ![o].stage = "sold", ![o].along = along]
  /\ UNCHANGED <<position, linked, req, supplied, apart>>

OnlyMain(p, along, q) == IF p = q THEN 1 ELSE 0   \* mutant
Returned(p, along, q) == Units(p, along, q)

\* applyPaymentVerificationTx, rejected: to the product the option is linked
\* to by now.
ReturnLine(o) ==
  LET p == orders[o].product  along == LinkedTo(orders[o].option) IN
  /\ Sold(o)
  /\ Unedited({p, along})
  /\ stock' = [q \in Product |-> stock[q] + Returned(p, along, q)]
  /\ orders' = [orders EXCEPT ![o].stage = "rejected", ![o].along = NoProduct]
  /\ UNCHANGED <<position, linked, req, supplied, apart>>

CatalogueNext ==
  \/ \E r \in Request :
       \/ \E e \in Entry : ReadLast(r, e)
       \/ Create(r) \/ Fail(r) \/ UpdateStock(r)
       \/ \E p \in Product : OpenForm(r, p)
  \/ \E a \in Option, p \in Product \cup {NoProduct} : UpdateLinkedProduct(a, p)
  \/ \E o \in Order : PlaceOrder(o) \/ SellLine(o) \/ ReturnLine(o)

-----------------------------------------------------------------------------
\* The catalogue has one order: no two rows of a list have the same position
\* (nothing but the reading of the last one sees to it), unless two of the
\* same list are created at once: both read the same last position and the code
\* gives it to both.  Deletions in between do not matter.
PositionsDistinct ==
  apart => \A e \in Entry : \A s \in Siblings(e) \ {e} :
    Exists(e) => position[s] # position[e]

\* The units of p that the orders of S took.
SoldIn(S, p) ==
  SumFunctionOnSet([o \in S |-> Units(orders[o].product, orders[o].along, p)], S)

\* The books of a product balance: what is in stock and what is sold adds up
\* to what the administrator put on sale, also with units sold along with a
\* combo.  Three overlaps break the books in the code, and apart keeps them out:
\* a sale or a return between the opening of a form and its save, which the save
\* overwrites; two forms open on one product, of which the last save undoes what
\* the first one added; and an option linked to another product between the sale
\* and the return.
LedgerHolds ==
  apart => \A p \in Product :
    stock[p] + SoldIn({o \in Order : Sold(o)}, p) = supplied[p]
=============================================================================
