---------------------------- MODULE CatalogueProofs ----------------------------
(***************************************************************************)
(* The catalogue and its reset, for any rows, orders and requests.  In a   *)
(* behaviour in which conflicting requests never overlap, what a request   *)
(* read before it writes is still so: the last position of a list, the     *)
(* stock on a form, and everything the statements of a reset have deleted. *)
(***************************************************************************)
EXTENDS AdminReset, SumProofs

Creating(r) == req[r] # Idle /\ req[r].op = "create"
Updating(r) == req[r] # Idle /\ req[r].op = "update"

\* A row that is going to be created is new, goes behind its list, and is the
\* only one of it.
ListsOK ==
  /\ \A r \in Request : Creating(r) =>
       /\ ~Exists(req[r].entry)
       /\ \A s \in Siblings(req[r].entry) : position[s] < req[r].position
  /\ \A r, q \in Request :
       r # q /\ Creating(r) /\ Creating(q) => req[q].entry \notin Siblings(req[r].entry)

\* What a row refers to has a row, and what a sold line took along is what its
\* option is linked to.
ReferencesOK ==
  /\ \A a \in Option : linked[a] # NoProduct => Exists(linked[a])
  /\ \A o \in Order : orders[o] # NoLine =>
       /\ Exists(orders[o].product)
       /\ orders[o].option # NoOption => Exists(orders[o].option)
  /\ \A o \in Order : Sold(o) => orders[o].along = LinkedTo(orders[o].option)

\* A form shows the stock as it is, and is the only one of its product.
FormsOK ==
  /\ \A r \in Request : Updating(r) =>
       Exists(req[r].entry) /\ req[r].stock = stock[req[r].entry]
  /\ \A r, q \in Request :
       r # q /\ Updating(r) /\ Updating(q) => req[q].entry # req[r].entry

\* Finitely many rows exist.
Rows == {e \in Entry : Exists(e)}
SoldOrders == {o \in Order : Sold(o)}

CatalogueInv ==
  /\ CatalogueTypeOK
  /\ IsFiniteSet(Rows) /\ IsFiniteSet(SoldOrders)
  /\ apart => ListsOK /\ ReferencesOK /\ FormsOK
  /\ PositionsDistinct /\ LedgerHolds

\* A reset has deleted what its statements so far name, as it still stands.
ErasedBefore(k) == UNION {Doomed(Statements[i]) : i \in 1..(k - 1)}
ResetInv ==
  /\ TypeOK
  /\ CatalogueInv
  /\ apart /\ wipe # NoWipe => gone = ErasedBefore(wipe.next)
  /\ \A c \in carriers : orders[c[1]] # NoLine

-----------------------------------------------------------------------------
\* The units of p on the lines ord of the orders S.
UnitsOn(ord, S, p) ==
  SumFunctionOnSet([o \in S |-> Units(ord[o].product, ord[o].along, p)], S)

\* The units of a line are a natural number.
LEMMA UnitsType == ASSUME NEW p, NEW a, NEW q PROVE Units(p, a, q) \in Nat
BY DEF Units

\* Lines of the same products hold the same units.
LEMMA UnitsSame ==
  ASSUME NEW S, IsFiniteSet(S), NEW f, NEW g, NEW p,
         \A o \in S : Units(f[o].product, f[o].along, p) = Units(g[o].product, g[o].along, p)
  PROVE  UnitsOn(f, S, p) = UnitsOn(g, S, p) /\ UnitsOn(f, S, p) \in Nat
<1> DEFINE F == [o \in S |-> Units(f[o].product, f[o].along, p)]
           G == [o \in S |-> Units(g[o].product, g[o].along, p)]
<1>1. \A o \in S : F[o] = G[o] /\ F[o] \in Nat
  BY UnitsType
<1>2. UnitsOn(f, S, p) = SumFunctionOnSet(F, S) /\ UnitsOn(g, S, p) = SumFunctionOnSet(G, S)
  BY Zenon DEF UnitsOn
<1> HIDE DEF F, G
<1>3. SumFunctionOnSet(F, S) = SumFunctionOnSet(G, S)
  BY <1>1, SumSame
<1>4. SumFunctionOnSet(F, S) \in Nat
  BY <1>1, SumNotNegative
<1> QED BY <1>2, <1>3, <1>4

\* A line more adds its units.
LEMMA UnitsMore ==
  ASSUME NEW S, IsFiniteSet(S), NEW x, x \notin S, NEW f, NEW g, NEW p,
         \A o \in S : Units(f[o].product, f[o].along, p) = Units(g[o].product, g[o].along, p)
  PROVE  UnitsOn(g, S \cup {x}, p) = UnitsOn(f, S, p) + Units(g[x].product, g[x].along, p)
<1> DEFINE T == S \cup {x}
           F == [o \in S |-> Units(g[o].product, g[o].along, p)]
           G == [o \in T |-> Units(g[o].product, g[o].along, p)]
<1>1. \A o \in T : G[o] \in Int
  BY UnitsType
<1>2. \A o \in S : G[o] = F[o]
  OBVIOUS
<1>3. G[x] = Units(g[x].product, g[x].along, p) /\ G[x] \in Int
  BY UnitsType
<1>4. UnitsOn(g, T, p) = SumFunctionOnSet(G, T) /\ UnitsOn(g, S, p) = SumFunctionOnSet(F, S)
  BY Zenon DEF UnitsOn
<1>5. UnitsOn(f, S, p) = UnitsOn(g, S, p) /\ UnitsOn(f, S, p) \in Nat
  BY UnitsSame
<1> HIDE DEF F, G
<1>6. SumFunctionOnSet(G, S \cup {x}) = G[x] + SumFunctionOnSet(G, S)
  BY <1>1, SumAdd
<1>7. SumFunctionOnSet(G, S) = SumFunctionOnSet(F, S)
  BY <1>2, SumSame
<1>8. SumFunctionOnSet(G, T) = G[x] + SumFunctionOnSet(G, S)
  BY <1>6
<1> HIDE DEF T
<1>9. UnitsOn(g, T, p) = UnitsOn(f, S, p) + Units(g[x].product, g[x].along, p)
  BY <1>3, <1>4, <1>5, <1>7, <1>8
<1> QED BY <1>9 DEF T

\* Lines without p hold none of it.
LEMMA UnitsNone ==
  ASSUME NEW S, IsFiniteSet(S), NEW f, NEW p, \A o \in S : f[o].product # p /\ f[o].along # p
  PROVE  UnitsOn(f, S, p) = 0
<1> DEFINE F == [o \in S |-> Units(f[o].product, f[o].along, p)]
<1>1. \A o \in S : F[o] = 0
  BY DEF Units
<1>2. UnitsOn(f, S, p) = SumFunctionOnSet(F, S)
  BY Zenon DEF UnitsOn
<1> HIDE DEF F
<1> QED BY <1>1, <1>2, SumZero

\* The ledger in terms of the units on the lines sold.
LEMMA LedgerIs ==
  LedgerHolds <=> (apart => \A p \in Product : stock[p] + UnitsOn(orders, SoldOrders, p) = supplied[p])
BY Zenon DEF LedgerHolds, SoldIn, UnitsOn, SoldOrders

-----------------------------------------------------------------------------
\* A row is of its list, and its list is the list of each of its rows.
LEMMA ListOf ==
  ASSUME NEW e \in Entry
  PROVE  /\ e \in Siblings(e) /\ Siblings(e) \subseteq Entry
         /\ \A s \in Siblings(e) : Siblings(s) = Siblings(e)
BY RowsAssumption DEF Siblings, Entry

\* The last position of a list is the largest of its rows.
LEMMA LastOfList ==
  ASSUME CatalogueTypeOK, IsFiniteSet(Rows), NEW e \in Entry
  PROVE  /\ LastPosition(e) \in Nat
         /\ \A s \in Siblings(e) : position[s] \in Nat /\ position[s] <= LastPosition(e)
<1> DEFINE T == {position[s] : s \in Siblings(e)}
           P == {position[s] : s \in Rows}
<1>1. \A s \in Siblings(e) : position[s] \in Nat
  BY ListOf DEF CatalogueTypeOK
<1>2. T # {} /\ \A y \in T : y \in Int
  BY <1>1, ListOf
<1>3. IsFiniteSet(P \cup {0})
  <2>1. IsFiniteSet(P)
    BY ImageFinite
  <2> HIDE DEF P
  <2> QED BY <2>1, FS_AddElement
<1>4. T \subseteq P \cup {0}
  BY ListOf DEF Rows, Exists
<1>5. LastPosition(e) = CHOOSE x \in T : \A y \in T : x >= y
  BY DEF LastPosition, Max
<1>6. \A s \in Siblings(e) : position[s] \in T
  OBVIOUS
<1>7. \A y \in T : y \in Nat
  BY <1>1
<1> HIDE DEF T, P
<1>8. IsFiniteSet(T)
  BY <1>3, <1>4, FS_Subset
<1>9. \E x \in T : \A y \in T : x >= y
  BY <1>2, <1>8, LargestExists
<1>10. LastPosition(e) \in T /\ \A y \in T : LastPosition(e) >= y
  BY <1>5, <1>9
<1> QED BY <1>1, <1>6, <1>7, <1>10

\* Where no row changes, what is said of the rows stays.
LEMMA RowsSame ==
  ASSUME CatalogueInv, UNCHANGED <<rows, apart>>
  PROVE  /\ IsFiniteSet(Rows') /\ IsFiniteSet(SoldOrders')
         /\ apart' => ReferencesOK'
         /\ PositionsDistinct' /\ LedgerHolds'
<1>1. UNCHANGED <<position, stock, linked, orders, supplied, apart>>
  BY DEF rows
<1>2. Rows' = Rows /\ SoldOrders' = SoldOrders
  BY <1>1 DEF Rows, SoldOrders, Exists, Sold
<1>3. apart' => ReferencesOK'
  BY <1>1 DEF CatalogueInv, ReferencesOK, Exists, Sold, LinkedTo
<1>4. PositionsDistinct' /\ LedgerHolds'
  BY <1>1 DEF CatalogueInv, PositionsDistinct, LedgerHolds, SoldIn, Sold, Exists
<1> QED BY <1>2, <1>3, <1>4 DEF CatalogueInv

\* The types of the calls of a slot.
LEMMA CallTypes ==
  ASSUME CatalogueTypeOK, NEW r \in Request
  PROVE  /\ Creating(r) => req[r].entry \in Entry /\ req[r].position \in Nat \ {0}
         /\ Updating(r) => req[r].entry \in Product /\ req[r].stock \in Int
         /\ req[r] # Idle => Creating(r) \/ Updating(r)
<1>1. req[r] = Idle \/ req[r] \in [op : {"create"}, entry : Entry, position : Nat \ {0}]
        \/ req[r] \in [op : {"update"}, entry : Product, stock : Int]
  BY DEF CatalogueTypeOK, Call
<1> QED BY <1>1 DEF Creating, Updating

\* The last position is read for a row that is new and the only one of its
\* list that is being created.
LEMMA ReadLastKeeps ==
  ASSUME CatalogueInv, NEW r \in Request, NEW e \in Entry, ReadLast(r, e)
  PROVE  CatalogueInv'
<1> DEFINE c == [op |-> "create", entry |-> e, position |-> LastPosition(e) + 1]
<1>1. /\ UNCHANGED <<rows, apart>> /\ UNCHANGED <<position, stock, linked, orders, supplied, apart>>
      /\ req' = [req EXCEPT ![r] = c] /\ req[r] = Idle /\ ~Exists(e)
      /\ apart => ~Working("create", Siblings(e))
  BY DEF ReadLast, rows
<1>2. /\ LastPosition(e) \in Nat
      /\ \A s \in Siblings(e) : position[s] \in Nat /\ position[s] <= LastPosition(e)
  BY LastOfList DEF CatalogueInv
<1>3. c \in Call /\ c # Idle
  BY <1>2, RowsAssumption DEF Call
<1>4. CatalogueTypeOK'
  BY <1>1, <1>3 DEF CatalogueTypeOK, CatalogueInv
<1>5. /\ \A q \in Request : req'[q] = IF q = r THEN c ELSE req[q]
      /\ c.op = "create" /\ c.entry = e /\ c.position = LastPosition(e) + 1
  BY <1>1 DEF CatalogueTypeOK, CatalogueInv
<1> HIDE DEF c
<1>6. \A q \in Request : /\ Creating(q)' <=> (q = r \/ Creating(q))
                         /\ Updating(q)' <=> (q # r /\ Updating(q))
  BY <1>1, <1>3, <1>5 DEF Creating, Updating
<1>7. ASSUME apart PROVE ListsOK'
  <2>1. ASSUME NEW q \in Request, Creating(q)'
        PROVE  /\ position'[req'[q].entry] = 0
               /\ \A s \in Siblings(req'[q].entry) : position'[s] < req'[q].position
    <3>1. CASE q = r
      BY <1>1, <1>2, <1>5, <3>1 DEF Exists
    <3>2. CASE q # r
      BY <1>1, <1>5, <1>6, <1>7, <2>1, <3>2 DEF CatalogueInv, ListsOK, Exists
    <3> QED BY <3>1, <3>2
  <2>2. ASSUME NEW p \in Request, NEW q \in Request, p # q, Creating(p)', Creating(q)'
        PROVE  req'[q].entry \notin Siblings(req'[p].entry)
    <3>1. \A t \in Request : t # r /\ Creating(t) => req[t].entry \in Entry /\ req[t].entry \notin Siblings(e)
      BY <1>1, <1>7, CallTypes DEF Working, Creating, CatalogueInv
    <3>2. CASE p = r
      BY <1>5, <1>6, <2>2, <3>1, <3>2
    <3>3. CASE q = r
      BY <1>5, <1>6, <2>2, <3>1, <3>3, ListOf
    <3>4. CASE p # r /\ q # r
      BY <1>5, <1>6, <1>7, <2>2, <3>4 DEF CatalogueInv, ListsOK
    <3> QED BY <3>2, <3>3, <3>4
  <2> QED BY <2>1, <2>2 DEF ListsOK, Exists
<1>8. ASSUME apart PROVE FormsOK'
  BY <1>1, <1>5, <1>6, <1>8 DEF CatalogueInv, FormsOK, Exists
<1> QED BY <1>1, <1>4, <1>7, <1>8, RowsSame DEF CatalogueInv

\* A form opens on the stock as it is, when no other form of the product is.
LEMMA OpenFormKeeps ==
  ASSUME CatalogueInv, NEW r \in Request, NEW p \in Product, OpenForm(r, p)
  PROVE  CatalogueInv'
<1> DEFINE c == [op |-> "update", entry |-> p, stock |-> stock[p]]
<1>1. /\ UNCHANGED <<rows, apart>> /\ UNCHANGED <<position, stock, linked, orders, supplied, apart>>
      /\ req' = [req EXCEPT ![r] = c] /\ req[r] = Idle /\ Exists(p)
      /\ apart => ~Working("update", {p})
  BY DEF OpenForm, rows
<1>3. c \in Call /\ c # Idle
  BY RowsAssumption DEF Call, CatalogueInv, CatalogueTypeOK
<1>4. CatalogueTypeOK'
  BY <1>1, <1>3 DEF CatalogueTypeOK, CatalogueInv
<1>5. /\ \A q \in Request : req'[q] = IF q = r THEN c ELSE req[q]
      /\ c.op = "update" /\ c.entry = p /\ c.stock = stock[p]
  BY <1>1 DEF CatalogueTypeOK, CatalogueInv
<1> HIDE DEF c
<1>6. \A q \in Request : /\ Updating(q)' <=> (q = r \/ Updating(q))
                         /\ Creating(q)' <=> (q # r /\ Creating(q))
  BY <1>1, <1>3, <1>5 DEF Creating, Updating
<1>7. ASSUME apart PROVE ListsOK'
  BY <1>1, <1>5, <1>6, <1>7 DEF CatalogueInv, ListsOK, Exists, Siblings
<1>8. ASSUME apart PROVE FormsOK'
  <2>1. \A t \in Request : t # r /\ Updating(t) => req[t].entry # p
    BY <1>1, <1>8 DEF Working, Updating
  <2> QED BY <1>1, <1>5, <1>6, <1>8, <2>1 DEF CatalogueInv, FormsOK, Exists
<1> QED BY <1>1, <1>4, <1>7, <1>8, RowsSame DEF CatalogueInv

\* A slot that is free again works on nothing; the others go on.
LEMMA SlotFreed ==
  ASSUME CatalogueTypeOK, NEW r \in Request, End(r)
  PROVE  /\ req' \in [Request -> Call \cup {Idle}]
         /\ \A q \in Request : q # r => req'[q] = req[q]
         /\ \A q \in Request : /\ Creating(q)' <=> (q # r /\ Creating(q))
                               /\ Updating(q)' <=> (q # r /\ Updating(q))
<1>1. /\ req' \in [Request -> Call \cup {Idle}]
      /\ \A q \in Request : req'[q] = IF q = r THEN Idle ELSE req[q]
  BY DEF End, CatalogueTypeOK
<1> QED BY <1>1 DEF Creating, Updating

\* A call that fails changes no row.
LEMMA FailKeeps ==
  ASSUME CatalogueInv, NEW r \in Request, Fail(r)
  PROVE  CatalogueInv'
<1>1. /\ UNCHANGED <<rows, apart>> /\ UNCHANGED <<position, stock, linked, orders, supplied, apart>>
      /\ CatalogueTypeOK
  BY DEF Fail, rows, CatalogueInv
<1>2. /\ req' \in [Request -> Call \cup {Idle}]
      /\ \A q \in Request : q # r => req'[q] = req[q]
      /\ \A q \in Request : /\ Creating(q)' <=> (q # r /\ Creating(q))
                            /\ Updating(q)' <=> (q # r /\ Updating(q))
  BY SlotFreed DEF Fail, CatalogueInv
<1>3. CatalogueTypeOK'
  BY <1>1, <1>2 DEF CatalogueTypeOK
<1>4. ASSUME apart PROVE ListsOK' /\ FormsOK'
  BY <1>1, <1>2, <1>4 DEF CatalogueInv, ListsOK, FormsOK, Exists, Siblings
<1> QED BY <1>1, <1>3, <1>4, RowsSame DEF CatalogueInv

\* What the administrator adds to the figure on the form is what is added to
\* the stock, for the form still shows it.
LEMMA UpdateStockKeeps ==
  ASSUME CatalogueInv, NEW r \in Request, UpdateStock(r)
  PROVE  CatalogueInv'
<1> DEFINE p == req[r].entry
<1>1. PICK d \in {0, 1} :
        /\ stock' = [stock EXCEPT ![p] = req[r].stock + d]
        /\ supplied' = IF apart THEN [supplied EXCEPT ![p] = @ + d] ELSE supplied
  BY DEF UpdateStock
<1>2. /\ CatalogueTypeOK /\ Updating(r) /\ Exists(p) /\ End(r)
      /\ UNCHANGED <<position, linked, orders, apart>>
  BY DEF UpdateStock, Updating, CatalogueInv
<1>3. p \in Product /\ req[r].stock \in Int
  BY <1>2, CallTypes
<1>4. /\ req' \in [Request -> Call \cup {Idle}]
      /\ \A q \in Request : q # r => req'[q] = req[q]
      /\ \A q \in Request : /\ Creating(q)' <=> (q # r /\ Creating(q))
                            /\ Updating(q)' <=> (q # r /\ Updating(q))
  BY <1>2, SlotFreed
<1> HIDE DEF p
<1>5. CatalogueTypeOK'
  BY <1>1, <1>2, <1>3, <1>4 DEF CatalogueTypeOK
<1>6. Rows' = Rows /\ SoldOrders' = SoldOrders
  BY <1>2 DEF Rows, SoldOrders, Exists, Sold
<1>7. ASSUME apart PROVE ListsOK' /\ ReferencesOK'
  BY <1>2, <1>4, <1>7 DEF CatalogueInv, ListsOK, ReferencesOK, Exists, Siblings, Sold, LinkedTo
<1>8. ASSUME apart PROVE FormsOK'
  <2>1. \A q \in Request : q # r /\ Updating(q) => req[q].entry # p /\ req[q].entry \in Product
    BY <1>2, <1>8, CallTypes DEF CatalogueInv, FormsOK, p
  <2>2. \A q \in Request : q # r /\ Updating(q) => stock'[req[q].entry] = stock[req[q].entry]
    BY <1>1, <1>2, <2>1 DEF CatalogueTypeOK
  <2> QED BY <1>2, <1>4, <1>8, <2>1, <2>2 DEF CatalogueInv, FormsOK, Exists
<1>9. PositionsDistinct'
  BY <1>2 DEF CatalogueInv, PositionsDistinct, Exists
<1>10. LedgerHolds'
  <2> SUFFICES ASSUME apart, NEW q \in Product
               PROVE  stock'[q] + UnitsOn(orders', SoldOrders', q) = supplied'[q]
    BY <1>2, LedgerIs DEF LedgerHolds, SoldIn, UnitsOn, SoldOrders
  <2>1. UnitsOn(orders', SoldOrders', q) = UnitsOn(orders, SoldOrders, q)
        /\ UnitsOn(orders, SoldOrders, q) \in Int
    BY <1>2, <1>6, UnitsSame DEF CatalogueInv
  <2>2. stock[q] + UnitsOn(orders, SoldOrders, q) = supplied[q]
    BY LedgerIs DEF CatalogueInv
  <2>3. req[r].stock = stock[p]
    BY <1>2 DEF CatalogueInv, FormsOK, p
  <2>4. stock[q] \in Int /\ supplied[q] \in Int /\ stock'[q] - stock[q] = supplied'[q] - supplied[q]
        /\ stock'[q] \in Int /\ supplied'[q] \in Int
    BY <1>1, <1>2, <1>3, <2>3 DEF CatalogueTypeOK
  <2> QED BY <2>1, <2>2, <2>4
<1> QED BY <1>2, <1>5, <1>6, <1>7, <1>8, <1>9, <1>10 DEF CatalogueInv

\* An option of no sold line is linked to another product, or to none.
LEMMA UpdateLinkedKeeps ==
  ASSUME CatalogueInv, NEW a \in Option, NEW p \in Product \cup {NoProduct}, UpdateLinkedProduct(a, p)
  PROVE  CatalogueInv'
<1>1. /\ CatalogueTypeOK /\ Exists(a) /\ (p # NoProduct => Exists(p))
      /\ apart => \A o \in Order : Sold(o) => orders[o].option # a
      /\ linked' = [linked EXCEPT ![a] = p]
      /\ UNCHANGED <<position, stock, orders, req, supplied, apart>>
  BY DEF UpdateLinkedProduct, CatalogueInv
<1>2. CatalogueTypeOK'
  BY <1>1 DEF CatalogueTypeOK
<1>3. Rows' = Rows /\ SoldOrders' = SoldOrders
  BY <1>1 DEF Rows, SoldOrders, Exists, Sold
<1>4. ASSUME apart PROVE ListsOK' /\ FormsOK'
  BY <1>1, <1>4 DEF CatalogueInv, ListsOK, FormsOK, Exists, Siblings, Creating, Updating
<1>5. ASSUME apart PROVE ReferencesOK'
  <2>1. \A o \in Order : Sold(o) => LinkedTo(orders[o].option)' = LinkedTo(orders[o].option)
    <3>1. \A b \in Option \cup {NoOption} : b # a => (b = NoOption \/ linked'[b] = linked[b])
      BY <1>1 DEF CatalogueTypeOK
    <3>2. \A o \in Order : Sold(o) => orders[o].option \in Option \cup {NoOption} /\ orders'[o] = orders[o]
      BY <1>1 DEF CatalogueTypeOK, Sold, Line
    <3> QED BY <1>1, <1>5, <3>1, <3>2 DEF LinkedTo
  <2>2. \A b \in Option : linked'[b] # NoProduct => Exists(linked'[b])
    BY <1>1, <1>5 DEF CatalogueInv, ReferencesOK, CatalogueTypeOK
  <2> QED BY <1>1, <1>5, <2>1, <2>2 DEF CatalogueInv, ReferencesOK, Exists, Sold
<1>6. PositionsDistinct' /\ LedgerHolds'
  BY <1>1 DEF CatalogueInv, PositionsDistinct, LedgerHolds, SoldIn, Sold, Exists
<1> QED BY <1>1, <1>2, <1>3, <1>4, <1>5, <1>6 DEF CatalogueInv

\* The lines that are there are of their types.
LEMMA LineTypes ==
  ASSUME CatalogueTypeOK, NEW o \in Order, orders[o] # NoLine
  PROVE  /\ orders[o] \in Line
         /\ orders[o].product \in Product /\ orders[o].option \in Option \cup {NoOption}
         /\ orders[o].along \in Product \cup {NoProduct}
         /\ LinkedTo(orders[o].option) \in Product \cup {NoProduct}
BY DEF CatalogueTypeOK, Line, LinkedTo

\* What an order does to its line leaves the calls as they are.
LEMMA CallsSame ==
  ASSUME CatalogueInv, apart, UNCHANGED <<position, req>>
  PROVE  ListsOK'
BY DEF CatalogueInv, ListsOK, Exists, Siblings, Creating

\* An order is placed over products and options that exist.
LEMMA PlaceOrderKeeps ==
  ASSUME CatalogueInv, NEW o \in Order, PlaceOrder(o)
  PROVE  CatalogueInv'
<1>1. PICK p \in Product, a \in Option \cup {NoOption} :
        /\ Exists(p) /\ (a # NoOption => Exists(a))
        /\ orders' = [orders EXCEPT ![o] =
             [product |-> p, option |-> a, stage |-> "placed", along |-> NoProduct]]
  BY DEF PlaceOrder
<1>2. /\ CatalogueTypeOK /\ orders[o] = NoLine
      /\ UNCHANGED <<position, stock, linked, req, supplied, apart>>
  BY DEF PlaceOrder, CatalogueInv
<1> DEFINE l == [product |-> p, option |-> a, stage |-> "placed", along |-> NoProduct]
<1>3. /\ l \in Line /\ l # NoLine /\ l.product = p /\ l.option = a /\ l.stage = "placed"
      /\ \A q \in Order : orders'[q] = IF q = o THEN l ELSE orders[q]
      /\ orders' \in [Order -> Line \cup {NoLine}]
  BY <1>1, <1>2, RowsAssumption DEF Line, CatalogueTypeOK
<1> HIDE DEF l
<1>4. CatalogueTypeOK'
  BY <1>2, <1>3 DEF CatalogueTypeOK
<1>5. Rows' = Rows /\ SoldOrders' = SoldOrders
  BY <1>2, <1>3 DEF Rows, SoldOrders, Exists, Sold
<1>6. ASSUME apart PROVE FormsOK'
  BY <1>2, <1>6 DEF CatalogueInv, FormsOK, Exists, Updating
<1>7. ASSUME apart PROVE ReferencesOK'
  <2>1. \A q \in Order : Sold(q)' => q # o /\ Sold(q)
    BY <1>3 DEF Sold
  <2> QED BY <1>1, <1>2, <1>3, <1>7, <2>1 DEF CatalogueInv, ReferencesOK, Exists, LinkedTo
<1>8. PositionsDistinct'
  BY <1>2 DEF CatalogueInv, PositionsDistinct, Exists
<1>9. LedgerHolds'
  <2> SUFFICES ASSUME apart, NEW q \in Product
               PROVE  stock'[q] + UnitsOn(orders', SoldOrders', q) = supplied'[q]
    BY <1>2 DEF LedgerHolds, SoldIn, UnitsOn, SoldOrders
  <2>1. \A x \in SoldOrders : orders'[x] = orders[x]
    BY <1>2, <1>3 DEF SoldOrders, Sold
  <2>2. UnitsOn(orders', SoldOrders, q) = UnitsOn(orders, SoldOrders, q)
    BY <2>1, UnitsSame DEF CatalogueInv
  <2>3. UnitsOn(orders', SoldOrders', q) = UnitsOn(orders', SoldOrders, q)
    BY <1>5, Zenon
  <2> QED BY <1>2, <2>2, <2>3, LedgerIs DEF CatalogueInv
<1> QED BY <1>2, <1>4, <1>5, <1>6, <1>7, <1>8, <1>9, CallsSame DEF CatalogueInv

\* A line is sold: its units leave the stock as they come onto the line, and no
\* form of a product it takes is open.
LEMMA SellLineKeeps ==
  ASSUME CatalogueInv, NEW o \in Order, SellLine(o)
  PROVE  CatalogueInv'
<1> DEFINE p == orders[o].product
           along == LinkedTo(orders[o].option)
           l == [orders[o] EXCEPT !.stage = "sold", !.along = along]
<1>1. /\ CatalogueTypeOK /\ orders[o] # NoLine /\ ~Sold(o)
      /\ Unedited({p, along})
      /\ stock' = [q \in Product |-> stock[q] - Units(p, along, q)]
      /\ UNCHANGED <<position, linked, req, supplied, apart>>
  BY DEF SellLine, CatalogueInv, Sold
<1>2. orders' = [orders EXCEPT ![o] = l]
  BY DEF SellLine
<1>3. /\ p \in Product /\ along \in Product \cup {NoProduct}
      /\ orders[o] \in Line
  BY <1>1, LineTypes
<1>4. /\ l \in Line /\ l # NoLine /\ l.stage = "sold" /\ l.product = p
      /\ l.option = orders[o].option /\ l.along = along
  BY <1>3, RowsAssumption DEF Line
<1>5. /\ \A q \in Order : orders'[q] = IF q = o THEN l ELSE orders[q]
      /\ orders' \in [Order -> Line \cup {NoLine}]
  BY <1>1, <1>2, <1>4 DEF CatalogueTypeOK
<1>6. along = LinkedTo(l.option)
  BY <1>4
<1> HIDE DEF p, along, l
<1>7. \A q \in Product : Units(p, along, q) \in Nat /\ stock'[q] = stock[q] - Units(p, along, q)
  BY <1>1, UnitsType
<1>8. CatalogueTypeOK'
  BY <1>1, <1>5, <1>7 DEF CatalogueTypeOK
<1>9. Rows' = Rows /\ SoldOrders' = SoldOrders \cup {o} /\ o \notin SoldOrders
  BY <1>1, <1>4, <1>5 DEF Rows, SoldOrders, Exists, Sold
<1>10. IsFiniteSet(SoldOrders')
  BY <1>9, FS_AddElement DEF CatalogueInv
<1>11. ASSUME apart PROVE FormsOK'
  <2>1. ASSUME NEW r \in Request, Updating(r) PROVE stock'[req[r].entry] = stock[req[r].entry]
    <3>1. req[r].entry \in Product /\ req[r].entry \notin {p, along}
      BY <1>1, <1>11, <2>1, CallTypes DEF Unedited, Working, Updating
    <3>2. Units(p, along, req[r].entry) = 0
      BY <3>1 DEF Units
    <3> QED BY <1>1, <1>7, <3>1, <3>2 DEF CatalogueTypeOK
  <2> QED BY <1>1, <1>11, <2>1 DEF CatalogueInv, FormsOK, Exists, Updating
<1>12. ASSUME apart PROVE ReferencesOK'
  <2>1. \A x : LinkedTo(x)' = LinkedTo(x)
    BY <1>1 DEF LinkedTo
  <2>2. \A q \in Order : q # o => (Sold(q)' <=> Sold(q)) /\ orders'[q] = orders[q]
    BY <1>5 DEF Sold
  <2>3. Exists(p) /\ (l.option # NoOption => Exists(l.option))
    BY <1>1, <1>4, <1>12 DEF CatalogueInv, ReferencesOK, p
  <2>4. \A a \in Option : linked[a] # NoProduct => Exists(linked[a])
    BY <1>12 DEF CatalogueInv, ReferencesOK
  <2>5. \A q \in Order : orders'[q] # NoLine =>
          /\ Exists(orders'[q].product)
          /\ orders'[q].option # NoOption => Exists(orders'[q].option)
    BY <1>4, <1>5, <1>12, <2>3 DEF CatalogueInv, ReferencesOK
  <2>6. \A q \in Order : Sold(q)' => orders'[q].along = LinkedTo(orders'[q].option)
    BY <1>4, <1>5, <1>6, <1>12, <2>2 DEF CatalogueInv, ReferencesOK
  <2> QED BY <1>1, <2>1, <2>4, <2>5, <2>6 DEF ReferencesOK, Exists
<1>13. PositionsDistinct'
  BY <1>1 DEF CatalogueInv, PositionsDistinct, Exists
<1>14. LedgerHolds'
  <2> SUFFICES ASSUME apart, NEW q \in Product
               PROVE  stock'[q] + UnitsOn(orders', SoldOrders', q) = supplied'[q]
    BY <1>1 DEF LedgerHolds, SoldIn, UnitsOn, SoldOrders
  <2>1. \A x \in SoldOrders : orders'[x] = orders[x]
    BY <1>5, <1>9 DEF SoldOrders
  <2>2. /\ UnitsOn(orders', SoldOrders \cup {o}, q) =
             UnitsOn(orders, SoldOrders, q) + Units(orders'[o].product, orders'[o].along, q)
        /\ UnitsOn(orders, SoldOrders, q) \in Nat
    BY <1>9, <2>1, UnitsMore, UnitsSame DEF CatalogueInv
  <2>3. UnitsOn(orders', SoldOrders', q) = UnitsOn(orders', SoldOrders \cup {o}, q)
    BY <1>9, Zenon
  <2>4. orders'[o].product = p /\ orders'[o].along = along
    BY <1>4, <1>5
  <2>5. stock[q] + UnitsOn(orders, SoldOrders, q) = supplied[q] /\ stock[q] \in Int
    BY <1>1, LedgerIs DEF CatalogueInv, CatalogueTypeOK
  <2> QED BY <1>1, <1>7, <2>2, <2>3, <2>4, <2>5
<1> QED BY <1>1, <1>8, <1>9, <1>10, <1>11, <1>12, <1>13, <1>14, CallsSame DEF CatalogueInv

\* A line is returned: to the product its option is linked to by now, which is
\* the one that was sold along.
LEMMA ReturnLineKeeps ==
  ASSUME CatalogueInv, NEW o \in Order, ReturnLine(o)
  PROVE  CatalogueInv'
<1> DEFINE p == orders[o].product
           along == LinkedTo(orders[o].option)
           l == [orders[o] EXCEPT !.stage = "rejected", !.along = NoProduct]
<1>1. /\ CatalogueTypeOK /\ orders[o] # NoLine /\ Sold(o)
      /\ Unedited({p, along})
      /\ stock' = [q \in Product |-> stock[q] + Units(p, along, q)]
      /\ UNCHANGED <<position, linked, req, supplied, apart>>
  BY DEF ReturnLine, CatalogueInv, Sold, Returned
<1>2. orders' = [orders EXCEPT ![o] = l]
  BY DEF ReturnLine
<1>3. /\ p \in Product /\ along \in Product \cup {NoProduct}
      /\ orders[o] \in Line
  BY <1>1, LineTypes
<1>4. /\ l \in Line /\ l # NoLine /\ l.stage = "rejected" /\ l.product = p
      /\ l.option = orders[o].option
  BY <1>3, RowsAssumption DEF Line
<1>5. /\ \A q \in Order : orders'[q] = IF q = o THEN l ELSE orders[q]
      /\ orders' \in [Order -> Line \cup {NoLine}]
  BY <1>1, <1>2, <1>4 DEF CatalogueTypeOK
<1>6. apart => orders[o].along = along
  BY <1>1 DEF CatalogueInv, ReferencesOK
<1>7. orders[o].product = p
  OBVIOUS
<1> HIDE DEF p, along, l
<1>8. \A q \in Product : Units(p, along, q) \in Nat /\ stock'[q] = stock[q] + Units(p, along, q)
  BY <1>1, UnitsType
<1>9. CatalogueTypeOK'
  BY <1>1, <1>5, <1>8 DEF CatalogueTypeOK
<1>10. Rows' = Rows /\ SoldOrders' = SoldOrders \ {o} /\ o \in SoldOrders
  BY <1>1, <1>4, <1>5 DEF Rows, SoldOrders, Exists, Sold
<1>11. IsFiniteSet(SoldOrders')
  BY <1>10, FS_RemoveElement DEF CatalogueInv
<1>12. ASSUME apart PROVE FormsOK'
  <2>1. ASSUME NEW r \in Request, Updating(r) PROVE stock'[req[r].entry] = stock[req[r].entry]
    <3>1. req[r].entry \in Product /\ req[r].entry \notin {p, along}
      BY <1>1, <1>12, <2>1, CallTypes DEF Unedited, Working, Updating
    <3>2. Units(p, along, req[r].entry) = 0
      BY <3>1 DEF Units
    <3> QED BY <1>1, <1>8, <3>1, <3>2 DEF CatalogueTypeOK
  <2> QED BY <1>1, <1>12, <2>1 DEF CatalogueInv, FormsOK, Exists, Updating
<1>13. ASSUME apart PROVE ReferencesOK'
  <2>1. \A x : LinkedTo(x)' = LinkedTo(x)
    BY <1>1 DEF LinkedTo
  <2>2. \A q \in Order : Sold(q)' => q # o /\ Sold(q)
    BY <1>4, <1>5 DEF Sold
  <2>3. Exists(p) /\ (l.option # NoOption => Exists(l.option))
    BY <1>1, <1>4, <1>13 DEF CatalogueInv, ReferencesOK, p
  <2>4. \A a \in Option : linked[a] # NoProduct => Exists(linked[a])
    BY <1>13 DEF CatalogueInv, ReferencesOK
  <2>5. \A q \in Order : orders'[q] # NoLine =>
          /\ Exists(orders'[q].product)
          /\ orders'[q].option # NoOption => Exists(orders'[q].option)
    BY <1>4, <1>5, <1>13, <2>3 DEF CatalogueInv, ReferencesOK
  <2>6. \A q \in Order : Sold(q)' => orders'[q].along = LinkedTo(orders'[q].option)
    BY <1>5, <1>13, <2>2 DEF CatalogueInv, ReferencesOK
  <2> QED BY <1>1, <2>1, <2>4, <2>5, <2>6 DEF ReferencesOK, Exists
<1>14. PositionsDistinct'
  BY <1>1 DEF CatalogueInv, PositionsDistinct, Exists
<1>15. LedgerHolds'
  <2> SUFFICES ASSUME apart, NEW q \in Product
               PROVE  stock'[q] + UnitsOn(orders', SoldOrders', q) = supplied'[q]
    BY <1>1 DEF LedgerHolds, SoldIn, UnitsOn, SoldOrders
  <2> DEFINE S == SoldOrders'
  <2>1. IsFiniteSet(S) /\ o \notin S /\ SoldOrders = S \cup {o}
    BY <1>10, <1>11
  <2>2. \A x \in S : orders'[x] = orders[x]
    BY <1>5, <1>10 DEF SoldOrders
  <2>3. S = SoldOrders'
    OBVIOUS
  <2> HIDE DEF S
  <2>4. /\ UnitsOn(orders, S \cup {o}, q) =
             UnitsOn(orders', S, q) + Units(orders[o].product, orders[o].along, q)
        /\ UnitsOn(orders', S, q) \in Nat
    BY <2>1, <2>2, UnitsMore, UnitsSame
  <2>5. UnitsOn(orders, SoldOrders, q) = UnitsOn(orders, S \cup {o}, q)
        /\ UnitsOn(orders', SoldOrders', q) = UnitsOn(orders', S, q)
    BY <2>1, <2>3, Zenon
  <2>6. Units(orders[o].product, orders[o].along, q) = Units(p, along, q)
    BY <1>6, <1>7
  <2>7. stock[q] + UnitsOn(orders, SoldOrders, q) = supplied[q] /\ stock[q] \in Int
    BY <1>1, LedgerIs DEF CatalogueInv, CatalogueTypeOK
  <2> QED BY <1>1, <1>8, <2>4, <2>5, <2>6, <2>7
<1> QED BY <1>1, <1>9, <1>10, <1>11, <1>12, <1>13, <1>14, <1>15, CallsSame DEF CatalogueInv

\* A row is created where the list ends; a new product brings its first stock,
\* and no line has sold any of it.
LEMMA CreateKeeps ==
  ASSUME CatalogueInv, NEW r \in Request, Create(r)
  PROVE  CatalogueInv'
<1> DEFINE e == req[r].entry
           k == req[r].position
<1>1. /\ CatalogueTypeOK /\ Creating(r) /\ End(r)
      /\ position' = [position EXCEPT ![e] = k]
      /\ e \in Product => /\ stock' = [stock EXCEPT ![e] = FirstStock]
                          /\ supplied' = IF apart THEN [supplied EXCEPT ![e] = FirstStock] ELSE supplied
      /\ e \notin Product => stock' = stock /\ supplied' = supplied
      /\ e \in Option => \E p \in {NoProduct} \cup {q \in Product : Exists(q)} :
                           linked' = [linked EXCEPT ![e] = p]
      /\ e \notin Option => linked' = linked
      /\ orders' = orders /\ apart' = apart
  BY DEF Create, Creating, CatalogueInv
<1>2. e \in Entry /\ k \in Nat \ {0} /\ FirstStock \in Int
  BY <1>1, CallTypes, StockAssumption
<1>3. PICK p \in {NoProduct} \cup {q \in Product : Exists(q)} :
        /\ e \in Option => linked' = [linked EXCEPT ![e] = p]
        /\ e \notin Option => linked' = linked
  BY <1>1
<1>4. apart => ~Exists(e) /\ \A s \in Siblings(e) : position[s] < k
  BY <1>1 DEF CatalogueInv, ListsOK
<1>5. apart => \A q \in Request : q # r /\ Creating(q) =>
        req[q].entry \notin Siblings(e) /\ e \notin Siblings(req[q].entry) /\ req[q].entry \in Entry
  BY <1>1, CallTypes DEF CatalogueInv, ListsOK
<1> HIDE DEF e, k
<1>6. /\ req' \in [Request -> Call \cup {Idle}]
      /\ \A q \in Request : q # r => req'[q] = req[q]
      /\ \A q \in Request : /\ Creating(q)' <=> (q # r /\ Creating(q))
                            /\ Updating(q)' <=> (q # r /\ Updating(q))
  BY <1>1, SlotFreed
<1>7. \A s \in Entry : position'[s] = IF s = e THEN k ELSE position[s]
  BY <1>1, <1>2 DEF CatalogueTypeOK
<1>8. \A q \in Product : q # e => stock'[q] = stock[q] /\ supplied'[q] = supplied[q]
  BY <1>1 DEF CatalogueTypeOK
<1>9. CatalogueTypeOK'
  BY <1>1, <1>2, <1>3, <1>6 DEF CatalogueTypeOK
<1>10. Rows' = Rows \cup {e} /\ SoldOrders' = SoldOrders
  BY <1>1, <1>2, <1>7 DEF Rows, SoldOrders, Exists, Sold
<1>11. IsFiniteSet(Rows') /\ IsFiniteSet(SoldOrders')
  BY <1>10, FS_AddElement DEF CatalogueInv
<1>12. \A s \in Entry : Exists(s) => position'[s] # 0
  BY <1>2, <1>7 DEF Exists
<1>13. ASSUME apart PROVE ListsOK'
  <2>1. ASSUME NEW q \in Request, Creating(q)'
        PROVE  /\ position'[req'[q].entry] = 0
               /\ \A s \in Siblings(req'[q].entry) : position'[s] < req'[q].position
    <3>1. q # r /\ Creating(q) /\ req'[q] = req[q] /\ req[q].entry \in Entry
          /\ e \notin Siblings(req[q].entry) /\ req[q].entry # e
      BY <1>2, <1>5, <1>6, <1>13, <2>1, ListOf
    <3>2. ~Exists(req[q].entry) /\ \A s \in Siblings(req[q].entry) : position[s] < req[q].position
      BY <1>13, <3>1 DEF CatalogueInv, ListsOK
    <3>3. Siblings(req[q].entry) \subseteq Entry
      BY <3>1, ListOf
    <3> QED BY <1>7, <3>1, <3>2, <3>3 DEF Exists
  <2>2. \A a, b \in Request : a # b /\ Creating(a)' /\ Creating(b)' => req'[b].entry \notin Siblings(req'[a].entry)
    BY <1>6, <1>13 DEF CatalogueInv, ListsOK
  <2> QED BY <2>1, <2>2 DEF ListsOK, Exists
<1>14. ASSUME apart PROVE ReferencesOK'
  <2>1. \A a \in Option : linked'[a] # NoProduct => position'[linked'[a]] # 0
    <3>1. \A a \in Option : linked'[a] = IF a = e THEN p ELSE linked[a]
      BY <1>1, <1>3 DEF CatalogueTypeOK
    <3>2. p # NoProduct => p \in Entry /\ Exists(p)
      BY <1>3 DEF Entry
    <3>3. \A a \in Option : linked[a] # NoProduct => linked[a] \in Entry /\ Exists(linked[a])
      BY <1>1, <1>14 DEF CatalogueInv, ReferencesOK, CatalogueTypeOK, Entry
    <3> QED BY <1>12, <3>1, <3>2, <3>3
  <2>2. ASSUME NEW o \in Order, orders[o] # NoLine
        PROVE  /\ Exists(orders[o].product) /\ (orders[o].option # NoOption => Exists(orders[o].option))
               /\ position'[orders[o].product] # 0
               /\ orders[o].option # NoOption => position'[orders[o].option] # 0
    <3>1. Exists(orders[o].product) /\ (orders[o].option # NoOption => Exists(orders[o].option))
      BY <1>14, <2>2 DEF CatalogueInv, ReferencesOK
    <3> QED BY <1>1, <1>12, <2>2, <3>1, LineTypes DEF Entry
  <2>3. ASSUME NEW o \in Order, Sold(o)
        PROVE  LinkedTo(orders[o].option)' = LinkedTo(orders[o].option)
    <3>1. orders[o] # NoLine /\ orders[o].option \in Option \cup {NoOption}
      BY <1>1, <2>3, LineTypes DEF Sold
    <3>2. orders[o].option # NoOption => orders[o].option # e
      BY <1>4, <1>14, <2>2, <3>1
    <3>3. \A a \in Option : a # e => linked'[a] = linked[a]
      BY <1>1, <1>3 DEF CatalogueTypeOK
    <3> QED BY <1>1, <3>1, <3>2, <3>3 DEF LinkedTo
  <2>4. \A o \in Order : Sold(o)' => Sold(o) /\ orders'[o] = orders[o]
    BY <1>1 DEF Sold
  <2> QED BY <1>1, <1>14, <2>1, <2>2, <2>3, <2>4 DEF CatalogueInv, ReferencesOK, Exists
<1>15. ASSUME apart PROVE FormsOK'
  <2>1. ASSUME NEW q \in Request, Updating(q)
        PROVE  position'[req[q].entry] # 0 /\ req[q].stock = stock'[req[q].entry]
    <3>1. Exists(req[q].entry) /\ req[q].stock = stock[req[q].entry] /\ req[q].entry \in Product
      BY <1>1, <1>15, <2>1, CallTypes DEF CatalogueInv, FormsOK
    <3>2. req[q].entry # e /\ req[q].entry \in Entry
      BY <1>4, <1>15, <3>1 DEF Entry
    <3> QED BY <1>8, <1>12, <3>1, <3>2
  <2> QED BY <1>6, <1>15, <2>1 DEF CatalogueInv, FormsOK, Exists
<1>16. PositionsDistinct'
  <2> SUFFICES ASSUME apart, NEW a \in Entry, NEW b \in Siblings(a) \ {a}, position'[a] # 0
               PROVE  position'[b] # position'[a]
    BY <1>1 DEF PositionsDistinct, Exists, Siblings
  <2>1. a \in Siblings(b) /\ b \in Entry
    BY ListOf
  <2>2. CASE a = e
    BY <1>1, <1>2, <1>4, <1>7, <2>1, <2>2 DEF CatalogueTypeOK
  <2>3. CASE b = e
    BY <1>1, <1>2, <1>4, <1>7, <2>1, <2>3 DEF CatalogueTypeOK
  <2>4. CASE a # e /\ b # e
    BY <1>7, <2>1, <2>4 DEF CatalogueInv, PositionsDistinct, Exists
  <2> QED BY <2>2, <2>3, <2>4
<1>17. LedgerHolds'
  <2> SUFFICES ASSUME apart, NEW q \in Product
               PROVE  stock'[q] + UnitsOn(orders, SoldOrders, q) = supplied'[q]
    BY <1>1 DEF LedgerHolds, SoldIn, UnitsOn, SoldOrders, Sold
  <2>1. stock[q] + UnitsOn(orders, SoldOrders, q) = supplied[q]
    BY LedgerIs DEF CatalogueInv
  <2>2. CASE q # e
    BY <1>8, <2>1, <2>2
  <2>3. CASE q = e
    <3>1. ASSUME NEW o \in SoldOrders PROVE orders[o].product # q /\ orders[o].along # q
      <4>1. o \in Order /\ Sold(o) /\ orders[o] # NoLine
        BY DEF SoldOrders, Sold
      <4>2. Exists(orders[o].product) /\ orders[o].along = LinkedTo(orders[o].option)
        BY <4>1 DEF CatalogueInv, ReferencesOK
      <4>3. orders[o].along # NoProduct => Exists(orders[o].along)
        BY <1>1, <4>1, <4>2, LineTypes DEF CatalogueInv, ReferencesOK, LinkedTo
      <4> QED BY <1>4, <2>3, <4>2, <4>3, RowsAssumption
    <3>2. UnitsOn(orders, SoldOrders, q) = 0
      BY <3>1, UnitsNone DEF CatalogueInv
    <3>3. stock'[q] = FirstStock /\ supplied'[q] = FirstStock
      BY <1>1, <2>3 DEF CatalogueTypeOK
    <3> QED BY <1>2, <3>2, <3>3
  <2> QED BY <2>2, <2>3
<1> QED BY <1>1, <1>9, <1>11, <1>13, <1>14, <1>15, <1>16, <1>17 DEF CatalogueInv

\* Every operation on the catalogue, and every sale over it, keeps its books.
LEMMA CatalogueKeeps ==
  ASSUME CatalogueInv, CatalogueNext
  PROVE  CatalogueInv'
BY ReadLastKeeps, CreateKeeps, FailKeeps, UpdateStockKeeps, OpenFormKeeps, UpdateLinkedKeeps,
   PlaceOrderKeeps, SellLineKeeps, ReturnLineKeeps DEF CatalogueNext

\* And so does what leaves it alone.
LEMMA CatalogueUntouched ==
  ASSUME CatalogueInv, UNCHANGED catalogueVars
  PROVE  CatalogueInv'
<1>1. UNCHANGED <<rows, apart>> /\ UNCHANGED <<position, stock, linked, orders, supplied, req, apart>>
  BY DEF catalogueVars, rows
<1>2. CatalogueTypeOK'
  BY <1>1 DEF CatalogueInv, CatalogueTypeOK
<1>3. ASSUME apart PROVE FormsOK'
  BY <1>1, <1>3 DEF CatalogueInv, FormsOK, Exists, Updating
<1> QED BY <1>1, <1>2, <1>3, RowsSame, CallsSame DEF CatalogueInv

\* The empty catalogue.
LEMMA InitCatalogue == CatalogueInit => CatalogueInv
<1> SUFFICES ASSUME CatalogueInit PROVE CatalogueInv
  OBVIOUS
<1>1. Rows = {} /\ SoldOrders = {}
  BY DEF CatalogueInit, Rows, SoldOrders, Exists, Sold
<1>2. CatalogueTypeOK
  BY DEF CatalogueInit, CatalogueTypeOK
<1>3. ListsOK /\ FormsOK
  BY DEF CatalogueInit, ListsOK, FormsOK, Creating, Updating
<1>4. ReferencesOK /\ PositionsDistinct
  BY DEF CatalogueInit, ReferencesOK, PositionsDistinct, Exists, Sold
<1>5. LedgerHolds
  <2>1. \A p \in Product : UnitsOn(orders, SoldOrders, p) = 0
    BY <1>1, UnitsNone, FS_EmptySet
  <2> QED BY <2>1, LedgerIs DEF CatalogueInit
<1> QED BY <1>1, <1>2, <1>3, <1>4, <1>5, FS_EmptySet DEF CatalogueInv

-----------------------------------------------------------------------------
Round == Number \X Order \X Account

\* A row is a row of one table.
LEMMA TablesApart ==
  /\ Entry \cap Number = {} /\ Entry \cap Order = {} /\ Entry \cap Account = {}
  /\ Entry \cap Round = {} /\ Number \cap Order = {} /\ Number \cap Account = {}
  /\ Number \cap Round = {} /\ Order \cap Account = {} /\ Order \cap Round = {}
  /\ Account \cap Round = {}
<1> DEFINE ids == <<Entry, Number, Order, Account, Round>>
<1>1. \A i, j \in 1..5 : i # j => ids[i] \cap ids[j] = {}
  BY TablesAssumption DEF Round
<1>2. /\ ids[1] = Entry /\ ids[2] = Number /\ ids[3] = Order /\ ids[4] = Account
      /\ ids[5] = Round
  OBVIOUS
<1> HIDE DEF ids
<1>3. /\ ids[1] \cap ids[2] = {} /\ ids[1] \cap ids[3] = {} /\ ids[1] \cap ids[4] = {}
      /\ ids[1] \cap ids[5] = {} /\ ids[2] \cap ids[3] = {} /\ ids[2] \cap ids[4] = {}
      /\ ids[2] \cap ids[5] = {} /\ ids[3] \cap ids[4] = {} /\ ids[3] \cap ids[5] = {}
      /\ ids[4] \cap ids[5] = {}
  BY <1>1
<1> QED BY <1>2, <1>3

\* What each statement of a reset deletes.
LEMMA DoomedIs ==
  ASSUME TypeOK, wipe # NoWipe
  PROVE  /\ Len(Statements) = 7
         /\ Doomed(Statements[1]) = rounds
         /\ Doomed(Statements[2]) = numbers
         /\ Doomed(Statements[3]) = {o \in Order : orders[o] # NoLine}
         /\ Doomed(Statements[4]) = {a \in Option : Exists(a)}
         /\ {g \in Group : Exists(g)} \subseteq Doomed(Statements[5])
         /\ Doomed(Statements[5]) \subseteq Group \cup Option
         /\ Doomed(Statements[6]) = {p \in Product : Exists(p)} \ wipe.keep
         /\ Doomed(Statements[7]) = team
<1> DEFINE Gone(table) == {a \in Option : Exists(a) /\ GroupOf[a] \in RowsOf(table) \ wipe.keep}
<1>1. /\ wipe.keep \subseteq Product
      /\ rounds \subseteq Round /\ numbers \subseteq Number /\ team \subseteq Account
  BY CombosAssumption DEF TypeOK, Round
<1>2. /\ Len(Statements) = 7 /\ Statements[1] = "drawRound" /\ Statements[2] = "raffleNumber"
      /\ Statements[3] = "order" /\ Statements[4] = "addOnOption" /\ Statements[5] = "addOnGroup"
      /\ Statements[6] = "product" /\ Statements[7] = "user"
  BY DEF Statements
<1>3. /\ RowsOf("drawRound") = rounds /\ RowsOf("raffleNumber") = numbers
      /\ RowsOf("order") = {o \in Order : orders[o] # NoLine}
      /\ RowsOf("addOnOption") = {a \in Option : Exists(a)}
      /\ RowsOf("addOnGroup") = {g \in Group : Exists(g)}
      /\ RowsOf("product") = {p \in Product : Exists(p)} /\ RowsOf("user") = team
  BY DEF RowsOf
<1>4. \A a \in Option : GroupOf[a] \in Group
  BY RowsAssumption
<1>5. Product \cap Group = {} /\ Product \cap Option = {} /\ Group \cap Option = {}
      /\ Group \subseteq Entry /\ Product \subseteq Entry /\ Option \subseteq Entry
  BY RowsAssumption DEF Entry
<1>6. \A table : Doomed(table) = (RowsOf(table) \ wipe.keep) \cup Gone(table)
  BY DEF Doomed
<1>7. /\ Gone("drawRound") = {} /\ Gone("raffleNumber") = {} /\ Gone("order") = {}
      /\ Gone("addOnOption") = {} /\ Gone("product") = {} /\ Gone("user") = {}
  BY <1>1, <1>3, <1>4, <1>5, TablesApart
<1> HIDE DEF Gone
<1>8. Doomed(Statements[1]) = rounds /\ Doomed(Statements[2]) = numbers /\ Doomed(Statements[7]) = team
  BY <1>1, <1>2, <1>3, <1>5, <1>6, <1>7, TablesApart
<1>9. Doomed(Statements[3]) = {o \in Order : orders[o] # NoLine}
  BY <1>1, <1>2, <1>3, <1>5, <1>6, <1>7, TablesApart
<1>10. /\ Doomed(Statements[4]) = {a \in Option : Exists(a)}
       /\ Doomed(Statements[6]) = {p \in Product : Exists(p)} \ wipe.keep
  BY <1>1, <1>2, <1>3, <1>5, <1>6, <1>7
<1>11. /\ {g \in Group : Exists(g)} \subseteq Doomed(Statements[5])
       /\ Doomed(Statements[5]) \subseteq Group \cup Option
  BY <1>1, <1>2, <1>3, <1>5, <1>6 DEF Gone
<1> QED BY <1>2, <1>8, <1>9, <1>10, <1>11

\* What the statements before the k-th have deleted, in their order.
LEMMA ErasedHas ==
  ASSUME TypeOK, wipe # NoWipe, NEW k \in 1..8
  PROVE  /\ k > 1 => rounds \subseteq ErasedBefore(k)
         /\ k > 2 => numbers \subseteq ErasedBefore(k)
         /\ k > 3 => {o \in Order : orders[o] # NoLine} \subseteq ErasedBefore(k)
         /\ k > 4 => {a \in Option : Exists(a)} \subseteq ErasedBefore(k)
         /\ k > 5 => {g \in Group : Exists(g)} \subseteq ErasedBefore(k)
         /\ k > 6 => {p \in Product : Exists(p)} \ wipe.keep \subseteq ErasedBefore(k)
         /\ k > 7 => team \subseteq ErasedBefore(k)
<1>1. \A i \in 1..7 : i < k => Doomed(Statements[i]) \subseteq ErasedBefore(k)
  BY DEF ErasedBefore
<1>2. /\ k > 1 => Doomed(Statements[1]) \subseteq ErasedBefore(k)
      /\ k > 2 => Doomed(Statements[2]) \subseteq ErasedBefore(k)
      /\ k > 3 => Doomed(Statements[3]) \subseteq ErasedBefore(k)
      /\ k > 4 => Doomed(Statements[4]) \subseteq ErasedBefore(k)
      /\ k > 5 => Doomed(Statements[5]) \subseteq ErasedBefore(k)
      /\ k > 6 => Doomed(Statements[6]) \subseteq ErasedBefore(k)
      /\ k > 7 => Doomed(Statements[7]) \subseteq ErasedBefore(k)
  BY <1>1
<1> QED BY <1>2, DoomedIs

\* Nothing that is left refers to what the next statement deletes.
LEMMA NeverBlocked ==
  ASSUME ResetInv, apart
  PROVE  ~Blocked
<1> SUFFICES ASSUME wipe # NoWipe, wipe.next <= Len(Statements),
                    NEW x \in Doomed(Statements[wipe.next]), x \in Referred
             PROVE  FALSE
  BY DEF Blocked
<1> DEFINE k == wipe.next
<1>1. TypeOK /\ gone = ErasedBefore(k) /\ CatalogueTypeOK /\ \A c \in carriers : orders[c[1]] # NoLine
  BY DEF ResetInv, TypeOK
<1>2. k \in 1..7
  BY <1>1, DoomedIs DEF TypeOK
<1>3. /\ k > 1 => rounds \subseteq gone
      /\ k > 3 => {o \in Order : orders[o] # NoLine} \subseteq gone
  BY <1>1, <1>2, ErasedHas
<1>4. x \in Doomed(Statements[k])
  OBVIOUS
<1> HIDE DEF k
<1>6. CASE \E d \in rounds \ gone : x \in {d[1], d[2], d[3]}
  <2>1. k = 1 /\ x \in Number \cup Order \cup Account
    BY <1>1, <1>2, <1>3, <1>6 DEF TypeOK
  <2> QED BY <1>1, <1>4, <2>1, DoomedIs, TablesApart DEF TypeOK, Round
<1>7. CASE \E o \in Order : orders[o] # NoLine /\ o \notin gone /\ x \in {orders[o].product} \cup Account
  <2>1. k \in 1..3
    BY <1>2, <1>3, <1>7
  <2>2. x \in Entry \cup Account
    BY <1>1, <1>7, LineTypes DEF Entry
  <2>3. CASE k = 1
    BY <1>1, <1>4, <2>2, <2>3, DoomedIs, TablesApart DEF TypeOK, Round
  <2>4. CASE k = 2
    BY <1>1, <1>4, <2>2, <2>4, DoomedIs, TablesApart DEF TypeOK
  <2>5. CASE k = 3
    BY <1>1, <1>4, <2>2, <2>5, DoomedIs, TablesApart
  <2> QED BY <2>1, <2>3, <2>4, <2>5
<1>8. CASE \E c \in carriers : c[1] \notin gone /\ x = c[2]
  BY <1>1, <1>7, <1>8 DEF TypeOK
<1>9. \/ x \in UNION {{d[1], d[2], d[3]} : d \in rounds \ gone}
      \/ x \in {orders[o].product : o \in {q \in Order : orders[q] # NoLine /\ q \notin gone}}
      \/ x \in {c[2] : c \in {d \in carriers : d[1] \notin gone}}
  BY DEF Referred
<1> QED BY <1>6, <1>7, <1>8, <1>9

\* What is done to a catalogue that no reset works on; one that goes on under a
\* reset keeps every row the reset deleted.
LEMMA ServeKeeps ==
  ASSUME ResetInv, ServeCatalogue
  PROVE  ResetInv'
<1>1. CatalogueNext /\ Quiet /\ UNCHANGED <<numbers, rounds, team, carriers, wipe, gone>>
  BY DEF ServeCatalogue, others
<1>2. CatalogueInv'
  BY <1>1, CatalogueKeeps DEF ResetInv
<1>3. CatalogueTypeOK /\ CatalogueTypeOK'
  BY <1>2 DEF ResetInv, CatalogueInv
<1>4. \A e \in Entry : position[e] # 0 => position'[e] # 0
  <2>1. position' = position \/ \E r \in Request : Create(r)
    BY <1>1 DEF CatalogueNext, ReadLast, Fail, UpdateStock, OpenForm, UpdateLinkedProduct,
                PlaceOrder, SellLine, ReturnLine, rows
  <2>2. ASSUME NEW r \in Request, Create(r), NEW e \in Entry, position[e] # 0 PROVE position'[e] # 0
    <3>1. position' = [position EXCEPT ![req[r].entry] = req[r].position] /\ Creating(r)
      BY <2>2 DEF Create, Creating
    <3> QED BY <1>3, <2>2, <3>1, CallTypes DEF CatalogueTypeOK
  <2> QED BY <2>1, <2>2
<1>5. \A o \in Order : orders[o] # NoLine => orders'[o] # NoLine
  <2>1. orders' = orders \/ \E o \in Order : PlaceOrder(o) \/ SellLine(o) \/ ReturnLine(o)
    BY <1>1 DEF CatalogueNext, ReadLast, Create, Fail, UpdateStock, OpenForm, UpdateLinkedProduct, rows
  <2>2. ASSUME NEW o \in Order, PlaceOrder(o), NEW q \in Order, orders[q] # NoLine
        PROVE  orders'[q] # NoLine
    <3>1. orders[o] = NoLine /\ \E l : orders' = [orders EXCEPT ![o] = l]
      BY <2>2 DEF PlaceOrder
    <3> QED BY <1>3, <2>2, <3>1 DEF CatalogueTypeOK
  <2>3. ASSUME NEW o \in Order, SellLine(o) \/ ReturnLine(o), NEW q \in Order, orders[q] # NoLine
        PROVE  orders'[q] # NoLine
    <3>1. PICK s \in {"sold", "rejected"}, a \in Product \cup {NoProduct} :
            orders' = [orders EXCEPT ![o] = [@ EXCEPT !.stage = s, !.along = a]] /\ orders[o] # NoLine
      <4>1. orders[o] # NoLine
        BY <2>3 DEF SellLine, ReturnLine, Sold
      <4>2. LinkedTo(orders[o].option) \in Product \cup {NoProduct}
        BY <1>3, <4>1, LineTypes
      <4>3. CASE SellLine(o)
        BY <4>1, <4>2, <4>3 DEF SellLine
      <4>4. CASE ReturnLine(o)
        BY <4>1, <4>4 DEF ReturnLine
      <4> QED BY <2>3, <4>3, <4>4
    <3>2. orders[o] \in Line
      BY <1>3, <3>1, LineTypes
    <3>3. [orders[o] EXCEPT !.stage = s, !.along = a] \in Line
      BY <3>2 DEF Line
    <3> QED BY <1>3, <2>3, <3>1, <3>3, RowsAssumption DEF CatalogueTypeOK
  <2> QED BY <2>1, <2>2, <2>3
<1>6. TypeOK'
  <2>1. AllRows \subseteq AllRows'
    BY <1>1, <1>4, <1>5 DEF AllRows, Exists
  <2> QED BY <1>1, <1>3, <2>1 DEF ResetInv, TypeOK
<1>7. apart' = apart
  BY <1>1 DEF CatalogueNext, ReadLast, Create, Fail, UpdateStock, OpenForm, UpdateLinkedProduct,
              PlaceOrder, SellLine, ReturnLine
<1>8. \A c \in carriers' : orders'[c[1]] # NoLine
  BY <1>1, <1>5 DEF ResetInv, TypeOK
<1> QED BY <1>1, <1>2, <1>6, <1>7, <1>8 DEF ResetInv, Quiet

\* What is done around the catalogue: numbers configured, draws, deliveries,
\* accounts.
LEMMA AroundKeeps ==
  ASSUME ResetInv,
         \/ \E n \in Number : Configure(n)
         \/ \E n \in Number, o \in Order, u \in Account : Draw(n, o, u)
         \/ \E o \in Order, u \in Account : Deliver(o, u)
         \/ \E u \in Account : Register(u)
  PROVE  ResetInv'
<1>1. /\ Quiet /\ UNCHANGED <<catalogueVars, wipe, gone>>
      /\ numbers \subseteq numbers' /\ rounds \subseteq rounds' /\ team \subseteq team'
  BY DEF Configure, Draw, Deliver, Register
<1>2. UNCHANGED <<position, stock, linked, orders, supplied, req, apart>>
  BY <1>1 DEF catalogueVars, rows
<1>3. CatalogueInv'
  BY <1>1, CatalogueUntouched DEF ResetInv
<1>4. /\ numbers' \subseteq Number /\ team' \subseteq Account
      /\ rounds' \subseteq Number \X Order \X Account
      /\ carriers' \subseteq Order \X Account
      /\ \A c \in carriers' : orders[c[1]] # NoLine
  BY DEF Configure, Draw, Deliver, Register, ResetInv, TypeOK, Sold
<1>5. AllRows \subseteq AllRows'
  BY <1>1, <1>2 DEF AllRows, Exists
<1>6. TypeOK'
  BY <1>1, <1>3, <1>4, <1>5 DEF ResetInv, TypeOK, CatalogueInv
<1> QED BY <1>1, <1>2, <1>3, <1>4, <1>6 DEF ResetInv, Quiet

\* A statement of a reset deletes rows that are there.
LEMMA DoomedRows ==
  ASSUME TypeOK, wipe # NoWipe, wipe.next <= Len(Statements)
  PROVE  Doomed(Statements[wipe.next]) \subseteq AllRows
<1>1. wipe.next \in 1..7
  <2>1. wipe \in [keep : {{}, Combos}, next : 1..8] /\ Len(Statements) = 7
    BY DoomedIs DEF TypeOK
  <2> QED BY <2>1
<1>2. Statements[wipe.next] \in Table
  BY <1>1 DEF Statements, Table
<1>3. \A t \in Table : RowsOf(t) \subseteq AllRows
  BY DEF Table, RowsOf, AllRows, Entry
<1>4. \A a \in Option : Exists(a) => a \in AllRows
  BY DEF AllRows, Entry
<1> QED BY <1>2, <1>3, <1>4 DEF Doomed

\* The steps of a reset that change no row for others.
LEMMA StatementsKeep ==
  ASSUME ResetInv, BeginReset \/ DeleteMany \/ DeleteRefused \/ AbortReset
  PROVE  ResetInv'
<1>1. UNCHANGED <<catalogueVars, numbers, rounds, team, carriers>>
  BY DEF BeginReset, DeleteMany, DeleteRefused, AbortReset, others
<1>2. UNCHANGED <<position, stock, linked, orders, supplied, req, apart>>
  BY <1>1 DEF catalogueVars, rows
<1>3. CatalogueInv' /\ CatalogueTypeOK'
  BY <1>1, CatalogueUntouched DEF ResetInv, CatalogueInv
<1>4. AllRows' = AllRows
  BY <1>1, <1>2 DEF AllRows, Exists
<1>5. \A c \in carriers' : orders'[c[1]] # NoLine
  BY <1>1, <1>2 DEF ResetInv
<1>6. CASE BeginReset
  <2>1. PICK keep \in {{}, Combos} : wipe' = [keep |-> keep, next |-> 1]
    BY <1>6 DEF BeginReset
  <2>2. gone = {} /\ gone' = {}
    BY <1>6 DEF BeginReset, ResetInv, TypeOK
  <2>3. wipe'.next = 1 /\ wipe' \in [keep : {{}, Combos}, next : 1..8]
    BY <2>1
  <2>4. TypeOK'
    BY <1>1, <1>3, <2>2, <2>3 DEF ResetInv, TypeOK
  <2>5. ErasedBefore(wipe.next)' = {}
    BY <2>3 DEF ErasedBefore
  <2> QED BY <1>3, <1>5, <2>2, <2>4, <2>5 DEF ResetInv
<1>7. CASE DeleteMany
  <2> DEFINE k == wipe.next
  <2>1. /\ wipe # NoWipe /\ k <= Len(Statements) /\ TypeOK
        /\ gone' = gone \cup Doomed(Statements[k]) /\ wipe' = [wipe EXCEPT !.next = @ + 1]
    BY <1>7 DEF DeleteMany, ResetInv
  <2>2. wipe \in [keep : {{}, Combos}, next : 1..8] /\ Len(Statements) = 7 /\ k \in 1..7
    BY <2>1, DoomedIs DEF TypeOK
  <2>3. wipe'.keep = wipe.keep /\ wipe'.next = k + 1 /\ wipe' \in [keep : {{}, Combos}, next : 1..8]
    BY <2>1, <2>2
  <2>4. gone' \subseteq AllRows
    BY <2>1, DoomedRows DEF TypeOK
  <2>5. TypeOK'
    BY <1>1, <1>3, <1>4, <2>3, <2>4, NoWipeAssumption DEF ResetInv, TypeOK
  <2>6. \A t : Doomed(t)' = Doomed(t)
    BY <1>1, <1>2, <2>3 DEF Doomed, RowsOf, Exists
  <2> HIDE DEF k
  <2>7. ErasedBefore(k + 1) = ErasedBefore(k) \cup Doomed(Statements[k])
    BY <2>2 DEF ErasedBefore
  <2>8. \A j : ErasedBefore(j)' = ErasedBefore(j)
    BY <2>6 DEF ErasedBefore
  <2>9. apart => gone = ErasedBefore(k)
    BY <2>1 DEF ResetInv, k
  <2>10. apart => gone' = ErasedBefore(wipe.next)'
    BY <2>1, <2>3, <2>7, <2>8, <2>9 DEF k
  <2> QED BY <1>2, <1>3, <1>5, <2>5, <2>10 DEF ResetInv
<1>8. CASE DeleteRefused \/ AbortReset
  <2>1. wipe' = NoWipe /\ gone' = {}
    BY <1>8 DEF DeleteRefused, AbortReset
  <2>2. TypeOK'
    BY <1>1, <1>3, <2>1 DEF ResetInv, TypeOK
  <2> QED BY <1>3, <1>5, <2>1, <2>2 DEF ResetInv
<1> QED BY <1>6, <1>7, <1>8

\* When the statements of a reset that nothing came between are done, every row
\* is deleted but the combos it keeps.
LEMMA AllErased ==
  ASSUME ResetInv, apart, wipe # NoWipe, wipe.next > Len(Statements)
  PROVE  /\ wipe.keep \subseteq Product
         /\ rounds \subseteq gone /\ numbers \subseteq gone /\ team \subseteq gone
         /\ \A o \in Order : orders[o] # NoLine => o \in gone
         /\ \A e \in Entry : Exists(e) /\ e \notin wipe.keep => e \in gone
<1>1. TypeOK /\ gone = ErasedBefore(wipe.next)
  BY DEF ResetInv
<1>2. wipe \in [keep : {{}, Combos}, next : 1..8] /\ Len(Statements) = 7
  BY <1>1, DoomedIs DEF TypeOK
<1>3. wipe.next = 8 /\ wipe.next \in 1..8 /\ wipe.keep \in {{}, Combos}
  BY <1>2
<1>4. gone = ErasedBefore(8)
  BY <1>1, <1>3
<1>5. /\ rounds \subseteq gone /\ numbers \subseteq gone /\ team \subseteq gone
      /\ {o \in Order : orders[o] # NoLine} \subseteq gone
      /\ {a \in Option : Exists(a)} \subseteq gone /\ {g \in Group : Exists(g)} \subseteq gone
      /\ {p \in Product : Exists(p)} \ wipe.keep \subseteq gone
  BY <1>1, <1>4, ErasedHas
<1> QED BY <1>3, <1>5, CombosAssumption DEF Entry

\* The reset commits: the catalogue that is left balances again.
LEMMA CommitResetKeeps ==
  ASSUME ResetInv, CommitReset
  PROVE  ResetInv'
<1>1. /\ wipe # NoWipe /\ wipe.next > Len(Statements)
      /\ TypeOK /\ CatalogueTypeOK /\ CatalogueInv
      /\ \A c \in carriers : orders[c[1]] # NoLine
      /\ apart' = apart
  BY DEF CommitReset, ResetInv, TypeOK
<1>2. /\ position' = [e \in Entry |-> IF e \in gone THEN 0 ELSE position[e]]
      /\ stock' = [p \in Product |-> IF p \in gone THEN 0 ELSE stock[p]]
      /\ linked' = [a \in Option |->
           IF a \in gone \/ linked[a] \in gone THEN NoProduct ELSE linked[a]]
      /\ req' = [r \in Request |-> IF About(r) \cap gone # {} THEN Idle ELSE req[r]]
      /\ numbers' = numbers \ gone /\ rounds' = rounds \ gone /\ team' = team \ gone
      /\ carriers' = {c \in carriers : c[1] \notin gone}
      /\ wipe' = NoWipe /\ gone' = {}
  BY DEF CommitReset
<1> DEFINE Left == {o \in Order \ gone : Sold(o)}
<1>3. supplied' = [p \in Product |-> IF p \in gone \/ ~apart THEN 0 ELSE stock[p] + UnitsOn(orders, Left, p)]
  BY Zenon DEF CommitReset, SoldIn, UnitsOn
<1>4. Left \subseteq SoldOrders /\ IsFiniteSet(Left)
  <2>1. Left \subseteq SoldOrders
    BY DEF SoldOrders
  <2>2. IsFiniteSet(SoldOrders)
    BY <1>1 DEF CatalogueInv
  <2> HIDE DEF Left
  <2> QED BY <2>1, <2>2, FS_Subset
<1>5. \A o \in Order :
        /\ orders'[o] \in Line \cup {NoLine}
        /\ orders'[o] = NoLine <=> (orders[o] = NoLine \/ o \in gone)
        /\ Sold(o)' => Sold(o) /\ o \notin gone
  <2> SUFFICES ASSUME NEW o \in Order
               PROVE  /\ orders'[o] \in Line \cup {NoLine}
                      /\ orders'[o] = NoLine <=> (orders[o] = NoLine \/ o \in gone)
                      /\ orders'[o] # NoLine => orders'[o].stage = orders[o].stage
    BY DEF Sold
  <2>1. orders'[o] = IF o \in gone THEN NoLine
                     ELSE IF orders[o] # NoLine /\ orders[o].option \in gone
                       THEN [orders[o] EXCEPT !.option = NoOption] ELSE orders[o]
    BY DEF CommitReset
  <2>2. orders[o] # NoLine => /\ orders[o] \in Line
                              /\ [orders[o] EXCEPT !.option = NoOption] \in Line
                              /\ [orders[o] EXCEPT !.option = NoOption].stage = orders[o].stage
    <3> SUFFICES ASSUME orders[o] # NoLine
                 PROVE  /\ orders[o] \in Line
                        /\ [orders[o] EXCEPT !.option = NoOption] \in Line
                        /\ [orders[o] EXCEPT !.option = NoOption].stage = orders[o].stage
      OBVIOUS
    <3>1. orders[o] \in Line
      BY <1>1, LineTypes
    <3> QED BY <3>1 DEF Line
  <2> QED BY <2>1, <2>2, RowsAssumption
<1>6. CatalogueTypeOK'
  <2>1. \A p : UnitsOn(orders, Left, p) \in Nat
    <3> HIDE DEF Left
    <3> QED BY <1>4, UnitsSame
  <2> HIDE DEF Left
  <2>2. supplied' \in [Product -> Int] /\ stock' \in [Product -> Int] /\ position' \in [Entry -> Nat]
    BY <1>1, <1>2, <1>3, <2>1 DEF CatalogueTypeOK
  <2>3. orders' \in [Order -> Line \cup {NoLine}]
    <3>1. orders' = [o \in Order |-> orders'[o]]
      BY DEF CommitReset
    <3> QED BY <1>5, <3>1
  <2>4. linked' \in [Option -> Product \cup {NoProduct}] /\ req' \in [Request -> Call \cup {Idle}]
    BY <1>1, <1>2 DEF CatalogueTypeOK
  <2> QED BY <1>1, <2>2, <2>3, <2>4 DEF CatalogueTypeOK
<1>7. IsFiniteSet(Rows') /\ IsFiniteSet(SoldOrders')
  <2>1. Rows' \subseteq Rows /\ SoldOrders' \subseteq SoldOrders
    BY <1>2, <1>5 DEF Rows, SoldOrders, Exists
  <2> QED BY <1>1, <2>1, FS_Subset DEF CatalogueInv
<1>8. \A r \in Request : req'[r] = Idle \/ (req'[r] = req[r] /\ About(r) \cap gone = {})
  BY <1>2
<1>9. \A e \in Entry : position'[e] = 0 \/ (position'[e] = position[e] /\ e \notin gone)
  BY <1>2
<1>10. \A e \in Entry : e \notin gone => position'[e] = position[e]
  BY <1>2
<1>11. ASSUME apart PROVE ListsOK'
  <2>1. ASSUME NEW q \in Request, Creating(q)'
        PROVE  /\ position'[req'[q].entry] = 0
               /\ \A s \in Siblings(req'[q].entry) : position'[s] < req'[q].position
    <3>1. Creating(q) /\ req'[q] = req[q]
      BY <1>8, <2>1 DEF Creating
    <3>2. req[q].entry \in Entry /\ req[q].position \in Nat \ {0} /\ Siblings(req[q].entry) \subseteq Entry
      BY <1>1, <3>1, CallTypes, ListOf
    <3>3. position[req[q].entry] = 0 /\ \A s \in Siblings(req[q].entry) : position[s] < req[q].position
      BY <1>1, <1>11, <3>1 DEF CatalogueInv, ListsOK, Exists
    <3> QED BY <1>9, <3>1, <3>2, <3>3
  <2>2. \A a, b \in Request : a # b /\ Creating(a)' /\ Creating(b)' => req'[b].entry \notin Siblings(req'[a].entry)
    BY <1>1, <1>8, <1>11 DEF CatalogueInv, ListsOK, Creating
  <2> QED BY <2>1, <2>2 DEF ListsOK, Exists
<1>12. ASSUME apart PROVE \A o \in Order : orders'[o] = NoLine
  BY <1>1, <1>5, <1>12, AllErased
<1>13. ASSUME apart PROVE ReferencesOK'
  <2>1. ASSUME NEW a \in Option, linked'[a] # NoProduct PROVE position'[linked'[a]] # 0
    <3>1. linked'[a] = linked[a] /\ linked[a] \notin gone
      BY <1>2, <2>1
    <3>2. linked[a] \in Entry /\ Exists(linked[a])
      BY <1>1, <1>13, <2>1, <3>1 DEF CatalogueInv, ReferencesOK, CatalogueTypeOK, Entry
    <3> QED BY <1>10, <3>1, <3>2 DEF Exists
  <2> QED BY <1>12, <1>13, <2>1 DEF ReferencesOK, Exists, Sold
<1>14. ASSUME apart PROVE FormsOK'
  <2>1. ASSUME NEW q \in Request, Updating(q)'
        PROVE  /\ Updating(q) /\ req'[q] = req[q]
               /\ position'[req[q].entry] # 0 /\ req[q].stock = stock'[req[q].entry]
    <3>1. Updating(q) /\ req'[q] = req[q] /\ About(q) \cap gone = {}
      BY <1>8, <2>1 DEF Updating
    <3>2. req[q].entry \in Product /\ req[q].entry \in Entry /\ req[q].entry \notin gone
      BY <1>1, <3>1, CallTypes DEF About, Updating, Entry
    <3>3. Exists(req[q].entry) /\ req[q].stock = stock[req[q].entry]
      BY <1>1, <1>14, <3>1 DEF CatalogueInv, FormsOK
    <3> QED BY <1>2, <1>10, <3>1, <3>2, <3>3 DEF Exists
  <2> QED BY <1>1, <1>14, <2>1 DEF CatalogueInv, FormsOK, Exists
<1>15. PositionsDistinct'
  <2> SUFFICES ASSUME apart, NEW a \in Entry, NEW b \in Siblings(a) \ {a}, position'[a] # 0
               PROVE  position'[b] # position'[a]
    BY <1>1 DEF PositionsDistinct, Exists, Siblings
  <2>1. b \in Entry
    BY ListOf
  <2>2. position[a] # 0 => position[b] # position[a]
    BY <1>1 DEF CatalogueInv, PositionsDistinct, Exists
  <2> QED BY <1>9, <2>1, <2>2
<1>16. LedgerHolds'
  <2> SUFFICES ASSUME apart, NEW p \in Product
               PROVE  stock'[p] + UnitsOn(orders', SoldOrders', p) = supplied'[p]
    BY <1>1, Zenon DEF LedgerHolds, SoldIn, UnitsOn, SoldOrders
  <2>1. Left = {} /\ SoldOrders' = {}
    BY <1>1, <1>12, AllErased DEF SoldOrders, Sold
  <2>2. UnitsOn(orders, {}, p) = 0 /\ UnitsOn(orders', {}, p) = 0
    BY UnitsNone, FS_EmptySet
  <2>3. UnitsOn(orders, Left, p) = UnitsOn(orders, {}, p)
    BY <2>1, Zenon
  <2>4. UnitsOn(orders', SoldOrders', p) = UnitsOn(orders', {}, p)
    BY <2>1, Zenon
  <2> HIDE DEF Left
  <2>5. stock[p] \in Int
    BY <1>1 DEF CatalogueTypeOK
  <2> QED BY <1>2, <1>3, <2>2, <2>3, <2>4, <2>5
<1>17. CatalogueInv'
  BY <1>1, <1>6, <1>7, <1>11, <1>13, <1>14, <1>15, <1>16 DEF CatalogueInv
<1>18. TypeOK'
  BY <1>1, <1>2, <1>6 DEF TypeOK
<1>19. \A c \in carriers' : orders'[c[1]] # NoLine
  BY <1>1, <1>2, <1>5 DEF TypeOK
<1> QED BY <1>2, <1>17, <1>18, <1>19 DEF ResetInv

-----------------------------------------------------------------------------
\* Every step keeps the invariant.
LEMMA ResetNext == ResetInv /\ [Next]_vars => ResetInv'
<1> SUFFICES ASSUME ResetInv, [Next]_vars PROVE ResetInv'
  OBVIOUS
<1>1. CASE UNCHANGED vars
  <2>1. UNCHANGED <<catalogueVars, numbers, rounds, team, carriers, wipe, gone>>
    BY <1>1 DEF vars, others
  <2>2. UNCHANGED <<position, stock, linked, orders, supplied, req, apart>>
    BY <2>1 DEF catalogueVars, rows
  <2>3. CatalogueInv'
    BY <2>1, CatalogueUntouched DEF ResetInv
  <2>4. TypeOK'
    BY <2>1, <2>2, <2>3 DEF ResetInv, TypeOK, CatalogueInv, AllRows, Exists
  <2>5. \A j : ErasedBefore(j)' = ErasedBefore(j)
    BY <2>1, <2>2 DEF ErasedBefore, Doomed, RowsOf, Exists
  <2> QED BY <2>1, <2>2, <2>3, <2>4, <2>5 DEF ResetInv
<1> QED
  BY <1>1, ServeKeeps, AroundKeeps, StatementsKeep, CommitResetKeeps DEF Next

\* The database that is still empty.
LEMMA ResetInit == Init => ResetInv
<1> SUFFICES ASSUME Init PROVE ResetInv
  OBVIOUS
<1>1. CatalogueInv
  BY InitCatalogue DEF Init
<1> QED BY <1>1 DEF Init, ResetInv, TypeOK, CatalogueInv

\* For any rows, orders and requests, with a reset at any moment: the invariant
\* of the catalogue and its reset.
THEOREM ResetInvariant == Spec => []ResetInv
<1> QED BY ResetInit, ResetNext, PTL DEF Spec

\* The rows, the calls and the reset are of their types.
THEOREM ResetTypes == Spec => []TypeOK
<1>1. ResetInv => TypeOK
  BY DEF ResetInv
<1> QED BY <1>1, ResetInvariant, PTL

\* No two rows of a list have the same position unless two of the list are
\* created at once: the last position is read, and the new row written later.
THEOREM PositionsAreDistinct == Spec => []PositionsDistinct
<1>1. ResetInv => PositionsDistinct
  BY DEF ResetInv, CatalogueInv
<1> QED BY <1>1, ResetInvariant, PTL

\* The stock and what is sold add up to what the administrator put on sale, for
\* any number of administrators and orders, when none of the three overlaps that
\* LedgerHolds names happens: a sale or a return between a form and its save, two
\* forms open on one product, an option linked anew between a sale and its return.
THEOREM LedgerAlwaysHolds == Spec => []LedgerHolds
<1>1. ResetInv => LedgerHolds
  BY DEF ResetInv, CatalogueInv
<1> QED BY <1>1, ResetInvariant, PTL

\* What a reset changes when it ends: nothing, or all but the combos it keeps.
LEMMA ResetLeaves ==
  ASSUME ResetInv, [Next]_vars, apart, wipe # NoWipe, wipe' = NoWipe, AllRows' # AllRows
  PROVE  AllRows' \subseteq wipe.keep
<1>1. CASE CommitReset
  <2>1. /\ rounds \subseteq gone /\ numbers \subseteq gone /\ team \subseteq gone
        /\ \A o \in Order : orders[o] # NoLine => o \in gone
        /\ \A e \in Entry : Exists(e) /\ e \notin wipe.keep => e \in gone
    BY <1>1, AllErased DEF CommitReset
  <2>2. rounds' = {} /\ numbers' = {} /\ team' = {}
    BY <1>1, <2>1 DEF CommitReset
  <2>3. \A o \in Order : orders'[o] = NoLine
    BY <1>1, <2>1 DEF CommitReset
  <2>4. \A e \in Entry : position'[e] # 0 => e \in wipe.keep
    BY <1>1, <2>1 DEF CommitReset, Exists
  <2> QED BY <2>2, <2>3, <2>4 DEF AllRows, Exists
<1>2. CASE DeleteRefused \/ AbortReset
  BY <1>2 DEF DeleteRefused, AbortReset, others, catalogueVars, rows, AllRows, Exists
<1>3. CASE DeleteMany
  <2>1. wipe \in [keep : {{}, Combos}, next : 1..8] /\ wipe.next <= Len(Statements)
    BY <1>3 DEF ResetInv, TypeOK, DeleteMany
  <2>2. Len(Statements) = 7
    BY DoomedIs DEF ResetInv
  <2>3. wipe' \in [keep : {{}, Combos}, next : 1..8]
    BY <1>3, <2>1, <2>2 DEF DeleteMany
  <2> QED BY <2>3, NoWipeAssumption
<1> QED
  BY <1>1, <1>2, <1>3 DEF Next, ServeCatalogue, Configure, Draw, Deliver, Register, BeginReset, vars

\* A reset that nothing comes between is never refused, and leaves nothing but
\* the combos it keeps: the order of the statements of resetFull and
\* resetKeepCombos suits every foreign key, whatever was sold and drawn.
THEOREM ResetIsComplete == Spec => ResetComplete
<1>1. ResetInv => (apart => ~Blocked)
  BY NeverBlocked
<1>2. ResetInv /\ [Next]_vars =>
        [apart /\ wipe # NoWipe /\ wipe' = NoWipe /\ AllRows' # AllRows => AllRows' \subseteq wipe.keep]_vars
  BY ResetLeaves
<1> QED BY <1>1, <1>2, ResetInvariant, PTL DEF Spec, ResetComplete
=============================================================================
