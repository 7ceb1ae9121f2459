------------------------------ MODULE StockProofs ------------------------------
(***************************************************************************)
(* The statements of the transactions on stock and numbers, for any orders *)
(* and carts.  What a transaction has written so far is what the lines of  *)
(* its cart before the current one add up to; it reaches the committed     *)
(* stock at once, when the order begins or ends to own its number.         *)
(***************************************************************************)
EXTENDS StockTransactions, SumProofs, SequenceTheorems

Quantity(o) == [i \in DOMAIN Carts[o] |-> Carts[o][i].quantity]
LinesOf(o, p) == {i \in DOMAIN Carts[o] : Carts[o][i].product = p}
LinesBefore(o, k, p) == {i \in LinesOf(o, p) : i < k}

\* The units of p on the lines before line k.
Before(o, k, p) == SumFunctionOnSet(Quantity(o), LinesBefore(o, k, p))

\* A cart is a list of lines, and not an empty one.
LEMMA CartLines ==
  ASSUME NEW o \in Order
  PROVE  /\ Carts[o] \in Seq([product : Product, quantity : Nat \ {0}])
         /\ Len(Carts[o]) \in Nat \ {0}
         /\ DOMAIN Carts[o] = 1..Len(Carts[o])
         /\ \A i \in DOMAIN Carts[o] : /\ Carts[o][i].product \in Product
                                       /\ Carts[o][i].quantity \in Nat
                                       /\ Quantity(o)[i] = Carts[o][i].quantity
<1> DEFINE Entry == [product : Product, quantity : Nat \ {0}]
<1>1. Carts[o] \in Seq(Entry) /\ Carts[o] # <<>>
  BY CartsAssumption
<1>2. DOMAIN Carts[o] = 1..Len(Carts[o]) /\ Len(Carts[o]) \in Nat \ {0}
  BY <1>1
<1>3. \A i \in DOMAIN Carts[o] : Carts[o][i] \in Entry
  <2> HIDE DEF Entry
  <2> QED BY <1>1, <1>2, ElementOfSeq
<1> QED
  BY <1>1, <1>2, <1>3 DEF Quantity

\* The lines of a cart are finitely many.
LEMMA LinesFinite ==
  ASSUME NEW o \in Order, NEW p, NEW k
  PROVE  IsFiniteSet(LinesOf(o, p)) /\ IsFiniteSet(LinesBefore(o, k, p))
<1>1. IsFiniteSet(1..Len(Carts[o]))
  BY CartLines, FS_Interval
<1>2. LinesOf(o, p) \subseteq 1..Len(Carts[o]) /\ LinesBefore(o, k, p) \subseteq 1..Len(Carts[o])
  BY CartLines DEF LinesOf, LinesBefore
<1> QED
  BY <1>1, <1>2, FS_Subset

\* Sums over lines are natural numbers.
LEMMA UnitsType ==
  ASSUME NEW o \in Order, NEW p, NEW k
  PROVE  /\ Before(o, k, p) \in Nat
         /\ UnitsIn(o, p) \in Nat
         /\ UnitsIn(o, p) = SumFunctionOnSet(Quantity(o), LinesOf(o, p))
<1>1. UnitsIn(o, p) = SumFunctionOnSet(Quantity(o), LinesOf(o, p))
  BY DEF UnitsIn, Quantity, LinesOf
<1>2. \A i \in LinesOf(o, p) : Quantity(o)[i] \in Nat
  BY CartLines DEF LinesOf
<1>3. \A i \in LinesBefore(o, k, p) : Quantity(o)[i] \in Nat
  BY <1>2 DEF LinesBefore
<1> QED
  BY <1>1, <1>2, <1>3, LinesFinite, SumNotNegative DEF Before

\* Nothing is before the first line.
LEMMA BeforeFirst ==
  ASSUME NEW o \in Order, NEW p
  PROVE  Before(o, 1, p) = 0
<1>1. LinesBefore(o, 1, p) = {}
  BY CartLines DEF LinesBefore, LinesOf
<1> QED
  BY <1>1, SumEmpty DEF Before

\* One line further, its own units are added.
LEMMA BeforeNext ==
  ASSUME NEW o \in Order, NEW k \in DOMAIN Carts[o], NEW p
  PROVE  Before(o, k + 1, p) =
           Before(o, k, p) + IF Carts[o][k].product = p THEN Carts[o][k].quantity ELSE 0
<1>1. k \in Nat /\ Quantity(o)[k] = Carts[o][k].quantity /\ Quantity(o)[k] \in Nat
  BY CartLines
<1> DEFINE S == LinesBefore(o, k, p)
<1>2. IsFiniteSet(S) /\ k \notin S /\ Before(o, k, p) \in Nat
  BY <1>1, LinesFinite, UnitsType DEF LinesBefore
<1>3. CASE Carts[o][k].product = p
  <2>1. LinesBefore(o, k + 1, p) = S \cup {k}
    BY <1>1, <1>3, CartLines DEF LinesBefore, LinesOf
  <2>2. \A i \in S \cup {k} : Quantity(o)[i] \in Int
    BY CartLines DEF LinesBefore, LinesOf
  <2> HIDE DEF S
  <2>3. SumFunctionOnSet(Quantity(o), S \cup {k}) = Quantity(o)[k] + SumFunctionOnSet(Quantity(o), S)
    BY <1>2, <2>2, SumAdd
  <2>4. Before(o, k + 1, p) = SumFunctionOnSet(Quantity(o), S \cup {k})
    BY <2>1, Zenon DEF Before
  <2>5. Before(o, k, p) = SumFunctionOnSet(Quantity(o), S)
    BY Zenon DEF Before, S
  <2> HIDE DEF Before
  <2> QED
    BY <1>1, <1>2, <1>3, <2>3, <2>4, <2>5
<1>4. CASE Carts[o][k].product # p
  <2>1. LinesBefore(o, k + 1, p) = S
    BY <1>1, <1>4, CartLines DEF LinesBefore, LinesOf
  <2> QED
    BY <1>2, <1>4, <2>1 DEF Before
<1> QED
  BY <1>3, <1>4

\* Everything is before the end.
LEMMA BeforeEnd ==
  ASSUME NEW o \in Order, NEW p
  PROVE  Before(o, Len(Carts[o]) + 1, p) = UnitsIn(o, p)
<1>1. LinesBefore(o, Len(Carts[o]) + 1, p) = LinesOf(o, p)
  BY CartLines DEF LinesBefore, LinesOf
<1> QED
  BY <1>1, UnitsType DEF Before

\* A product that is not in the cart adds nothing.
LEMMA NotInCart ==
  ASSUME NEW o \in Order, NEW p, p \notin ProductsOf(o), NEW k
  PROVE  Before(o, k, p) = 0 /\ UnitsIn(o, p) = 0
<1>1. LinesOf(o, p) = {} /\ LinesBefore(o, k, p) = {}
  BY DEF LinesOf, LinesBefore, ProductsOf
<1> QED
  BY <1>1, UnitsType, SumEmpty DEF Before

-----------------------------------------------------------------------------
\* What an open transaction wrote so far.
Written(o) ==
  /\ phase[o] \in {"checking", "decrementing"} =>
       \A p \in Product : delta[o][p] = -Before(o, line[o], p)
  /\ phase[o] \in {"claiming", "opening"} => \A p \in Product : delta[o][p] = -UnitsIn(o, p)
  /\ phase[o] = "incrementing" => \A p \in Product : delta[o][p] = Before(o, line[o], p)
  /\ phase[o] = "closing" => \A p \in Product : delta[o][p] = UnitsIn(o, p)
  /\ phase[o] \in {"idle", "holding", "released", "freeing"} =>
       \A p \in Product : delta[o][p] = 0
  /\ phase[o] \notin {"checking", "decrementing", "incrementing"} => line[o] = 1

\* A number that is being claimed or freed is locked, and free when claimed.
NumbersLocked ==
  \A o \in Order :
    /\ phase[o] \in {"opening", "incrementing", "closing"} => numLock[number[o]] = o
    /\ phase[o] = "opening" => holder[number[o]] = Nobody

\* Unless two takes of a product overlap, what a take read is still there.
StockCovers ==
  apart =>
    /\ \A p \in Product : stock[p] >= 0
    /\ \A o, q \in Order :
         o # q /\ phase[o] \in Taking /\ phase[q] \in Taking =>
           ProductsOf(o) \cap ProductsOf(q) = {}
    /\ \A o \in Order : phase[o] \in Taking => \A p \in Product : Visible(o, p) >= 0
    /\ \A o \in Order : phase[o] = "decrementing" => EnoughStock(o)

StateOK == TypeOK /\ line \in [Order -> Nat]
StockInv ==
  /\ StateOK
  /\ \A o \in Order : Written(o)
  /\ NumbersLocked /\ NumberOwned
  /\ IsFiniteSet(Charged) /\ StockConserved
  /\ StockCovers

-----------------------------------------------------------------------------
\* The units of p that the orders of S took.
Out(S, p) == SumFunctionOnSet([o \in Order |-> UnitsIn(o, p)], S)

\* An order more that owns its number has its own units out of the stock.
LEMMA OutAdd ==
  ASSUME NEW S \in SUBSET Order, IsFiniteSet(S), NEW o \in Order, o \notin S, NEW p
  PROVE  /\ Out(S \cup {o}, p) = UnitsIn(o, p) + Out(S, p)
         /\ Out(S, p) \in Int
         /\ IsFiniteSet(S \cup {o})
<1> DEFINE units == [q \in Order |-> UnitsIn(q, p)]
<1>1. \A q \in S \cup {o} : units[q] \in Int
  BY UnitsType
<1>2. units[o] = UnitsIn(o, p)
  OBVIOUS
<1>3. \A T : Out(T, p) = SumFunctionOnSet(units, T)
  BY Zenon DEF Out
<1> HIDE DEF units
<1>4. SumFunctionOnSet(units, S \cup {o}) = units[o] + SumFunctionOnSet(units, S)
  BY <1>1, SumAdd
<1>5. SumFunctionOnSet(units, S) \in Int
  BY <1>1, SumType
<1> QED BY <1>2, <1>3, <1>4, <1>5, FS_AddElement

\* What an order does to its own row leaves what the others wrote.
LEMMA OthersWritten ==
  ASSUME NEW o \in Order, NEW q \in Order, Written(q), q # o,
         phase'[q] = phase[q], line'[q] = line[q], delta'[q] = delta[q]
  PROVE  Written(q)'
BY DEF Written

\* The state that the orders start from.
LEMMA InitStock == Init => StockInv
<1> SUFFICES ASSUME Init PROVE StockInv
  OBVIOUS
<1>1. StateOK
  BY CartLines, StockAssumption DEF Init, StateOK, TypeOK, NoChange
<1>2. \A o \in Order : Written(o)
  BY DEF Init, Written, NoChange
<1>3. NumbersLocked
  BY DEF Init, NumbersLocked
<1>4. Charged = {}
  BY DEF Init, Charged, Giving
<1>5. StockConserved
  <2>1. \A p \in Product : stock[p] = InitialStock[p] /\ stock[p] \in Int
    BY StockAssumption DEF Init
  <2> QED BY <1>4, <2>1, SumEmpty DEF StockConserved
<1>6. StockCovers
  BY StockAssumption DEF Init, StockCovers, Taking
<1> QED
  BY <1>1, <1>2, <1>3, <1>4, <1>5, <1>6, FS_EmptySet DEF StockInv, NumberOwned

-----------------------------------------------------------------------------
\* A take that begins has written nothing, and in an apart behaviour shares
\* no product with the takes that are open.
LEMMA BeginTakeKeeps ==
  ASSUME StockInv, NEW o \in Order, BeginTake(o)
  PROVE  StockInv'
<1> USE DEF StockInv
<1>1. StateOK'
  BY DEF StateOK, TypeOK, BeginTake, locks, Taking
<1>2. ASSUME NEW q \in Order PROVE Written(q)'
  <2>1. CASE q = o
    <3>1. line[o] = 1 /\ \A p \in Product : delta[o][p] = 0
      BY DEF BeginTake, Written
    <3>2. \A p \in Product : delta'[o][p] = -Before(o, line'[o], p)
      BY <3>1, BeforeFirst DEF BeginTake
    <3> QED BY <2>1, <3>2, <3>1 DEF BeginTake, Written, StateOK, TypeOK
  <2>2. CASE q # o
    BY <2>2, OthersWritten DEF BeginTake, StateOK, TypeOK
  <2> QED BY <2>1, <2>2
<1>3. NumbersLocked'
  BY DEF NumbersLocked, BeginTake, StateOK, TypeOK, locks
<1>4. Charged' = Charged /\ o \notin Charged
  BY DEF Charged, BeginTake, StateOK, TypeOK, Giving
<1>5. NumberOwned'
  BY <1>4 DEF NumberOwned, BeginTake, StateOK, TypeOK, Charged
<1>6. StockConserved'
  BY <1>4 DEF StockConserved, BeginTake
<1>7. StockCovers'
  <2> SUFFICES ASSUME apart PROVE StockCovers'
    BY DEF StockCovers, BeginTake
  <2>1. \A p \in Product : stock[p] >= 0 /\ Visible(o, p) >= 0
    BY DEF StockCovers, Written, BeginTake, Visible, StateOK, TypeOK
  <2>2. \A q \in Order : q # o /\ phase[q] \in Taking => ProductsOf(q) \cap ProductsOf(o) = {}
    BY DEF BeginTake
  <2>3. \A q \in Order : phase'[q] = IF q = o THEN "checking" ELSE phase[q]
    BY DEF BeginTake, StateOK, TypeOK
  <2>4. \A q \in Order : EnoughStock(q)' <=> EnoughStock(q)
    BY DEF EnoughStock, Visible, Item, BeginTake
  <2>5. \A q \in Order : \A p \in Product : Visible(q, p)' = Visible(q, p)
    BY DEF Visible, BeginTake
  <2> QED
    BY <2>1, <2>2, <2>3, <2>4, <2>5 DEF StockCovers, BeginTake
<1> QED BY <1>1, <1>2, <1>3, <1>4, <1>5, <1>6, <1>7

\* The steps that only move an order on to its next statement, or lock the
\* row of its number: the stock, the owners and what was written stay.
LEMMA QuietKeeps ==
  ASSUME StockInv, NEW o \in Order, UNCHANGED <<stock, holder, line, delta, number, rowLock, apart>>,
         CheckStock(o) \/ ClaimNumber(o) \/ BeginGive(o) \/ FreeNumber(o)
  PROVE  StockInv'
<1> USE DEF StockInv
<1>1. PICK s \in {"decrementing", "opening", "freeing", "incrementing"} :
        /\ phase' = [phase EXCEPT ![o] = s]
        /\ s = "decrementing" => phase[o] = "checking" /\ EnoughStock(o)
        /\ s = "opening" => phase[o] = "claiming" /\ holder[number[o]] = Nobody
        /\ s = "freeing" => phase[o] = "holding"
        /\ s = "incrementing" => phase[o] = "freeing"
        /\ s \in {"opening", "incrementing"} =>
             numLock[number[o]] = Nobody /\ numLock' = [numLock EXCEPT ![number[o]] = o]
        /\ s \notin {"opening", "incrementing"} => numLock' = numLock
  BY DEF CheckStock, ClaimNumber, BeginGive, FreeNumber, Available, locks
<1>2. \A q \in Order : phase'[q] = IF q = o THEN s ELSE phase[q]
  BY <1>1 DEF StateOK, TypeOK
<1>3. StateOK'
  BY <1>1 DEF StateOK, TypeOK, Taking, Giving
<1>4. ASSUME NEW q \in Order PROVE Written(q)'
  <2>1. CASE q = o
    <3>1. Written(o)
      OBVIOUS
    <3>2. CASE s = "decrementing"
      BY <1>1, <1>2, <2>1, <3>1, <3>2 DEF Written
    <3>3. CASE s = "opening"
      BY <1>1, <1>2, <2>1, <3>1, <3>3 DEF Written
    <3>4. CASE s = "freeing"
      BY <1>1, <1>2, <2>1, <3>1, <3>4 DEF Written
    <3>5. CASE s = "incrementing"
      <4>1. line[o] = 1 /\ \A p \in Product : delta[o][p] = 0
        BY <1>1, <3>1, <3>5 DEF Written
      <4>2. \A p \in Product : delta'[o][p] = Before(o, line'[o], p)
        BY <4>1, BeforeFirst
      <4> QED BY <1>2, <2>1, <3>5, <4>1, <4>2 DEF Written
    <3> QED BY <3>2, <3>3, <3>4, <3>5
  <2>2. CASE q # o
    BY <1>2, <2>2, OthersWritten
  <2> QED BY <2>1, <2>2
<1>5. NumbersLocked'
  <2>1. \A q \in Order : q # o /\ numLock[number[q]] = q => numLock'[number[q]] = q
    BY <1>1, NobodyAssumption DEF StateOK, TypeOK
  <2>2. s \in {"opening", "incrementing"} => numLock'[number[o]] = o
    BY <1>1 DEF StateOK, TypeOK
  <2> QED BY <1>1, <1>2, <2>1, <2>2 DEF NumbersLocked
<1>6. Charged' = Charged
  BY <1>1, <1>2 DEF Charged, Giving
<1>7. NumberOwned' /\ StockConserved'
  BY <1>6 DEF NumberOwned, StockConserved
<1>8. StockCovers'
  <2>1. \A q \in Order : EnoughStock(q)' <=> EnoughStock(q)
    BY DEF EnoughStock, Visible, Item
  <2>2. \A q \in Order : \A p \in Product : Visible(q, p)' = Visible(q, p)
    BY DEF Visible
  <2>3. \A q \in Order : phase'[q] \in Taking => phase[q] \in Taking
    BY <1>1, <1>2 DEF Taking
  <2>4. \A q \in Order : phase'[q] = "decrementing" => phase[q] = "decrementing" \/ EnoughStock(q)
    BY <1>1, <1>2
  <2> QED BY <2>1, <2>2, <2>3, <2>4 DEF StockCovers
<1> QED BY <1>3, <1>4, <1>5, <1>6, <1>7, <1>8

\* What the write of a line adds, and where the loop goes on.
LEMMA LineWritten ==
  ASSUME StateOK, NEW o \in Order, NEW k \in Int, WriteStock(o, k)
  PROVE  /\ Item(o).product \in Product
         /\ rowLock' \in [Product -> Order \cup {Nobody}]
         /\ delta' \in [Order -> [Product -> Int]]
         /\ \A q \in Order : q # o => delta'[q] = delta[q]
         /\ \A p \in Product : delta'[o][p] = delta[o][p] + IF p = Item(o).product THEN k ELSE 0
<1>1. Item(o).product \in Product
  BY CartLines DEF Item, StateOK, TypeOK
<1> QED
  BY <1>1 DEF WriteStock, StateOK, TypeOK

\* The line after the one written: the next, or the first when it was the last.
LEMMA LineAfter ==
  ASSUME StateOK, NEW o \in Order, NEW s, NEW e, NextLine(o, s, e)
  PROVE  /\ \A q \in Order : q # o => line'[q] = line[q] /\ phase'[q] = phase[q]
         /\ phase'[o] = IF Last(o) THEN e ELSE s
         /\ line'[o] = IF Last(o) THEN 1 ELSE line[o] + 1
         /\ line' \in [Order -> Nat]
         /\ \A q \in Order : line'[q] \in DOMAIN Carts[q]
         /\ \A S : phase \in [Order -> S] /\ s \in S /\ e \in S => phase' \in [Order -> S]
<1>1. /\ line \in [Order -> Nat] /\ phase \in [Order -> {"idle", "holding", "released"} \cup Taking \cup Giving]
      /\ \A q \in Order : line[q] \in DOMAIN Carts[q]
  BY DEF StateOK, TypeOK
<1>2. \A q \in Order : Len(Carts[q]) \in Nat \ {0} /\ DOMAIN Carts[q] = 1..Len(Carts[q])
  BY CartLines
<1>3. line'[o] \in Nat /\ line'[o] \in 1..Len(Carts[o])
  BY <1>1, <1>2 DEF NextLine, Last
<1>4. \A q \in Order : q # o => line'[q] = line[q] /\ phase'[q] = phase[q]
  BY <1>1 DEF NextLine
<1>5. line' \in [Order -> Nat]
  BY <1>1, <1>3, <1>4 DEF NextLine
<1> QED
  BY <1>1, <1>2, <1>3, <1>4, <1>5 DEF NextLine

\* The units before the line after the one written.
LEMMA UnitsAfter ==
  ASSUME StateOK, NEW o \in Order, NEW p
  PROVE  Before(o, line[o], p) + (IF p = Item(o).product THEN Item(o).quantity ELSE 0) =
           IF Last(o) THEN UnitsIn(o, p) ELSE Before(o, line[o] + 1, p)
<1>1. line[o] \in DOMAIN Carts[o]
  BY DEF StateOK, TypeOK
<1>2. Before(o, line[o] + 1, p) = Before(o, line[o], p) + IF p = Item(o).product THEN Item(o).quantity ELSE 0
  BY <1>1, BeforeNext DEF Item
<1>3. Last(o) => Before(o, line[o] + 1, p) = UnitsIn(o, p)
  BY BeforeEnd DEF Last
<1> QED BY <1>2, <1>3

\* A decrement takes units that are there, in an apart behaviour, and the
\* transaction has then written one line more.
LEMMA DecrementKeeps ==
  ASSUME StockInv, NEW o \in Order, DecrementStock(o)
  PROVE  StockInv'
<1> USE DEF StockInv
<1>1. /\ phase[o] = "decrementing"
      /\ WriteStock(o, -Item(o).quantity)
      /\ NextLine(o, "checking", "claiming")
      /\ UNCHANGED <<stock, holder, number, numLock, apart>>
  BY DEF DecrementStock
<1>2. Item(o).quantity \in Nat
  BY CartLines DEF Item, StateOK, TypeOK
<1>3. /\ Item(o).product \in Product
      /\ rowLock' \in [Product -> Order \cup {Nobody}]
      /\ delta' \in [Order -> [Product -> Int]]
      /\ \A q \in Order : q # o => delta'[q] = delta[q]
      /\ \A p \in Product :
           delta'[o][p] = delta[o][p] + IF p = Item(o).product THEN -Item(o).quantity ELSE 0
  BY <1>1, <1>2, LineWritten
<1>4. /\ \A q \in Order : q # o => line'[q] = line[q] /\ phase'[q] = phase[q]
      /\ phase'[o] = IF Last(o) THEN "claiming" ELSE "checking"
      /\ line'[o] = IF Last(o) THEN 1 ELSE line[o] + 1
      /\ line' \in [Order -> Nat]
      /\ \A q \in Order : line'[q] \in DOMAIN Carts[q]
      /\ \A S : phase \in [Order -> S] /\ "checking" \in S /\ "claiming" \in S => phase' \in [Order -> S]
  BY <1>1, LineAfter
<1>5. StateOK'
  BY <1>1, <1>3, <1>4 DEF StateOK, TypeOK, Taking
<1>6. ASSUME NEW q \in Order PROVE Written(q)'
  <2>1. CASE q = o
    <3>1. \A p \in Product : delta[o][p] = -Before(o, line[o], p) /\ Before(o, line[o], p) \in Nat
      BY <1>1, UnitsType DEF Written
    <3>2. \A p \in Product :
            delta'[o][p] = -(Before(o, line[o], p) + IF p = Item(o).product THEN Item(o).quantity ELSE 0)
      BY <1>2, <1>3, <3>1
    <3>3. \A p \in Product :
            delta'[o][p] = -(IF Last(o) THEN UnitsIn(o, p) ELSE Before(o, line[o] + 1, p))
      BY <3>2, UnitsAfter
    <3> QED BY <1>4, <2>1, <3>3 DEF Written
  <2>2. CASE q # o
    BY <1>3, <1>4, <2>2, OthersWritten
  <2> QED BY <2>1, <2>2
<1>7. NumbersLocked'
  BY <1>1, <1>4 DEF NumbersLocked
<1>8. Charged' = Charged
  BY <1>1, <1>4 DEF Charged, Giving
<1>9. NumberOwned' /\ StockConserved'
  BY <1>1, <1>8 DEF NumberOwned, StockConserved
<1>10. StockCovers'
  <2> SUFFICES ASSUME apart PROVE StockCovers'
    BY <1>1 DEF StockCovers
  <2>1. /\ \A p \in Product : stock[p] >= 0 /\ stock[p] \in Int
        /\ \A q \in Order : phase[q] \in Taking => \A p \in Product : Visible(q, p) >= 0
        /\ EnoughStock(o)
    BY <1>1 DEF StockCovers, StateOK, TypeOK
  <2>2. \A p \in Product : Visible(o, p)' >= 0
    <3>1. \A p \in Product : Visible(o, p)' = stock[p] + delta'[o][p]
      BY <1>1 DEF Visible
    <3>2. Visible(o, Item(o).product) >= Item(o).quantity
      BY <2>1 DEF EnoughStock
    <3>3. \A p \in Product : Visible(o, p) >= 0 /\ Visible(o, p) = stock[p] + delta[o][p] /\ delta[o][p] \in Int
      BY <1>1, <2>1 DEF Visible, Taking, StateOK, TypeOK
    <3> QED BY <1>2, <1>3, <2>1, <3>1, <3>2, <3>3
  <2>3. \A q \in Order : phase'[q] \in Taking => phase[q] \in Taking
    BY <1>1, <1>4 DEF Taking
  <2>4. \A q \in Order : phase'[q] = "decrementing" => q # o /\ phase[q] = "decrementing"
    BY <1>4
  <2>5. \A q \in Order : q # o =>
          (EnoughStock(q)' <=> EnoughStock(q)) /\ \A p \in Product : Visible(q, p)' = Visible(q, p)
    BY <1>1, <1>3, <1>4 DEF EnoughStock, Visible, Item
  <2> QED BY <1>1, <2>1, <2>2, <2>3, <2>4, <2>5 DEF StockCovers
<1> QED BY <1>5, <1>6, <1>7, <1>8, <1>9, <1>10

\* An increment: the transaction has given back one line more.
LEMMA IncrementKeeps ==
  ASSUME StockInv, NEW o \in Order, IncrementStock(o)
  PROVE  StockInv'
<1> USE DEF StockInv
<1>1. /\ phase[o] = "incrementing"
      /\ WriteStock(o, Item(o).quantity)
      /\ NextLine(o, "incrementing", "closing")
      /\ UNCHANGED <<stock, holder, number, numLock, apart>>
  BY DEF IncrementStock
<1>2. Item(o).quantity \in Nat
  BY CartLines DEF Item, StateOK, TypeOK
<1>3. /\ Item(o).product \in Product
      /\ rowLock' \in [Product -> Order \cup {Nobody}]
      /\ delta' \in [Order -> [Product -> Int]]
      /\ \A q \in Order : q # o => delta'[q] = delta[q]
      /\ \A p \in Product :
           delta'[o][p] = delta[o][p] + IF p = Item(o).product THEN Item(o).quantity ELSE 0
  BY <1>1, <1>2, LineWritten
<1>4. /\ \A q \in Order : q # o => line'[q] = line[q] /\ phase'[q] = phase[q]
      /\ phase'[o] = IF Last(o) THEN "closing" ELSE "incrementing"
      /\ line'[o] = IF Last(o) THEN 1 ELSE line[o] + 1
      /\ line' \in [Order -> Nat]
      /\ \A q \in Order : line'[q] \in DOMAIN Carts[q]
      /\ \A S : phase \in [Order -> S] /\ "incrementing" \in S /\ "closing" \in S => phase' \in [Order -> S]
  BY <1>1, LineAfter
<1>5. StateOK'
  BY <1>1, <1>3, <1>4 DEF StateOK, TypeOK, Giving
<1>6. ASSUME NEW q \in Order PROVE Written(q)'
  <2>1. CASE q = o
    <3>1. \A p \in Product : delta[o][p] = Before(o, line[o], p)
      BY <1>1 DEF Written
    <3>2. \A p \in Product :
            delta'[o][p] = Before(o, line[o], p) + IF p = Item(o).product THEN Item(o).quantity ELSE 0
      BY <1>2, <1>3, <3>1, UnitsType
    <3>3. \A p \in Product :
            delta'[o][p] = IF Last(o) THEN UnitsIn(o, p) ELSE Before(o, line[o] + 1, p)
      BY <3>2, UnitsAfter
    <3> QED BY <1>4, <2>1, <3>3 DEF Written
  <2>2. CASE q # o
    BY <1>3, <1>4, <2>2, OthersWritten
  <2> QED BY <2>1, <2>2
<1>7. NumbersLocked'
  BY <1>1, <1>4 DEF NumbersLocked
<1>8. Charged' = Charged
  BY <1>1, <1>4 DEF Charged, Giving
<1>9. NumberOwned' /\ StockConserved'
  BY <1>1, <1>8 DEF NumberOwned, StockConserved
<1>10. StockCovers'
  <2>1. \A q \in Order : phase'[q] \in Taking => q # o /\ phase[q] \in Taking
    BY <1>1, <1>4 DEF Taking
  <2>2. \A q \in Order : phase'[q] = "decrementing" => q # o /\ phase[q] = "decrementing"
    BY <1>4
  <2>3. \A q \in Order : q # o =>
          (EnoughStock(q)' <=> EnoughStock(q)) /\ \A p \in Product : Visible(q, p)' = Visible(q, p)
    BY <1>1, <1>3, <1>4 DEF EnoughStock, Visible, Item
  <2> QED BY <1>1, <2>1, <2>2, <2>3 DEF StockCovers
<1> QED BY <1>5, <1>6, <1>7, <1>8, <1>9, <1>10

-----------------------------------------------------------------------------
\* What the end of a transaction leaves: nothing written, no row locked by it.
LEMMA TransactionEnds ==
  ASSUME StateOK, NEW o \in Order, EndTransaction(o)
  PROVE  /\ line' \in [Order -> Nat] /\ \A q \in Order : line'[q] \in DOMAIN Carts[q]
         /\ delta' \in [Order -> [Product -> Int]]
         /\ rowLock' \in [Product -> Order \cup {Nobody}]
         /\ numLock' \in [Number -> Order \cup {Nobody}]
         /\ line'[o] = 1 /\ \A p \in Product : delta'[o][p] = 0
         /\ \A q \in Order : q # o => line'[q] = line[q] /\ delta'[q] = delta[q]
         /\ \A q \in Order, n \in Number : q # o /\ numLock[n] = q => numLock'[n] = q
<1>1. \A q \in Order : 1 \in DOMAIN Carts[q]
  BY CartLines
<1>2. NoChange \in [Product -> Int] /\ \A p \in Product : NoChange[p] = 0
  BY DEF NoChange
<1> QED BY <1>1, <1>2 DEF EndTransaction, StateOK, TypeOK

\* A transaction that cannot go on leaves the committed state as it was.
LEMMA RollbackKeeps ==
  ASSUME StockInv, NEW o \in Order, Open(o), Rollback(o)
  PROVE  StockInv'
<1> USE DEF StockInv
<1>1. /\ EndTransaction(o)
      /\ UNCHANGED <<stock, holder, number, apart>>
      /\ phase' = [phase EXCEPT ![o] = IF @ \in Taking THEN "idle" ELSE "holding"]
  BY DEF Rollback, Undone
<1>2. /\ line' \in [Order -> Nat] /\ \A q \in Order : line'[q] \in DOMAIN Carts[q]
      /\ delta' \in [Order -> [Product -> Int]]
      /\ rowLock' \in [Product -> Order \cup {Nobody}]
      /\ numLock' \in [Number -> Order \cup {Nobody}]
      /\ line'[o] = 1 /\ \A p \in Product : delta'[o][p] = 0
      /\ \A q \in Order : q # o => line'[q] = line[q] /\ delta'[q] = delta[q]
      /\ \A q \in Order, n \in Number : q # o /\ numLock[n] = q => numLock'[n] = q
  BY <1>1, TransactionEnds
<1>3. \A q \in Order : phase'[q] = IF q # o THEN phase[q] ELSE IF phase[o] \in Taking THEN "idle" ELSE "holding"
  BY <1>1 DEF StateOK, TypeOK
<1>4. StateOK'
  BY <1>1, <1>2 DEF StateOK, TypeOK
<1>5. ASSUME NEW q \in Order PROVE Written(q)'
  <2>1. CASE q = o
    BY <1>2, <1>3, <2>1 DEF Written
  <2>2. CASE q # o
    BY <1>2, <1>3, <2>2, OthersWritten
  <2> QED BY <2>1, <2>2
<1>6. NumbersLocked'
  BY <1>1, <1>2, <1>3 DEF NumbersLocked, StateOK, TypeOK
<1>7. Charged' = Charged
  BY <1>3 DEF Charged, Giving, Taking, Open
<1>8. NumberOwned' /\ StockConserved'
  BY <1>1, <1>7 DEF NumberOwned, StockConserved
<1>9. StockCovers'
  <2>1. \A q \in Order : phase'[q] \in Taking => q # o /\ phase[q] \in Taking
    BY <1>3 DEF Taking
  <2>2. \A q \in Order : phase'[q] = "decrementing" => q # o /\ phase[q] = "decrementing"
    BY <1>3
  <2>3. \A q \in Order : q # o =>
          (EnoughStock(q)' <=> EnoughStock(q)) /\ \A p \in Product : Visible(q, p)' = Visible(q, p)
    BY <1>1, <1>2 DEF EnoughStock, Visible, Item
  <2> QED BY <1>1, <2>1, <2>2, <2>3 DEF StockCovers
<1> QED BY <1>4, <1>5, <1>6, <1>7, <1>8, <1>9

\* What a transaction wrote reaches the committed stock when it ends, and the
\* other transactions read it.
LEMMA CommitReaches ==
  ASSUME StateOK, NEW o \in Order, EndTransaction(o), stock' = [p \in Product |-> Visible(o, p)]
  PROVE  /\ stock' \in [Product -> Int]
         /\ \A p \in Product : stock'[p] = stock[p] + delta[o][p]
         /\ \A q \in Order, p \in Product : q # o => Visible(q, p)' = Visible(q, p) + delta[o][p]
<1>1. \A p \in Product : stock'[p] = stock[p] + delta[o][p]
  BY DEF Visible
<1>2. stock \in [Product -> Int] /\ delta \in [Order -> [Product -> Int]]
  BY DEF StateOK, TypeOK
<1>3. stock' \in [Product -> Int]
  BY <1>2 DEF Visible
<1>4. \A q \in Order : q # o => delta'[q] = delta[q]
  BY TransactionEnds
<1> QED BY <1>1, <1>2, <1>3, <1>4 DEF Visible

\* The take is committed: its units leave the stock as the order begins to own
\* the number, which was free and that it alone had locked.
LEMMA CommitTakeKeeps ==
  ASSUME StockInv, NEW o \in Order, CommitTake(o)
  PROVE  StockInv'
<1> USE DEF StockInv
<1>1. /\ phase[o] = "opening"
      /\ EndTransaction(o)
      /\ stock' = [p \in Product |-> Visible(o, p)]
      /\ holder' = [holder EXCEPT ![number[o]] = o]
      /\ phase' = [phase EXCEPT ![o] = "holding"]
      /\ UNCHANGED <<number, apart>>
  BY DEF CommitTake
<1>2. /\ line' \in [Order -> Nat] /\ \A q \in Order : line'[q] \in DOMAIN Carts[q]
      /\ delta' \in [Order -> [Product -> Int]]
      /\ rowLock' \in [Product -> Order \cup {Nobody}]
      /\ numLock' \in [Number -> Order \cup {Nobody}]
      /\ line'[o] = 1 /\ \A p \in Product : delta'[o][p] = 0
      /\ \A q \in Order : q # o => line'[q] = line[q] /\ delta'[q] = delta[q]
      /\ \A q \in Order, n \in Number : q # o /\ numLock[n] = q => numLock'[n] = q
  BY <1>1, TransactionEnds
<1>3. /\ stock' \in [Product -> Int]
      /\ \A p \in Product : stock'[p] = stock[p] + delta[o][p]
      /\ \A q \in Order, p \in Product : q # o => Visible(q, p)' = Visible(q, p) + delta[o][p]
  BY <1>1, CommitReaches
<1>4. \A q \in Order : phase'[q] = IF q # o THEN phase[q] ELSE "holding"
  BY <1>1 DEF StateOK, TypeOK
<1>5. StateOK'
  BY <1>1, <1>2, <1>3 DEF StateOK, TypeOK
<1>6. ASSUME NEW q \in Order PROVE Written(q)'
  <2>1. CASE q = o
    BY <1>2, <1>4, <2>1 DEF Written
  <2>2. CASE q # o
    BY <1>2, <1>4, <2>2, OthersWritten
  <2> QED BY <2>1, <2>2
<1>7. numLock[number[o]] = o /\ holder[number[o]] = Nobody /\ number[o] \in Number
  BY <1>1 DEF NumbersLocked, StateOK, TypeOK
<1>8. NumbersLocked'
  BY <1>1, <1>2, <1>4, <1>7 DEF NumbersLocked, StateOK, TypeOK
<1>9. Charged' = Charged \cup {o} /\ o \notin Charged /\ Charged \subseteq Order
  BY <1>1, <1>4 DEF Charged, Giving
<1>10. NumberOwned'
  <2>1. \A q \in Charged : number[q] # number[o] /\ number[q] \in Number
    BY <1>7, <1>9, NobodyAssumption DEF NumberOwned, StateOK, TypeOK
  <2> QED BY <1>1, <1>7, <1>9, <2>1 DEF NumberOwned, StateOK, TypeOK
<1>11. IsFiniteSet(Charged')
  BY <1>9, FS_AddElement
<1>12. ASSUME NEW p \in Product
       PROVE  stock'[p] + Out(Charged', p) = InitialStock[p]
  <2>1. stock[p] + Out(Charged, p) = InitialStock[p]
    BY DEF StockConserved, Out
  <2>2. delta[o][p] = -UnitsIn(o, p) /\ UnitsIn(o, p) \in Nat
    BY <1>1, UnitsType DEF Written
  <2>3. Out(Charged \cup {o}, p) = UnitsIn(o, p) + Out(Charged, p) /\ Out(Charged, p) \in Int
    BY <1>9, OutAdd
  <2>4. Out(Charged', p) = Out(Charged \cup {o}, p)
    BY <1>9, Zenon
  <2>5. stock[p] \in Int
    BY DEF StateOK, TypeOK
  <2> QED BY <1>3, <2>1, <2>2, <2>3, <2>4, <2>5
<1>13. StockConserved'
  BY <1>12 DEF StockConserved, Out
<1>14. StockCovers'
  <2> SUFFICES ASSUME apart PROVE StockCovers'
    BY <1>1 DEF StockCovers
  <2>1. /\ \A q \in Order : phase[q] \in Taking => \A p \in Product : Visible(q, p) >= 0
        /\ \A q \in Order : phase[q] = "decrementing" => EnoughStock(q)
        /\ \A q \in Order : q # o /\ phase[q] \in Taking => ProductsOf(q) \cap ProductsOf(o) = {}
    BY <1>1 DEF StockCovers, Taking
  <2>2. \A p \in Product : stock'[p] >= 0
    BY <1>1, <1>3, <2>1 DEF Visible, Taking
  <2>3. \A p \in Product : p \notin ProductsOf(o) => delta[o][p] = 0
    BY <1>1, NotInCart DEF Written
  <2>4. \A q \in Order : phase'[q] \in Taking => q # o /\ phase[q] \in Taking
    BY <1>4 DEF Taking
  <2>5. ASSUME NEW q \in Order, phase'[q] \in Taking, NEW p \in Product
        PROVE  Visible(q, p)' >= 0
    <3>1. q # o /\ phase[q] \in Taking
      BY <2>4, <2>5
    <3>2. CASE p \in ProductsOf(o)
      <4>1. delta'[q][p] = 0
        <5>1. p \notin ProductsOf(q)
          BY <2>1, <3>1, <3>2
        <5>2. delta[q][p] = 0
          BY <3>1, <5>1, NotInCart DEF Written, Taking
        <5> QED BY <1>2, <3>1, <5>2
      <4> QED BY <1>3, <2>2, <4>1 DEF Visible
    <3>3. CASE p \notin ProductsOf(o)
      BY <1>3, <2>1, <2>3, <3>1, <3>3 DEF Visible, StateOK, TypeOK
    <3> QED BY <3>2, <3>3
  <2>6. ASSUME NEW q \in Order, phase'[q] = "decrementing"
        PROVE  EnoughStock(q)'
    <3>1. q # o /\ phase[q] = "decrementing" /\ phase[q] \in Taking
      BY <1>4, <2>6 DEF Taking
    <3>2. Item(q)' = Item(q) /\ Item(q).product \in ProductsOf(q) /\ Item(q).product \in Product
      BY <1>2, <3>1, CartLines DEF Item, ProductsOf, StateOK, TypeOK
    <3>3. delta[o][Item(q).product] = 0
      BY <2>1, <2>3, <3>1, <3>2
    <3>4. Visible(q, Item(q).product)' = Visible(q, Item(q).product)
      BY <1>3, <3>1, <3>2, <3>3 DEF Visible, StateOK, TypeOK
    <3> QED BY <2>1, <3>1, <3>2, <3>4 DEF EnoughStock, Visible
  <2>7. \A q, r \in Order :
          q # r /\ phase'[q] \in Taking /\ phase'[r] \in Taking => ProductsOf(q) \cap ProductsOf(r) = {}
    BY <2>4 DEF StockCovers
  <2> QED BY <2>2, <2>5, <2>6, <2>7 DEF StockCovers
<1> QED BY <1>5, <1>6, <1>8, <1>10, <1>11, <1>13, <1>14

\* The return is committed: its units are back in the stock as the order stops
\* owning the number, which it alone had locked.
LEMMA CommitGiveKeeps ==
  ASSUME StockInv, NEW o \in Order, CommitGive(o)
  PROVE  StockInv'
<1> USE DEF StockInv
<1>1. /\ phase[o] = "closing"
      /\ EndTransaction(o)
      /\ stock' = [p \in Product |-> Visible(o, p)]
      /\ holder' = [holder EXCEPT ![number[o]] = Nobody]
      /\ phase' = [phase EXCEPT ![o] = "released"]
      /\ UNCHANGED <<number, apart>>
  BY DEF CommitGive
<1>2. /\ line' \in [Order -> Nat] /\ \A q \in Order : line'[q] \in DOMAIN Carts[q]
      /\ delta' \in [Order -> [Product -> Int]]
      /\ rowLock' \in [Product -> Order \cup {Nobody}]
      /\ numLock' \in [Number -> Order \cup {Nobody}]
      /\ line'[o] = 1 /\ \A p \in Product : delta'[o][p] = 0
      /\ \A q \in Order : q # o => line'[q] = line[q] /\ delta'[q] = delta[q]
      /\ \A q \in Order, n \in Number : q # o /\ numLock[n] = q => numLock'[n] = q
  BY <1>1, TransactionEnds
<1>3. /\ stock' \in [Product -> Int]
      /\ \A p \in Product : stock'[p] = stock[p] + delta[o][p]
      /\ \A q \in Order, p \in Product : q # o => Visible(q, p)' = Visible(q, p) + delta[o][p]
  BY <1>1, CommitReaches
<1>4. \A q \in Order : phase'[q] = IF q # o THEN phase[q] ELSE "released"
  BY <1>1 DEF StateOK, TypeOK
<1>5. StateOK'
  BY <1>1, <1>2, <1>3 DEF StateOK, TypeOK
<1>6. ASSUME NEW q \in Order PROVE Written(q)'
  <2>1. CASE q = o
    BY <1>2, <1>4, <2>1 DEF Written
  <2>2. CASE q # o
    BY <1>2, <1>4, <2>2, OthersWritten
  <2> QED BY <2>1, <2>2
<1>7. o \in Charged /\ holder[number[o]] = o /\ number[o] \in Number
  BY <1>1 DEF Charged, Giving, NumberOwned, StateOK, TypeOK
<1>8. NumbersLocked'
  <2>1. \A q \in Order : holder[number[q]] = Nobody => holder'[number[q]] = Nobody
    BY <1>1 DEF StateOK, TypeOK
  <2> QED BY <1>1, <1>2, <1>4, <2>1 DEF NumbersLocked, StateOK, TypeOK
<1>9. Charged' = Charged \ {o} /\ Charged \subseteq Order
  BY <1>1, <1>4 DEF Charged, Giving
<1>10. NumberOwned'
  <2>1. \A q \in Charged \ {o} : number[q] # number[o] /\ number[q] \in Number
    BY <1>7, <1>9 DEF NumberOwned, StateOK, TypeOK
  <2> QED BY <1>1, <1>9, <2>1 DEF NumberOwned, StateOK, TypeOK
<1>11. IsFiniteSet(Charged')
  BY <1>9, FS_RemoveElement
<1>12. ASSUME NEW p \in Product
       PROVE  stock'[p] + Out(Charged', p) = InitialStock[p]
  <2> DEFINE Others == Charged \ {o}
  <2>1. stock[p] + Out(Charged, p) = InitialStock[p]
    BY DEF StockConserved, Out
  <2>2. delta[o][p] = UnitsIn(o, p) /\ UnitsIn(o, p) \in Nat
    BY <1>1, UnitsType DEF Written
  <2>3. Others \in SUBSET Order /\ IsFiniteSet(Others) /\ o \notin Others
        /\ Charged = Others \cup {o} /\ Charged' = Others
    BY <1>7, <1>9, FS_RemoveElement
  <2> HIDE DEF Others
  <2>4. Out(Others \cup {o}, p) = UnitsIn(o, p) + Out(Others, p) /\ Out(Others, p) \in Int
    BY <2>3, OutAdd
  <2>5. Out(Charged, p) = Out(Others \cup {o}, p) /\ Out(Charged', p) = Out(Others, p)
    BY <2>3, Zenon
  <2>6. stock[p] \in Int
    BY DEF StateOK, TypeOK
  <2> QED BY <1>3, <2>1, <2>2, <2>4, <2>5, <2>6
<1>13. StockConserved'
  BY <1>12 DEF StockConserved, Out
<1>14. StockCovers'
  <2>1. \A p \in Product : delta[o][p] \in Nat
    BY <1>1, UnitsType DEF Written
  <2>2. \A q \in Order : phase'[q] \in Taking => q # o /\ phase[q] \in Taking
    BY <1>4 DEF Taking
  <2>3. \A q \in Order, p \in Product : q # o => Visible(q, p)' >= Visible(q, p) /\ Visible(q, p) \in Int /\ Visible(q, p)' \in Int
    BY <1>3, <2>1 DEF Visible, StateOK, TypeOK
  <2>4. \A p \in Product : stock'[p] >= stock[p]
    BY <1>3, <2>1 DEF StateOK, TypeOK
  <2>5. ASSUME NEW q \in Order, phase'[q] = "decrementing", apart
        PROVE  EnoughStock(q)'
    <3>1. q # o /\ EnoughStock(q)
      BY <1>4, <2>5 DEF StockCovers
    <3>2. Item(q)' = Item(q) /\ Item(q).product \in Product /\ Item(q).quantity \in Nat
      BY <1>2, <3>1, CartLines DEF Item, StateOK, TypeOK
    <3>3. Visible(q, Item(q).product)' >= Item(q).quantity
      BY <2>3, <3>1, <3>2 DEF EnoughStock
    <3> QED BY <3>2, <3>3 DEF EnoughStock, Visible
  <2>6. apart => \A q \in Order : phase'[q] \in Taking => \A p \in Product : Visible(q, p)' >= 0
    BY <2>2, <2>3 DEF StockCovers
  <2>7. apart => \A p \in Product : stock'[p] >= 0
    BY <1>3, <2>4 DEF StockCovers, StateOK, TypeOK
  <2> QED BY <1>1, <2>2, <2>5, <2>6, <2>7 DEF StockCovers
<1> QED BY <1>5, <1>6, <1>8, <1>10, <1>11, <1>13, <1>14

-----------------------------------------------------------------------------
\* Only an open transaction waits, so only an open one is cancelled.
LEMMA DeadlockedOpen == ASSUME NEW o \in Order, InDeadlock(o) PROVE Open(o)
<1>1. \E d : WaitsFor(o, d)
  BY DEF InDeadlock, Deadlocked
<1> QED BY <1>1 DEF WaitsFor, Open, Taking, Giving

\* Every step keeps the invariant.
LEMMA StockNext == StockInv /\ [Next]_vars => StockInv'
<1> SUFFICES ASSUME StockInv, [Next]_vars PROVE StockInv'
  OBVIOUS
<1>1. ASSUME NEW o \in Order, CheckStock(o) \/ ClaimNumber(o) \/ BeginGive(o) \/ FreeNumber(o)
      PROVE  StockInv'
  <2>1. UNCHANGED <<stock, holder, line, delta, number, rowLock, apart>>
    BY <1>1 DEF CheckStock, ClaimNumber, BeginGive, FreeNumber, locks
  <2> QED BY <1>1, <2>1, QuietKeeps
<1>2. ASSUME NEW o \in Order, RefuseStock(o) \/ LoseNumber(o) \/ CancelDeadlock(o) \/ Abort(o)
      PROVE  StockInv'
  <2>1. Open(o) /\ Rollback(o)
    BY <1>2, DeadlockedOpen DEF RefuseStock, LoseNumber, CancelDeadlock, Abort, Open, Taking
  <2> QED BY <2>1, RollbackKeeps
<1>3. ASSUME UNCHANGED vars PROVE StockInv'
  BY <1>3 DEF vars, locks, StockInv, StateOK, TypeOK, Written, NumbersLocked, NumberOwned, Charged,
              StockConserved, StockCovers, Visible, EnoughStock, Item
<1> QED
  BY <1>1, <1>2, <1>3, BeginTakeKeeps, DecrementKeeps, IncrementKeeps, CommitTakeKeeps, CommitGiveKeeps
  DEF Next

\* Whatever is read, written, committed and rolled back in between, for any
\* orders and carts: the invariant of the two transactions.
THEOREM StockInvariant == Spec => []StockInv
<1> QED BY InitStock, StockNext, PTL DEF Spec

\* The states of the two transactions are of their types.
THEOREM StockTypes == Spec => []TypeOK
<1>1. StockInv => TypeOK
  BY DEF StockInv, StateOK
<1> QED BY <1>1, StockInvariant, PTL

\* What is committed and what the owners of a number took add up to the
\* initial stock: decrementProductStock and incrementProductStock lose nothing.
THEOREM StockIsConserved == Spec => []StockConserved
<1>1. StockInv => StockConserved
  BY DEF StockInv
<1> QED BY <1>1, StockInvariant, PTL

\* A raffle number belongs to the order that committed it until it is given
\* back: the updateMany of selectRaffleNumber claims it once.
THEOREM NumberIsOwned == Spec => []NumberOwned
<1>1. StockInv => NumberOwned
  BY DEF StockInv
<1> QED BY <1>1, StockInvariant, PTL

\* Without two open takes of a product, the stock never goes below zero.
THEOREM NothingOversold == Spec => []NoOversell
<1>1. StockInv => NoOversell
  BY DEF StockInv, StockCovers, NoOversell
<1> QED BY <1>1, StockInvariant, PTL
=============================================================================
