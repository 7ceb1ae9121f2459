------------------------------- MODULE AdminReset -------------------------------
(***************************************************************************)
(* The administrative reset over Catalogue: one transaction that empties   *)
(* the tables one statement after another, while orders are placed, drawn  *)
(* and delivered and rows are created.                                     *)
(*                                                                         *)
(* A row a statement deleted is still there for everybody else until the   *)
(* transaction commits, but whoever writes to it or refers to it waits.    *)
(* A statement fails on rows committed since the earlier ones that refer   *)
(* to what it deletes with ON DELETE RESTRICT.                             *)
(***************************************************************************)
EXTENDS Catalogue, Sequences

CONSTANTS
  Combos,   \* products with type COMBO
  Number,   \* ids of raffle_numbers
  Account,  \* users besides the one of ADMIN_SEED_EMAIL
  NoWipe    \* no reset in progress

ASSUME CombosAssumption == Combos \subseteq Product
ASSUME NoWipeAssumption == NoWipe \notin [keep : {{}, Combos}, next : 1..8]
\* A row is a row of one table.
ASSUME TablesAssumption ==
  LET ids == <<Entry, Number, Order, Account, Number \X Order \X Account>>
  IN  \A i, j \in DOMAIN ids : i # j => ids[i] \cap ids[j] = {}

Table == {"drawRound", "raffleNumber", "order", "addOnOption", "addOnGroup",
          "product", "user"}

VARIABLES
  numbers,  \* rows of raffle_numbers
  rounds,   \* draw_rounds: number, order and who drew
  team,     \* rows of users
  carriers, \* delivery_assignments: order and delivery person
  wipe,     \* the reset in progress, or NoWipe
  gone      \* the rows its statements deleted

others == <<numbers, rounds, team, carriers>>
vars == <<catalogueVars, others, wipe, gone>>

\* Everything that has a row.
AllRows ==
  rounds \cup numbers \cup {o \in Order : orders[o] # NoLine}
    \cup {e \in Entry : Exists(e)} \cup team

TypeOK ==
  /\ CatalogueTypeOK
  /\ numbers \subseteq Number /\ team \subseteq Account
  /\ rounds \subseteq Number \X Order \X Account
  /\ carriers \subseteq Order \X Account
  /\ wipe = NoWipe \/ wipe \in [keep : {{}, Combos}, next : 1..8]
  /\ gone \subseteq AllRows
  /\ wipe = NoWipe => gone = {}

Init ==
  /\ CatalogueInit
  /\ numbers = {} /\ rounds = {} /\ carriers = {}
  /\ team = Account
  /\ wipe = NoWipe /\ gone = {}

-----------------------------------------------------------------------------
(* What goes on around a reset.                                            *)

Quiet == apart => wipe = NoWipe

\* A written row, and one it refers to, is none that the reset has locked.
Unlocked ==
  /\ \A e \in Entry \cap gone :
       /\ position'[e] = position[e]
       /\ e \in Product => stock'[e] = stock[e] /\ supplied'[e] = supplied[e]
       /\ e \in Option => linked'[e] = linked[e]
  /\ \A a \in Option : linked'[a] # linked[a] => linked'[a] \notin gone
  /\ \A a \in Option : ~Exists(a) /\ position'[a] # 0 => GroupOf[a] \notin gone
  /\ \A o \in Order : orders'[o] # orders[o] =>
       {o, orders'[o].product, orders'[o].option} \cap gone = {}

ServeCatalogue ==
  /\ Quiet
  /\ CatalogueNext
  /\ Unlocked
  /\ UNCHANGED <<others, wipe, gone>>

Configure(n) ==
  /\ Quiet
  /\ n \notin numbers
  /\ numbers' = numbers \cup {n}
  /\ UNCHANGED <<catalogueVars, rounds, team, carriers, wipe, gone>>

Draw(n, o, u) ==
  /\ Quiet
  /\ n \in numbers /\ Sold(o) /\ u \in team
  /\ {n, o, u} \cap gone = {}
  /\ \A d \in rounds : d[1] # n
  /\ rounds' = rounds \cup {<<n, o, u>>}
  /\ UNCHANGED <<catalogueVars, numbers, team, carriers, wipe, gone>>

Deliver(o, u) ==
  /\ Quiet
  /\ Sold(o) /\ u \in team
  /\ {o, u} \cap gone = {}
  /\ carriers' = carriers \cup {<<o, u>>}
  /\ UNCHANGED <<catalogueVars, numbers, rounds, team, wipe, gone>>

Register(u) ==
  /\ Quiet
  /\ u \notin team
  /\ team' = team \cup {u}
  /\ UNCHANGED <<catalogueVars, numbers, rounds, carriers, wipe, gone>>

(* resetFull and resetKeepCombos, statement by statement.                  *)

OrdersFirst ==   \* mutant
  <<"order", "drawRound", "raffleNumber", "addOnOption", "addOnGroup", "product", "user">>
Statements ==
  <<"drawRound", "raffleNumber", "order", "addOnOption", "addOnGroup", "product", "user">>

BeginReset ==
  /\ wipe = NoWipe
  /\ \A p \in Product : stock[p] <= MaxStock   \* bound
  /\ \E keep \in {{}, Combos} :
       wipe' = [keep |-> keep, next |-> 1]
  /\ UNCHANGED <<catalogueVars, others, gone>>

RowsOf(table) ==
  CASE table = "drawRound" -> rounds
    [] table = "raffleNumber" -> numbers
    [] table = "order" -> {o \in Order : orders[o] # NoLine}
    [] table = "addOnOption" -> {a \in Option : Exists(a)}
    [] table = "addOnGroup" -> {g \in Group : Exists(g)}
    [] table = "product" -> {p \in Product : Exists(p)}
    [] table = "user" -> team

\* ON DELETE CASCADE: an option goes with its group.
Doomed(table) ==
  LET rowsNow == RowsOf(table) \ wipe.keep IN
  rowsNow \cup {a \in Option : Exists(a) /\ GroupOf[a] \in rowsNow}

\* ON DELETE RESTRICT: a round to its number, order and user, a line to its
\* product, an assignment to its user.
Referred ==
  (UNION {{d[1], d[2], d[3]} : d \in rounds \ gone})
    \cup {orders[o].product : o \in {q \in Order : orders[q] # NoLine /\ q \notin gone}}
    \cup {c[2] : c \in {d \in carriers : d[1] \notin gone}}

Blocked ==
  /\ wipe # NoWipe /\ wipe.next <= Len(Statements)
  /\ Doomed(Statements[wipe.next]) \cap Referred # {}

DeleteMany ==
  LET table == Statements[wipe.next] IN
  /\ wipe # NoWipe /\ wipe.next <= Len(Statements) /\ ~Blocked
  /\ gone' = gone \cup Doomed(table)
  /\ wipe' = [wipe EXCEPT !.next = @ + 1]
  /\ UNCHANGED <<catalogueVars, others>>

\* The statement fails and with it the reset.
DeleteRefused ==
  /\ Blocked
  /\ wipe' = NoWipe /\ gone' = {}
  /\ UNCHANGED <<catalogueVars, others>>

\* The rows a slot's call needs; once they are deleted it can only fail.
About(r) ==
  IF req[r] = Idle THEN {}
  ELSE {req[r].entry} \cup (IF req[r].entry \in Option THEN {GroupOf[req[r].entry]} ELSE {})

\* The rows go, with their links; ON DELETE SET NULL for an order's option and
\* an option's product.
CommitReset ==
  /\ wipe # NoWipe /\ wipe.next > Len(Statements)
  /\ position' = [e \in Entry |-> IF e \in gone THEN 0 ELSE position[e]]
  /\ stock' = [p \in Product |-> IF p \in gone THEN 0 ELSE stock[p]]
  /\ supplied' = [p \in Product |-> IF p \in gone \/ ~apart THEN 0 ELSE
       stock[p] + SoldIn({o \in Order \ gone : Sold(o)}, p)]
  /\ linked' = [a \in Option |->
       IF a \in gone \/ linked[a] \in gone THEN NoProduct ELSE linked[a]]
  /\ orders' = [o \in Order |->
       IF o \in gone THEN NoLine
       ELSE IF orders[o] # NoLine /\ orders[o].option \in gone
              THEN [orders[o] EXCEPT !.option = NoOption] ELSE orders[o]]
  /\ numbers' = numbers \ gone /\ rounds' = rounds \ gone /\ team' = team \ gone
  /\ carriers' = {c \in carriers : c[1] \notin gone}
  /\ req' = [r \in Request |-> IF About(r) \cap gone # {} THEN Idle ELSE req[r]]
  /\ wipe' = NoWipe /\ gone' = {}
  /\ UNCHANGED <<apart>>

\* The connection is lost, or the server stops: nothing was deleted.
AbortReset ==
  /\ wipe # NoWipe
  /\ wipe' = NoWipe /\ gone' = {}
  /\ UNCHANGED <<catalogueVars, others>>

Next ==
  \/ ServeCatalogue
  \/ \E n \in Number : Configure(n)
  \/ \E n \in Number, o \in Order, u \in Account : Draw(n, o, u)
  \/ \E o \in Order, u \in Account : Deliver(o, u)
  \/ \E u \in Account : Register(u)
  \/ BeginReset \/ DeleteMany \/ DeleteRefused \/ CommitReset \/ AbortReset

Spec == Init /\ [][Next]_vars

-----------------------------------------------------------------------------
\* Unless something is committed between its statements, a reset is never
\* refused, whatever was sold, drawn and delivered before (its statements come
\* in an order every foreign key allows), and leaves of all that was there
\* nothing but the combos it keeps.
ResetComplete ==
  /\ [](apart => ~Blocked)
  /\ [][apart /\ wipe # NoWipe /\ wipe' = NoWipe /\ AllRows' # AllRows =>
         AllRows' \subseteq wipe.keep]_vars
=============================================================================
