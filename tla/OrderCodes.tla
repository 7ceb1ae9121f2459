------------------------------ MODULE OrderCodes ------------------------------
(***************************************************************************)
(* How a new order gets its orderCode, PM-{year}-{sequence}: the checkout  *)
(* reads the last sequence in use, tries to insert its orders with the     *)
(* sequences after it, and when the unique key of orders.orderCode refuses *)
(* one of them it reads again, at most MaxAttempts times.  Reading and     *)
(* inserting are separate steps, between which other checkouts commit and  *)
(* orders are deleted.  The inserts of one checkout are one transaction,   *)
(* here one step (a single order is a group of one).                       *)
(***************************************************************************)
EXTENDS Integers, FiniteSets, FiniteSetsExt

CONSTANTS
  Checkout,     \* requests to POST /orders/public and /orders/public/multi
  Sizes,        \* recipients a checkout may have
  MaxAttempts,  \* ORDER_CODE_COLLISION_MAX_ATTEMPTS
  LastYear      \* bound: the calendar stops here

ASSUME SizesAssumption == Sizes \subseteq Nat \ {0}
ASSUME AttemptsAssumption == MaxAttempts \in Nat \ {0}
ASSUME YearAssumption == LastYear \in Nat \ {0}

VARIABLES
  codes,    \* the orders that exist, by the parts of their orderCode
  year,     \* what new Date().getFullYear() returns
  pc,       \* where each checkout is in its retry loop
  size,     \* its number of recipients
  base,     \* the last sequence it read
  attempt,  \* the attempt it is in
  raced,    \* history: another checkout committed since it last read
  issued    \* history: every code ever given to an order

checkoutVars == <<pc, size, base, attempt>>
codesVars == <<codes, year, checkoutVars, raced, issued>>

Code == [year : Nat, seq : Nat]

CodesTypeOK ==
  /\ codes \subseteq Code
  /\ year \in 1..LastYear
  /\ pc \in [Checkout -> {"idle", "reading", "creating", "created", "rejected", "failed"}]
  /\ size \in [Checkout -> Sizes]
  /\ base \in [Checkout -> Nat]
  /\ attempt \in [Checkout -> 1..MaxAttempts]
  /\ raced \in [Checkout -> BOOLEAN]
  /\ issued \subseteq Code

CodesInit ==
  /\ codes = {}
  /\ year = 1
  /\ pc = [c \in Checkout |-> "idle"]
  /\ size \in [Checkout -> Sizes]
  /\ base = [c \in Checkout |-> 0]
  /\ attempt = [c \in Checkout |-> 1]
  /\ raced = [c \in Checkout |-> FALSE]
  /\ issued = {}

-----------------------------------------------------------------------------
\* The highest sequence among the codes of the orders that exist, whatever
\* their year; the count of the orders is what the code used before.
CountOfOrders(S) == Cardinality(S)   \* mutant
LastOrderSequence(S) == Max({0} \cup {r.seq : r \in S})

\* The codes a checkout asks for, in the year it inserts them.  A group whose
\* inserts straddle the new year would hold codes of both: not distinguished.
Wanted(c) == [year : {year}, seq : (base[c] + 1)..(base[c] + size[c])]

BeginCheckout(c) ==
  /\ pc[c] = "idle"
  /\ pc' = [pc EXCEPT ![c] = "reading"]
  /\ UNCHANGED <<codes, year, size, base, attempt, raced, issued>>

getLastOrderSequence(c) ==
  /\ pc[c] = "reading"
  /\ base' = [base EXCEPT ![c] = LastOrderSequence(codes)]
  /\ pc' = [pc EXCEPT ![c] = "creating"]
  /\ raced' = [raced EXCEPT ![c] = FALSE]
  /\ UNCHANGED <<codes, year, size, attempt, issued>>

\* All the orders of the checkout are inserted, or none.
Create(c) ==
  /\ pc[c] = "creating"
  /\ Wanted(c) \cap codes = {}
  /\ codes' = codes \cup Wanted(c)
  /\ pc' = [pc EXCEPT ![c] = "created"]
  /\ raced' = [d \in Checkout |-> d # c \/ raced[d]]
  /\ issued' = issued \cup Wanted(c)
  /\ UNCHANGED <<year, size, base, attempt>>

\* isOrderCodeCollision: the loop starts over with a fresh read, or gives up.
CollideStale(c) ==   \* mutant
  /\ pc[c] = "creating"
  /\ Wanted(c) \cap codes # {}
  /\ IF attempt[c] = MaxAttempts
       THEN pc' = [pc EXCEPT ![c] = "rejected"] /\ UNCHANGED attempt
       ELSE attempt' = [attempt EXCEPT ![c] = @ + 1] /\ UNCHANGED pc
  /\ UNCHANGED <<codes, year, size, base, raced, issued>>
CollideForever(c) ==   \* mutant
  /\ pc[c] = "creating"
  /\ Wanted(c) \cap codes # {}
  /\ UNCHANGED codesVars
Collide(c) ==
  /\ pc[c] = "creating"
  /\ Wanted(c) \cap codes # {}
  /\ IF attempt[c] = MaxAttempts
       THEN pc' = [pc EXCEPT ![c] = "rejected"] /\ UNCHANGED attempt
       ELSE /\ pc' = [pc EXCEPT ![c] = "reading"]
            /\ attempt' = [attempt EXCEPT ![c] = @ + 1]
  /\ UNCHANGED <<codes, year, size, base, raced, issued>>

\* Any other error leaves the loop at once.
OtherError(c) ==
  /\ pc[c] \in {"reading", "creating"}
  /\ pc' = [pc EXCEPT ![c] = "failed"]
  /\ UNCHANGED <<codes, year, size, base, attempt, raced, issued>>

\* deleteOrder, as far as the codes see it (its tests are in Orders).
ReleaseCode(r) ==
  /\ codes' = codes \ {r}
  /\ UNCHANGED <<year, checkoutVars, raced, issued>>

NewYear ==
  /\ year < LastYear   \* bound
  /\ year' = year + 1
  /\ UNCHANGED <<codes, checkoutVars, raced, issued>>

CodesNext ==
  \/ \E c \in Checkout :
       \/ BeginCheckout(c)
       \/ getLastOrderSequence(c)
       \/ Create(c)
       \/ Collide(c)
       \/ OtherError(c)
  \/ \E r \in codes : ReleaseCode(r)
  \/ NewYear

\* The server goes on with a checkout it has begun: its next query is sent
\* when the previous one is answered, and the database answers.
Fairness == \A c \in Checkout :
              WF_codesVars(getLastOrderSequence(c) \/ Create(c) \/ Collide(c))

CodesSpec == CodesInit /\ [][CodesNext]_codesVars
FairCodesSpec == CodesSpec /\ Fairness

-----------------------------------------------------------------------------
\* A code is refused only because another checkout committed since it was
\* computed, never because orders were deleted (orders.service.ts:953-961).
CollisionsAreRaces ==
  \A c \in Checkout :
    pc[c] = "creating" /\ Wanted(c) \cap codes # {} => raced[c]

\* A checkout gives up only after losing that many races, each to a different
\* checkout: fewer concurrent buyers than attempts never see the error
\* (orders.service.ts:939-942).
RejectedAfterRaces ==
  \A c \in Checkout :
    pc[c] = "rejected" =>
      Cardinality({d \in Checkout : pc[d] = "created"}) >= MaxAttempts

\* Every checkout that begins is answered, however the others interleave.
Answered ==
  \A c \in Checkout :
    pc[c] = "reading" ~> pc[c] \in {"created", "rejected", "failed"}

\* A code that was given to an order, even to one deleted since, is never
\* given to another (orders.service.ts:88-91, 953-957).
CodesNeverReused ==
  [][\A r \in codes' \ codes : r \notin issued]_codesVars
=============================================================================
