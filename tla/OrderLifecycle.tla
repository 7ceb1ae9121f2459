---------------------------- MODULE OrderLifecycle ----------------------------
(***************************************************************************)
(* What the order service promises of one order, whatever tables it keeps: *)
(* the dedication is approved before a raffle number can be chosen, the    *)
(* chosen number is the order's alone until the payment is rejected or the *)
(* order is removed, only a confirmed payment is ever delivered, and no    *)
(* stage is entered twice except the review of the dedication.             *)
(***************************************************************************)
CONSTANTS Order, Number, NoNumber

VARIABLES
  stage,   \* how far each order is
  number   \* the raffle number each order owns, or NoNumber

vars == <<stage, number>>

Stage == {"unused", "review", "ready", "reserved", "paid", "route",
          "delivered", "cancelled", "released", "removed"}

\* The stages in which an order owns a number.
Owning == {"reserved", "paid", "route", "delivered", "cancelled"}

TypeOK == /\ stage \in [Order -> Stage]
          /\ number \in [Order -> Number \cup {NoNumber}]

Init == /\ stage = [o \in Order |-> "unused"]
        /\ number = [o \in Order |-> NoNumber]

Free(n) == \A o \in Order : number[o] # n

\* A checkout places one order, or one per recipient; those without a
\* dedication have nothing to review.
Place(S, lettered) ==
  /\ S # {} /\ \A o \in S : stage[o] = "unused"
  /\ stage' = [o \in Order |-> IF o \notin S THEN stage[o]
                               ELSE IF o \in lettered THEN "review" ELSE "ready"]
  /\ UNCHANGED number

Approve(o) ==
  /\ stage[o] = "review"
  /\ stage' = [stage EXCEPT ![o] = "ready"]
  /\ UNCHANGED number

Reserve(o, n) ==
  /\ stage[o] = "ready" /\ Free(n)
  /\ stage' = [stage EXCEPT ![o] = "reserved"]
  /\ number' = [number EXCEPT ![o] = n]

\* The payment of the orders S is confirmed or rejected in one step.
Confirm(S) ==
  /\ S # {} /\ \A o \in S : stage[o] = "reserved"
  /\ stage' = [o \in Order |-> IF o \in S THEN "paid" ELSE stage[o]]
  /\ UNCHANGED number

Release(S) ==
  /\ S # {} /\ \A o \in S : stage[o] = "reserved"
  /\ stage' = [o \in Order |-> IF o \in S THEN "released" ELSE stage[o]]
  /\ number' = [o \in Order |-> IF o \in S THEN NoNumber ELSE number[o]]

Deliver(o, s) ==
  /\ stage[o] \in {"paid", "route"}
  /\ s \in {"route", "delivered", "cancelled"}
  /\ stage' = [stage EXCEPT ![o] = s]
  /\ UNCHANGED number

Remove(o) ==
  /\ stage[o] \notin {"unused", "delivered", "removed"}
  /\ stage' = [stage EXCEPT ![o] = "removed"]
  /\ number' = [number EXCEPT ![o] = NoNumber]

Next ==
  \/ \E S \in SUBSET Order : \/ \E lettered \in SUBSET S : Place(S, lettered)
                             \/ Confirm(S)
                             \/ Release(S)
  \/ \E o \in Order : \/ Approve(o)
                      \/ \E n \in Number : Reserve(o, n)
                      \/ \E s \in Stage : Deliver(o, s)
                      \/ Remove(o)

Spec == Init /\ [][Next]_vars

-----------------------------------------------------------------------------
(* A raffle number has at most one owner, and an order owns one exactly    *)
(* from the choice of the number to the rejection of its payment or its    *)
(* removal (orders.service.ts, selectRaffleNumber to deleteOrder).         *)
SoleOwner ==
  /\ \A o \in Order : stage[o] \in Owning <=> number[o] # NoNumber
  /\ \A o1, o2 \in Order :
       number[o1] = number[o2] /\ number[o1] # NoNumber => o1 = o2
=============================================================================
