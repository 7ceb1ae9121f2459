------------------------------ MODULE RaffleAdmin ------------------------------
(***************************************************************************)
(* The administration of the raffle over the service of Orders: how many   *)
(* numbers there are (configure, and the seed at start-up), and the reset  *)
(* that deletes them all while orders hold them.                           *)
(*                                                                         *)
(* configure counts the numbers and then creates the missing ones, and the *)
(* reset deletes the rounds and then the numbers: two statements each,     *)
(* between which other transactions commit.                                *)
(***************************************************************************)
EXTENDS Orders, FiniteSets

CONSTANTS
  Total,   \* bound: the largest count that is configured
  Admin,   \* configurations in progress at the same time
  NoConf   \* a slot with no configuration

ASSUME NumberAssumption == Total \in Nat /\ Number = 1..Total

\* A configuration that counted the rows and is going to create the others.
Configuration == [count : 1..Total, existing : 0..Total]
ASSUME ConfAssumption == NoConf \notin Configuration

NoReset == -1   \* no reset in progress

VARIABLES
  rows,     \* the numbers that have a row in raffle_numbers
  conf,     \* what each slot is doing
  cleared,  \* how many rounds a reset in progress has deleted, or NoReset
  orphans,  \* the orders whose number a reset deleted
  apart     \* whether no reset overlaps with a configuration in this behaviour
            \* (the code lets it)

adminVars == <<rows, conf, cleared, orphans, apart>>
raffleVars == <<vars, adminVars>>

RaffleTypeOK ==
  /\ TypeOK
  /\ rows \subseteq Number
  /\ conf \in [Admin -> Configuration \cup {NoConf}]
  /\ cleared \in {NoReset} \cup Nat
  /\ orphans \subseteq Order
  /\ apart \in BOOLEAN

RaffleInit ==
  /\ Init
  /\ rows = {}
  /\ conf = [a \in Admin |-> NoConf]
  /\ cleared = NoReset
  /\ orphans = {}
  /\ apart \in BOOLEAN

-----------------------------------------------------------------------------
\* A request about an order, or a draw: a number can be chosen if it has a row.
ServeOrders ==
  /\ Next
  /\ \A n \in Number : holder'[n] # NoOrder => n \in rows
  /\ UNCHANGED adminVars

(* configure, up to its createMany: a smaller total is refused, an equal    *)
(* one is answered at once.                                                *)
CountNumbers(a) ==
  /\ conf[a] = NoConf
  /\ apart => cleared = NoReset
  /\ \E count \in Number :
       /\ count > Cardinality(rows)
       /\ conf' = [conf EXCEPT ![a] = [count |-> count, existing |-> Cardinality(rows)]]
  /\ UNCHANGED <<vars, rows, cleared, orphans, apart>>

MissingButFirst(c) == (c.existing + 2)..c.count   \* mutant
Missing(c) == (c.existing + 1)..c.count

\* raffle_numbers.number is unique.
RangeFree(c) == Missing(c) \cap rows = {}

CreateNumbers(a) ==
  /\ conf[a] # NoConf
  /\ RangeFree(conf[a])
  /\ rows' = rows \cup Missing(conf[a])
  /\ conf' = [conf EXCEPT ![a] = NoConf]
  /\ UNCHANGED <<vars, cleared, orphans, apart>>

\* The unique key refuses the range, or the transaction fails.
ConfigureFails(a) ==
  /\ conf[a] # NoConf
  /\ conf' = [conf EXCEPT ![a] = NoConf]
  /\ UNCHANGED <<vars, rows, cleared, orphans, apart>>

(* resetAll: the rounds and then the numbers; orders, payments and stock    *)
(* stay as they are.  Until it commits everybody else sees both.            *)
ClearRounds ==
  /\ cleared = NoReset
  /\ apart => \A a \in Admin : conf[a] = NoConf
  /\ cleared' = Len(rounds)
  /\ UNCHANGED <<vars, rows, conf, orphans, apart>>

KeptRounds == rounds   \* mutant
RoundsAfterReset == <<>>

\* Every number goes, also those chosen since the first statement; a round
\* drawn since then refers to its number (ON DELETE RESTRICT) and keeps it.
resetAll ==
  /\ cleared = Len(rounds)
  /\ rounds' = RoundsAfterReset
  /\ rows' = {}
  /\ holder' = [n \in Number |-> NoOrder]
  /\ numStatus' = [n \in Number |-> "AVAILABLE"]
  /\ drawn' = [n \in Number |-> FALSE]
  /\ orphans' = orphans \cup {o \in Order : HoldsNumber(o)}
  /\ cleared' = NoReset
  /\ UNCHANGED <<orderRows, productRows, conf, apart>>

\* A round drawn meanwhile refuses the second statement, or the transaction
\* fails: nothing was deleted.
ResetFails ==
  /\ cleared # NoReset
  /\ cleared' = NoReset
  /\ UNCHANGED <<vars, rows, conf, orphans, apart>>

RaffleNext ==
  \/ ServeOrders
  \/ \E a \in Admin : CountNumbers(a) \/ CreateNumbers(a) \/ ConfigureFails(a)
  \/ ClearRounds \/ resetAll \/ ResetFails

RaffleSpec == RaffleInit /\ [][RaffleNext]_raffleVars

-----------------------------------------------------------------------------
\* The numbers of the raffle are 1, 2, ... without a hole, however
\* configurations overlap and fail: two that counted the same rows collide on
\* the unique key.  A reset that overlaps with a configuration does leave a
\* hole, which is why that pair must be kept apart.
Contiguous == apart => rows = 1..Cardinality(rows)

\* An order from its choice on owns a number, and no other order does, unless
\* a reset took it; then it never gets one again, and it can win no draw, not
\* even of the numbers created later.  That holds also when a number is chosen
\* or drawn between the two statements of the reset: every round is of a number
\* that is there.
SoldOrOrphaned ==
  /\ \A o \in Order :
       /\ o \notin orphans => (HoldsNumber(o) <=> status[o] \in Reserving)
       /\ o \in orphans => ~HoldsNumber(o) /\ ~InDraw(o)
  /\ \A n \in Number :
       /\ numStatus[n] = "ASSIGNED" <=> holder[n] # NoOrder
       /\ drawn[n] => n \in rows
  /\ \A i \in DOMAIN rounds : rounds[i].number \in rows

\* A reset of the raffle does not touch the books of the stock: what the
\* orders in payment or later took is out of stock, also when their number is
\* gone, and a rejection gives it back.  Only an order without its number
\* that is deleted takes its units along (orders.service.ts:552).
BooksSurviveReset ==
  \A p \in Product :
    LET sold == UnitsOf({o \in Order : status[o] \in Reserving}, p) IN
    /\ stock[p] + sold <= InitialStock[p]
    /\ (\A o \in orphans : Exists(o)) => stock[p] + sold = InitialStock[p]
=============================================================================
