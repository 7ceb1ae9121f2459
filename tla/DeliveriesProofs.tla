-------------------------- MODULE DeliveriesProofs --------------------------
(***************************************************************************)
(* Proofs of the safety properties of Deliveries for any number of         *)
(* requests, orders and reports.                                           *)
(***************************************************************************)
EXTENDS Deliveries, SumProofs, SequenceTheorems

-----------------------------------------------------------------------------
(* Sequences of rows                                                       *)

\* No two places of a sequence of rows hold the same id.
OneEach(s) == \A i, j \in DOMAIN s : s[i].id = s[j].id => i = j
\* The row that r created and has not committed.
Created(x, r) == Own(x, r) /\ ~Seen(x)

\* A sequence whose elements are in a smaller set is a sequence over it.
LEMMA SeqOver ==
  ASSUME NEW S, NEW T, NEW s \in Seq(S), \A i \in 1..Len(s) : s[i] \in T
  PROVE  s \in Seq(T)
<1>1. Len(s) \in Nat /\ s = [i \in 1..Len(s) |-> s[i]]
  BY LenProperties
<1>2. [i \in 1..Len(s) |-> s[i]] \in Seq(T)
  BY <1>1, IsASeq
<1> QED BY <1>1, <1>2

\* What a sequence is without its element at k.
LEMMA WithoutPlace ==
  ASSUME NEW S, NEW s \in Seq(S), NEW k \in 1..Len(s)
  PROVE  /\ RemoveAt(s, k) \in Seq(S)
         /\ Len(RemoveAt(s, k)) = Len(s) - 1
         /\ \A i \in 1..(Len(s) - 1) :
              RemoveAt(s, k)[i] = IF i < k THEN s[i] ELSE s[i + 1]
<1> DEFINE a == SubSeq(s, 1, k - 1)
           b == SubSeq(s, k + 1, Len(s))
<1>1. Len(s) \in Nat /\ k \in Nat /\ k >= 1 /\ k <= Len(s)
  BY LenProperties
<1>2. /\ a \in Seq(S) /\ Len(a) = k - 1
      /\ \A i \in 1..(k - 1) : a[i] = s[i]
  <2>1. \A i \in 1..(k - 1) : s[i] \in S
    BY <1>1, ElementOfSeq
  <2>2. /\ a \in Seq(S) /\ Len(a) = IF 1 <= k - 1 THEN k - 1 - 1 + 1 ELSE 0
        /\ \A i \in 1..(k - 1 - 1 + 1) : a[i] = s[1 + i - 1]
    BY <1>1, <2>1, SubSeqProperties
  <2> HIDE DEF a
  <2> QED BY <1>1, <2>2
<1>3. /\ b \in Seq(S) /\ Len(b) = Len(s) - k
      /\ \A i \in 1..(Len(s) - k) : b[i] = s[k + i]
  <2>1. \A i \in (k + 1)..Len(s) : s[i] \in S
    BY <1>1, ElementOfSeq
  <2>2. /\ b \in Seq(S) /\ Len(b) = IF k + 1 <= Len(s) THEN Len(s) - (k + 1) + 1 ELSE 0
        /\ \A i \in 1..(Len(s) - (k + 1) + 1) : b[i] = s[k + 1 + i - 1]
    BY <1>1, <2>1, SubSeqProperties
  <2> HIDE DEF b
  <2> QED BY <1>1, <2>2
<1>4. RemoveAt(s, k) = a \o b
  BY DEF RemoveAt
<1> HIDE DEF a, b
<1>5. /\ a \o b \in Seq(S) /\ Len(a \o b) = Len(a) + Len(b)
      /\ \A i \in 1..(Len(a) + Len(b)) : (a \o b)[i] = IF i <= Len(a) THEN a[i] ELSE b[i - Len(a)]
  BY <1>2, <1>3, ConcatProperties
<1> QED BY <1>1, <1>2, <1>3, <1>4, <1>5

\* Another order, or the same rows in another form: a map that keeps the ids.
LEMMA RowsMapped ==
  ASSUME NEW s \in Seq(Row), NEW t, NEW r, t = [i \in DOMAIN s |-> Settled(s[i], r)]
  PROVE  /\ t \in Seq(Row)
         /\ OneEach(s) => OneEach(t)
         /\ Range(t) = {Settled(x, r) : x \in Range(s)}
<1>1. /\ Len(s) \in Nat /\ DOMAIN s = 1..Len(s)
      /\ \A i \in 1..Len(s) : s[i] \in Row
  BY LenProperties, ElementOfSeq
<1>2. \A x \in Row : Settled(x, r) \in Row /\ Settled(x, r).id = x.id
  BY DEF Settled, Own, Row
<1>3. t = [i \in 1..Len(s) |-> Settled(s[i], r)]
  BY <1>1
<1>4. [i \in 1..Len(s) |-> Settled(s[i], r)] \in Seq(Row)
  BY <1>1, <1>2, IsASeq
<1>5. Range(t) = {Settled(x, r) : x \in Range(s)}
  BY <1>1, <1>3 DEF Range
<1> QED BY <1>1, <1>2, <1>3, <1>4, <1>5 DEF OneEach
\* What is left of the rows without r: its created row is gone, the others
\* say again what they said.
LEMMA RowsUndone ==
  ASSUME NEW s \in Seq(Row), NEW r \in Request, OneEach(s),
         \A x, y \in Range(s) : Created(x, r) /\ Created(y, r) => x = y
  PROVE  /\ Undone(s, r) \in Seq(Row)
         /\ OneEach(Undone(s, r))
         /\ Range(Undone(s, r)) = {Restored(x, r) : x \in {y \in Range(s) : ~Created(y, r)}}
<1> DEFINE Mid == [id : Nat \ {0}, status : Report \cup {"VOID"}, before : Report \cup {"VOID"},
                   writer : Request \cup {Nobody}]
           was == [i \in DOMAIN s |-> Restored(s[i], r)]
           new == {i \in DOMAIN s : Own(s[i], r) /\ ~Seen(s[i])}
<1>1. /\ Len(s) \in Nat /\ DOMAIN s = 1..Len(s)
      /\ \A i \in 1..Len(s) : s[i] \in Row
  BY LenProperties, ElementOfSeq
<1>2. \A x \in Row : /\ Restored(x, r) \in Mid /\ Restored(x, r).id = x.id
                     /\ ~Created(x, r) => Restored(x, r) \in Row
  <2> SUFFICES ASSUME NEW x \in Row
               PROVE  /\ Restored(x, r) \in Mid /\ Restored(x, r).id = x.id
                      /\ ~Created(x, r) => Restored(x, r) \in Row
    OBVIOUS
  <2>1. CASE x.writer = r
    <3>1. Restored(x, r) = [id |-> x.id, status |-> x.before, before |-> "VOID", writer |-> Nobody]
      BY <2>1 DEF Restored, Settled, Own, Row
    <3>2. ~Created(x, r) => x.before \in Report
      BY <2>1, SlotsAssumption DEF Created, Own, Seen, Row
    <3> QED BY <3>1, <3>2 DEF Row
  <2>2. CASE x.writer # r
    BY <2>2 DEF Restored, Settled, Own, Row
  <2> QED BY <2>1, <2>2
<1>3. /\ was = [i \in 1..Len(s) |-> Restored(s[i], r)]
      /\ was \in Seq(Mid) /\ Len(was) = Len(s) /\ DOMAIN was = 1..Len(s)
      /\ \A i \in 1..Len(s) : was[i] = Restored(s[i], r)
  <2>1. was = [i \in 1..Len(s) |-> Restored(s[i], r)]
    BY <1>1
  <2>2. [i \in 1..Len(s) |-> Restored(s[i], r)] \in Seq(Mid)
    <3> HIDE DEF Mid
    <3> QED BY <1>1, <1>2, IsASeq
  <2>3. DOMAIN was = 1..Len(s)
    BY <2>1
  <2>4. Len(was) \in Nat /\ DOMAIN was = 1..Len(was)
    <3> HIDE DEF Mid, was
    <3> QED BY <2>1, <2>2, LenProperties
  <2>5. Len(was) = Len(s)
    BY <1>1, <2>3, <2>4
  <2> QED BY <1>1, <2>1, <2>2, <2>3, <2>5
<1>4. /\ new \subseteq 1..Len(s)
      /\ \A i \in 1..Len(s) : i \in new <=> Created(s[i], r)
  BY <1>1 DEF Created
<1>5. Undone(s, r) = IF new = {} THEN was ELSE RemoveAt(was, CHOOSE i \in new : TRUE)
  BY DEF Undone
<1> HIDE DEF was, new, Mid
<1>6. CASE new = {}
  <2>1. \A i \in 1..Len(s) : was[i] \in Row
    BY <1>1, <1>2, <1>3, <1>4, <1>6
  <2>2. was \in Seq(Row)
    BY <1>3, <2>1, SeqOver
  <2>3. Range(was) = {Restored(x, r) : x \in {y \in Range(s) : ~Created(y, r)}}
    <3>1. {y \in Range(s) : ~Created(y, r)} = Range(s)
      BY <1>1, <1>4, <1>6 DEF Range
    <3>2. Range(was) = {Restored(x, r) : x \in Range(s)}
      BY <1>1, <1>3 DEF Range
    <3> QED BY <3>1, <3>2
  <2>4. OneEach(was)
    BY <1>1, <1>2, <1>3 DEF OneEach
  <2> QED BY <1>5, <1>6, <2>2, <2>3, <2>4
<1>7. CASE new # {}
  <2> DEFINE k == CHOOSE i \in new : TRUE
             u == RemoveAt(was, k)
  <2>1. k \in new /\ k \in 1..Len(s) /\ k \in 1..Len(was)
    BY <1>3, <1>4, <1>7
  <2>2. \A i \in 1..Len(s) : Created(s[i], r) <=> i = k
    BY <1>1, <1>4, <2>1 DEF OneEach, Range
  <2> HIDE DEF k
  <2>3. /\ u \in Seq(Mid) /\ Len(u) = Len(s) - 1
        /\ \A i \in 1..(Len(s) - 1) : u[i] = IF i < k THEN was[i] ELSE was[i + 1]
    BY <1>3, <2>1, WithoutPlace
  <2>4. u = Undone(s, r)
    BY <1>5, <1>7 DEF k
  <2> HIDE DEF u
  <2> DEFINE at(i) == IF i < k THEN i ELSE i + 1
  <2>5. \A i \in 1..(Len(s) - 1) :
          /\ at(i) \in 1..Len(s) /\ at(i) # k
          /\ u[i] = Restored(s[at(i)], r) /\ u[i] \in Row /\ u[i].id = s[at(i)].id
    <3> SUFFICES ASSUME NEW i \in 1..(Len(s) - 1)
                 PROVE  /\ at(i) \in 1..Len(s) /\ at(i) # k
                        /\ u[i] = Restored(s[at(i)], r) /\ u[i] \in Row /\ u[i].id = s[at(i)].id
      OBVIOUS
    <3>1. at(i) \in 1..Len(s) /\ at(i) # k
      BY <1>1, <2>1
    <3>2. u[i] = Restored(s[at(i)], r)
      BY <1>3, <2>3, <3>1
    <3> HIDE DEF at
    <3> QED BY <1>1, <1>2, <2>2, <3>1, <3>2
  <2>6. \A j \in 1..Len(s) : j # k => \E i \in 1..(Len(s) - 1) : at(i) = j
    <3> SUFFICES ASSUME NEW j \in 1..Len(s), j # k
                 PROVE  \E i \in 1..(Len(s) - 1) : at(i) = j
      OBVIOUS
    <3>1. CASE j < k
      BY <1>1, <2>1, <3>1
    <3>2. CASE j > k
      <4>1. j - 1 \in 1..(Len(s) - 1) /\ at(j - 1) = j
        BY <1>1, <2>1, <3>2
      <4> QED BY <4>1
    <3> QED BY <1>1, <2>1, <3>1, <3>2
  <2>7. DOMAIN u = 1..(Len(s) - 1)
    BY <1>1, <2>3, LenProperties
  <2>8. u \in Seq(Row)
    BY <2>3, <2>5, SeqOver
  <2>9. OneEach(u)
    <3> SUFFICES ASSUME NEW i \in 1..(Len(s) - 1), NEW j \in 1..(Len(s) - 1), u[i].id = u[j].id
                 PROVE  i = j
      BY <2>7 DEF OneEach
    <3>1. s[at(i)].id = s[at(j)].id /\ at(i) \in DOMAIN s /\ at(j) \in DOMAIN s
      BY <1>1, <2>5
    <3>2. at(i) = at(j)
      BY <3>1 DEF OneEach
    <3> QED BY <1>1, <2>1, <3>2
  <2>10. Range(u) = {Restored(x, r) : x \in {y \in Range(s) : ~Created(y, r)}}
    <3>1. ASSUME NEW x \in Range(u)
          PROVE  x \in {Restored(z, r) : z \in {y \in Range(s) : ~Created(y, r)}}
      <4>1. PICK i \in 1..(Len(s) - 1) : x = u[i]
        BY <2>7, <3>1 DEF Range
      <4>2. s[at(i)] \in Range(s) /\ ~Created(s[at(i)], r)
        BY <1>1, <2>2, <2>5 DEF Range
      <4> QED BY <2>5, <4>1, <4>2
    <3>2. ASSUME NEW y \in Range(s), ~Created(y, r) PROVE Restored(y, r) \in Range(u)
      <4>1. PICK j \in 1..Len(s) : y = s[j]
        BY <1>1 DEF Range
      <4>2. PICK i \in 1..(Len(s) - 1) : at(i) = j
        BY <2>2, <2>6, <3>2, <4>1
      <4> QED BY <2>5, <2>7, <4>1, <4>2 DEF Range
    <3> QED BY <3>1, <3>2
  <2> QED BY <2>4, <2>8, <2>9, <2>10
<1> QED BY <1>6, <1>7

\* A row added with an id that none has.
LEMMA RowsAdded ==
  ASSUME NEW s \in Seq(Row), NEW x \in Row, \A y \in Range(s) : y.id # x.id
  PROVE  /\ Append(s, x) \in Seq(Row)
         /\ OneEach(s) => OneEach(Append(s, x))
         /\ Range(Append(s, x)) = Range(s) \cup {x}
<1>1. Len(s) \in Nat /\ DOMAIN s = 1..Len(s)
  BY LenProperties
<1>2. /\ Append(s, x) \in Seq(Row) /\ Len(Append(s, x)) = Len(s) + 1
      /\ \A i \in 1..Len(s) : Append(s, x)[i] = s[i]
      /\ Append(s, x)[Len(s) + 1] = x
  BY AppendProperties
<1>3. DOMAIN Append(s, x) = 1..(Len(s) + 1)
  BY <1>2, LenProperties
<1>4. 1..(Len(s) + 1) = 1..Len(s) \cup {Len(s) + 1}
  BY <1>1
<1> QED BY <1>1, <1>2, <1>3, <1>4 DEF Range, OneEach

\* The row at one place is changed, but not its id.
LEMMA RowsChanged ==
  ASSUME NEW s \in Seq(Row), NEW i \in DOMAIN s, NEW x \in Row, x.id = s[i].id, OneEach(s)
  PROVE  /\ [s EXCEPT ![i] = x] \in Seq(Row)
         /\ OneEach([s EXCEPT ![i] = x])
         /\ Range([s EXCEPT ![i] = x]) = (Range(s) \ {s[i]}) \cup {x}
<1>1. Len(s) \in Nat /\ DOMAIN s = 1..Len(s)
  BY LenProperties
<1>2. /\ [s EXCEPT ![i] = x] \in Seq(Row)
      /\ \A j \in 1..Len(s) : [s EXCEPT ![i] = x][j] = IF j = i THEN x ELSE s[j]
  BY <1>1, ExceptSeq
<1>3. DOMAIN [s EXCEPT ![i] = x] = DOMAIN s
  OBVIOUS
<1>4. OneEach([s EXCEPT ![i] = x])
  BY <1>1, <1>2, <1>3 DEF OneEach
<1>5. \A j \in DOMAIN s : j # i => s[j] # s[i]
  BY DEF OneEach
<1>6. Range([s EXCEPT ![i] = x]) = (Range(s) \ {s[i]}) \cup {x}
  BY <1>1, <1>2, <1>3, <1>5 DEF Range
<1> QED BY <1>2, <1>4, <1>6

\* The ids of the rows of an order are as many as its rows.
LEMMA RowsCounted ==
  ASSUME NEW s \in Seq(Row), OneEach(s)
  PROVE  /\ IsFiniteSet({x.id : x \in Range(s)})
         /\ Cardinality({x.id : x \in Range(s)}) = Len(s)
<1> DEFINE I == {x.id : x \in Range(s)}
           f == [i \in 1..Len(s) |-> s[i].id]
<1>1. Len(s) \in Nat /\ DOMAIN s = 1..Len(s)
  BY LenProperties
<1>2. IsFiniteSet(1..Len(s)) /\ Cardinality(1..Len(s)) = Len(s)
  BY <1>1, FS_Interval
<1>3. f \in Bijection(1..Len(s), I)
  BY <1>1 DEF Bijection, Injection, Surjection, IsInjective, Range, OneEach
<1>4. ExistsBijection(1..Len(s), I)
  BY <1>3 DEF ExistsBijection
<1> QED BY <1>2, <1>4, FS_Bijection
-----------------------------------------------------------------------------
(* The invariant                                                           *)

\* q works on o.
On(q, o) == req[q] # Idle /\ req[q].order = o
\* The rows of o that others than their writer can see, and what they see.
Seens(o) == {x \in Rows(o) : Seen(x)}
SeenIds(o) == {x.id : x \in Seens(o)}
Said(x) == IF x.writer = Nobody THEN x.status ELSE x.before
\* The reports on o that found no row and are not over: each may leave one.
Firsts(o) ==
  {q \in Request : On(q, o) /\ req[q].step \in {"assign", "write", "commit"} /\ req[q].row = 0}
Room == IF apart THEN 1 ELSE Cardinality(Request)

\* A row with a writer was written by a report that is not over, and says
\* what it reports; a report writes one row at most.
RowsOK(o) ==
  /\ OneEach(assignments[o])
  /\ \A x \in Rows(o) :
       IF x.writer = Nobody THEN x.before = "VOID"
       ELSE /\ On(x.writer, o) /\ req[x.writer].step \in {"write", "commit"}
            /\ x.status = req[x.writer].report
            /\ \A y \in Rows(o) : y.writer = x.writer => y = x

\* A report that found a row works with one that others see; once it wrote,
\* it holds a row; at its end it holds the order too, which says its report.
CallsOK(o) ==
  \A q \in Request : On(q, o) =>
    /\ req[q].step = "find" => req[q].row = 0
    /\ req[q].row # 0 => req[q].row \in SeenIds(o)
    /\ req[q].step \in {"write", "commit"} =>
         \E x \in Rows(o) : x.writer = q /\ (Seen(x) <=> req[q].row # 0)
    /\ req[q].step = "commit" =>
         lock[o] = q /\ status[o] = mapDeliveryStatusToOrderStatus(req[q].report)

LockOK(o) ==
  IF lock[o] = Nobody THEN old[o] = status[o]
  ELSE On(lock[o], o) /\ req[lock[o]].step = "commit"

\* What the committed rows and the committed order say agrees.
ShownOK(o) ==
  /\ Seens(o) = {} => Shown(o) = "PAYMENT_VERIFIED"
  /\ \A x \in Seens(o) : Seens(o) = {x} => Shown(o) = mapDeliveryStatusToOrderStatus(Said(x))

\* Rows and reports that may leave one are together no more than the slots.
CountOK(o) == Cardinality(SeenIds(o)) + Cardinality(Firsts(o)) <= Room

\* Where reports do not overlap, none is at work once a mail was due but the
\* one that waits for it.
ApartOK(o) ==
  apart => /\ \A q, p \in Request : On(q, o) /\ On(p, o) => q = p
           /\ \A q \in Request : On(q, o) /\ req[q].step # "mail" => mails[o] = 0
           /\ mails[o] > 0 => mails[o] = 1 /\ status[o] = "DELIVERED"
MailOK(o) == mails[o] > 0 => ~selfPickup[o]

ReportInv ==
  /\ TypeOK
  /\ \A o \in Order : /\ RowsOK(o) /\ CallsOK(o) /\ LockOK(o) /\ ShownOK(o)
                      /\ CountOK(o) /\ ApartOK(o) /\ MailOK(o)

\* The row found is the id of one that was committed, and none is found only
\* when there is none.
LEMMA NewestFound ==
  ASSUME TypeOK, NEW o \in Order
  PROVE  /\ Newest(o) \in Nat
         /\ Newest(o) = 0 <=> Seens(o) = {}
         /\ Newest(o) # 0 => Newest(o) \in SeenIds(o)
<1> DEFINE seen == {i \in DOMAIN assignments[o] : Seen(assignments[o][i])}
<1>1. /\ Len(assignments[o]) \in Nat /\ DOMAIN assignments[o] = 1..Len(assignments[o])
      /\ \A i \in DOMAIN assignments[o] : assignments[o][i] \in Row
  BY LenProperties, ElementOfSeq DEF TypeOK
<1>2. Seens(o) = {} <=> seen = {}
  BY DEF Seens, Rows, Range
<1>3. \A i \in seen : assignments[o][i] \in Seens(o)
  BY DEF Seens, Rows, Range
<1>4. seen \subseteq 1..Len(assignments[o])
  BY <1>1
<1>5. Newest(o) = IF seen = {} THEN 0 ELSE assignments[o][Max(seen)].id
  BY DEF Newest
<1>6. \A i \in seen : assignments[o][i] \in Row
  BY <1>1
<1> HIDE DEF seen
<1>7. seen # {} => Max(seen) \in seen
  <2>1. IsFiniteSet(seen)
    <3>1. IsFiniteSet(1..Len(assignments[o]))
      BY <1>1, FS_Interval
    <3> QED BY <1>4, <3>1, FS_Subset
  <2>2. \A y \in seen : y \in Int
    BY <1>1, <1>4
  <2>3. seen # {} => \E x \in seen : \A y \in seen : x >= y
    BY <2>1, <2>2, LargestExists
  <2> QED BY <2>3 DEF Max
<1>8. \A x \in Row : x.id \in Nat /\ x.id # 0
  BY DEF Row
<1> QED BY <1>2, <1>3, <1>5, <1>6, <1>7, <1>8 DEF SeenIds

\* There is an id that no row of the order has, and a new row gets one.
LEMMA NewIdFree ==
  ASSUME TypeOK, NEW o \in Order, OneEach(assignments[o])
  PROVE  NewId(o) \in Nat \ {0} /\ \A x \in Rows(o) : x.id # NewId(o)
<1> DEFINE n == Len(assignments[o])
           ids == {x.id : x \in Rows(o)}
<1>1. n \in Nat /\ IsFiniteSet(ids) /\ Cardinality(ids) = n
  BY LenProperties, RowsCounted DEF TypeOK, Rows
<1>2. Cardinality(1..(n + 1)) = n + 1
  BY <1>1, FS_Interval
<1>3. ~(1..(n + 1) \subseteq ids)
  <2>1. 1..(n + 1) \subseteq ids => Cardinality(1..(n + 1)) <= Cardinality(ids)
    BY <1>1, FS_Subset
  <2> QED BY <1>1, <1>2, <2>1
<1>4. \E i \in 1..(n + 1) : \A x \in Rows(o) : x.id # i
  BY <1>3
<1>5. NewId(o) = CHOOSE i \in 1..(n + 1) : \A x \in Rows(o) : x.id # i
  BY DEF NewId
<1> QED BY <1>1, <1>4, <1>5
\* What every row and every call is made of.
LEMMA Typed ==
  ASSUME TypeOK
  PROVE  /\ \A o \in Order : assignments[o] \in Seq(Row)
         /\ \A o \in Order : \A x \in Rows(o) : x \in Row
         /\ \A q \in Request : req[q] # Idle => req[q] \in Call
<1>1. ASSUME NEW o \in Order, NEW x \in Rows(o) PROVE x \in Row
  <2>1. assignments[o] \in Seq(Row)
    BY DEF TypeOK
  <2>2. PICK i \in DOMAIN assignments[o] : x = assignments[o][i]
    BY <1>1 DEF Rows, Range
  <2> QED BY <2>1, <2>2, LenProperties, ElementOfSeq
<1> QED BY <1>1 DEF TypeOK

\* A request that goes on with its call.
LEMMA Going ==
  ASSUME TypeOK, NEW r \in Request, req[r] # Idle, NEW step \in Step, Goto(r, step)
  PROVE  /\ req' \in [Request -> Call \cup {Idle}]
         /\ \A q \in Request : q # r => req'[q] = req[q]
         /\ req'[r] # Idle /\ req'[r].step = step
         /\ req'[r].order = req[r].order /\ req'[r].report = req[r].report
         /\ req'[r].row = req[r].row
<1>1. req[r] \in Call
  BY Typed
<1>2. [req[r] EXCEPT !.step = step] \in Call
  BY <1>1 DEF Call
<1>3. /\ req' = [req EXCEPT ![r] = [req[r] EXCEPT !.step = step]]
      /\ req'[r] = [req[r] EXCEPT !.step = step]
  BY DEF Goto, TypeOK
<1>4. req' \in [Request -> Call \cup {Idle}]
  BY <1>2, <1>3 DEF TypeOK
<1>5. \A q \in Request : q # r => req'[q] = req[q]
  BY <1>3 DEF TypeOK
<1>6. req'[r] # Idle
  BY <1>2, <1>3, SlotsAssumption
<1> QED BY <1>1, <1>3, <1>4, <1>5, <1>6 DEF Call

\* A request whose call is over.
LEMMA Ended ==
  ASSUME TypeOK, NEW r \in Request, End(r)
  PROVE  /\ req' \in [Request -> Call \cup {Idle}]
         /\ \A q \in Request : q # r => req'[q] = req[q]
         /\ req'[r] = Idle
BY DEF TypeOK, End

\* A step of a report changes nothing of the other orders.
LEMMA OtherOrder ==
  ASSUME ReportInv, NEW r \in Request, NEW p \in Order, ~On(r, p), ~On(r, p)',
         \A q \in Request : q # r => req'[q] = req[q],
         assignments'[p] = assignments[p], status'[p] = status[p], old'[p] = old[p],
         lock'[p] = lock[p], mails'[p] = mails[p], UNCHANGED fixed
  PROVE  /\ RowsOK(p)' /\ CallsOK(p)' /\ LockOK(p)' /\ ShownOK(p)'
         /\ CountOK(p)' /\ ApartOK(p)' /\ MailOK(p)'
<1>1. Rows(p)' = Rows(p) /\ Seens(p)' = Seens(p) /\ SeenIds(p)' = SeenIds(p) /\ Shown(p)' = Shown(p)
  BY DEF Rows, Seens, SeenIds, Shown
<1>2. \A q \in Request : /\ On(q, p)' <=> On(q, p)
                         /\ On(q, p) => req'[q] = req[q]
  BY DEF On
<1>3. \A x \in Rows(p) : x.writer # Nobody => x.writer \in Request
  BY Typed DEF ReportInv, Row
<1>4. RowsOK(p)'
  BY <1>1, <1>2, <1>3 DEF ReportInv, RowsOK
<1>5. CallsOK(p)'
  BY <1>1, <1>2 DEF ReportInv, CallsOK
<1>6. LockOK(p)'
  BY <1>2 DEF ReportInv, TypeOK, LockOK
<1>7. ShownOK(p)'
  BY <1>1 DEF ReportInv, ShownOK
<1>8. CountOK(p)'
  <2>1. Firsts(p)' = Firsts(p)
    BY <1>2 DEF Firsts
  <2> QED BY <1>1, <2>1 DEF ReportInv, CountOK, Room, fixed
<1>9. ApartOK(p)' /\ MailOK(p)'
  BY <1>2 DEF ReportInv, ApartOK, MailOK, fixed
<1> QED BY <1>4, <1>5, <1>6, <1>7, <1>8, <1>9
\* The invariant holds after a step that keeps it for the order it is about.
LEMMA OneOrder ==
  ASSUME ReportInv, TypeOK', NEW r \in Request, NEW o \in Order,
         \A p \in Order \ {o} :
           /\ ~On(r, p) /\ ~On(r, p)'
           /\ assignments'[p] = assignments[p] /\ status'[p] = status[p] /\ old'[p] = old[p]
           /\ lock'[p] = lock[p] /\ mails'[p] = mails[p],
         \A q \in Request : q # r => req'[q] = req[q],
         UNCHANGED fixed,
         RowsOK(o)', CallsOK(o)', LockOK(o)', ShownOK(o)', CountOK(o)', ApartOK(o)', MailOK(o)'
  PROVE  ReportInv'
<1>1. ASSUME NEW p \in Order \ {o}
      PROVE  /\ RowsOK(p)' /\ CallsOK(p)' /\ LockOK(p)' /\ ShownOK(p)'
             /\ CountOK(p)' /\ ApartOK(p)' /\ MailOK(p)'
  BY OtherOrder
<1>2. ASSUME NEW p \in Order
      PROVE  /\ RowsOK(p)' /\ CallsOK(p)' /\ LockOK(p)' /\ ShownOK(p)'
             /\ CountOK(p)' /\ ApartOK(p)' /\ MailOK(p)'
  <2>1. CASE p = o
    BY <2>1
  <2>2. CASE p # o
    BY <1>1, <2>2
  <2> QED BY <2>1, <2>2
<1> QED BY <1>2 DEF ReportInv

\* The reports that may leave a row are a finite set, and of an order that is
\* worked on alone they are one at most.
LEMMA FirstsFinite ==
  ASSUME NEW F, F \subseteq Request, NEW r, apart => F \subseteq {r}, apart \in BOOLEAN
  PROVE  /\ IsFiniteSet(F) /\ Cardinality(F) \in Nat
         /\ Room \in Nat /\ Cardinality(F) <= Room
<1>1. IsFiniteSet(Request) /\ Cardinality(Request) \in Nat
  BY SlotsAssumption, FS_CardinalityType
<1>2. IsFiniteSet(F) /\ Cardinality(F) <= Cardinality(Request)
  BY <1>1, FS_Subset
<1>3. Cardinality(F) \in Nat
  BY <1>2, FS_CardinalityType
<1>4. F \subseteq {r} => Cardinality(F) <= 1
  <2>1. IsFiniteSet({r}) /\ Cardinality({r}) = 1
    BY FS_Singleton
  <2> QED BY <2>1, FS_Subset
<1> QED BY <1>1, <1>2, <1>3, <1>4 DEF Room

\* The ids that others see are a finite set.
LEMMA SeenFinite ==
  ASSUME ReportInv, NEW o \in Order
  PROVE  IsFiniteSet(SeenIds(o)) /\ Cardinality(SeenIds(o)) \in Nat
<1>1. SeenIds(o) \subseteq {x.id : x \in Range(assignments[o])}
  BY DEF SeenIds, Seens, Rows
<1>2. IsFiniteSet({x.id : x \in Range(assignments[o])})
  BY Typed, RowsCounted DEF ReportInv, RowsOK
<1>3. IsFiniteSet(SeenIds(o))
  BY <1>1, <1>2, FS_Subset
<1> QED BY <1>3, FS_CardinalityType

\* Initially there is neither a row nor a request.
LEMMA InitReport == Init => ReportInv
<1> SUFFICES ASSUME Init PROVE ReportInv
  OBVIOUS
<1>1. TypeOK
  <2>1. assignments \in [Order -> Seq(Row)]
    BY EmptySeq DEF Init
  <2> QED BY <2>1 DEF Init, TypeOK, OrderStatus
<1>2. ASSUME NEW o \in Order
      PROVE  /\ RowsOK(o) /\ CallsOK(o) /\ LockOK(o) /\ ShownOK(o)
             /\ CountOK(o) /\ ApartOK(o) /\ MailOK(o)
  <2>1. assignments[o] = <<>> /\ Rows(o) = {} /\ Seens(o) = {} /\ SeenIds(o) = {}
    <3>1. assignments[o] = <<>>
      BY DEF Init
    <3>2. Rows(o) = {}
      BY <3>1 DEF Rows, Range
    <3> QED BY <3>1, <3>2 DEF Seens, SeenIds
  <2>2. \A q \in Request : ~On(q, o)
    BY DEF Init, On
  <2>3. RowsOK(o)
    BY <2>1 DEF RowsOK, OneEach
  <2>4. CallsOK(o) /\ LockOK(o) /\ ShownOK(o) /\ MailOK(o) /\ ApartOK(o)
    BY <2>1, <2>2 DEF CallsOK, LockOK, ShownOK, Shown, MailOK, ApartOK, Init
  <2>5. CountOK(o)
    <3>1. Firsts(o) = {}
      BY <2>2 DEF Firsts
    <3>2. Cardinality({}) = 0
      BY FS_EmptySet
    <3>3. Room \in Nat
      BY SlotsAssumption, FS_CardinalityType DEF Room
    <3> QED BY <2>1, <3>1, <3>2, <3>3 DEF CountOK
  <2> QED BY <2>3, <2>4, <2>5
<1> QED BY <1>1, <1>2 DEF ReportInv

-----------------------------------------------------------------------------
(* The steps                                                               *)

\* A report arrives for an order that takes one: where reports do not
\* overlap, no mail was due yet.
LEMMA ReadKept ==
  ASSUME ReportInv, NEW r \in Request, NEW o \in Order, NEW d \in Report, ReadReport(r, o, d)
  PROVE  ReportInv'
<1> USE DEF ReadReport
<1> DEFINE c == [order |-> o, step |-> "find", report |-> d, row |-> 0]
<1>1. /\ c \in Call /\ c # Idle /\ req \in [Request -> Call \cup {Idle}]
      /\ c.order = o /\ c.step = "find" /\ c.row = 0
  BY SlotsAssumption DEF Call, Step, ReportInv, TypeOK
<1>2. req' = [req EXCEPT ![r] = c]
  OBVIOUS
<1> HIDE DEF c
<1>3. /\ req' \in [Request -> Call \cup {Idle}]
      /\ req'[r] = c /\ \A q \in Request : q # r => req'[q] = req[q]
  BY <1>1, <1>2
<1>4. TypeOK'
  BY <1>3 DEF ReportInv, TypeOK, reportVars, fixed
<1>5. /\ ~On(r, o) /\ On(r, o)'
      /\ \A p \in Order \ {o} : ~On(r, p) /\ ~On(r, p)'
      /\ \A q \in Request \ {r} : (On(q, o)' <=> On(q, o))
  BY <1>1, <1>3 DEF On
<1>6. /\ Rows(o)' = Rows(o) /\ Seens(o)' = Seens(o) /\ SeenIds(o)' = SeenIds(o)
      /\ Shown(o)' = Shown(o)
  BY DEF Rows, Seens, SeenIds, Shown, reportVars
<1>7. RowsOK(o)'
  <2>1. \A x \in Rows(o) : x.writer # Nobody => x.writer \in Request \ {r}
    BY <1>5, Typed DEF ReportInv, RowsOK, Row
  <2> QED BY <1>3, <1>5, <1>6, <2>1 DEF ReportInv, RowsOK, reportVars
<1>8. CallsOK(o)'
  BY <1>1, <1>3, <1>5, <1>6 DEF ReportInv, CallsOK, reportVars
<1>9. LockOK(o)'
  <2>1. lock[o] # Nobody => lock[o] \in Request \ {r}
    BY <1>5 DEF ReportInv, TypeOK, LockOK
  <2> QED BY <1>3, <1>5, <2>1 DEF ReportInv, LockOK, reportVars
<1>10. ShownOK(o)' /\ MailOK(o)'
  BY <1>6 DEF ReportInv, ShownOK, MailOK, reportVars, fixed
<1>11. CountOK(o)'
  <2>1. Firsts(o)' = Firsts(o)
    BY <1>1, <1>3, <1>5 DEF Firsts
  <2> QED BY <1>6, <2>1 DEF ReportInv, CountOK, Room, fixed
<1>12. ApartOK(o)'
  <2> SUFFICES ASSUME apart PROVE ApartOK(o)'
    BY DEF ApartOK, fixed
  <2>1. \A q \in Request : ~On(q, o)
    BY DEF On
  <2>2. lock[o] = Nobody
    BY <2>1 DEF ReportInv, TypeOK, LockOK
  <2>3. status[o] # "DELIVERED"
    BY <2>2 DEF Deliverable, Shown
  <2>4. mails[o] = 0
    <3>1. mails[o] > 0 => status[o] = "DELIVERED"
      BY DEF ReportInv, ApartOK
    <3>2. mails[o] \in 0..2
      BY DEF ReportInv, TypeOK
    <3> QED BY <2>3, <3>1, <3>2
  <2> QED BY <1>5, <2>1, <2>4 DEF ApartOK, reportVars
<1> QED BY <1>3, <1>4, <1>5, <1>7, <1>8, <1>9, <1>10, <1>11, <1>12, OneOrder DEF reportVars
\* A report that has read which row is the newest: if there was none, it may
\* leave one, and no row is seen yet.
LEMMA FindKept ==
  ASSUME ReportInv, NEW r \in Request, FindAssignment(r)
  PROVE  ReportInv'
<1> USE DEF FindAssignment, At
<1>1. PICK o \in Order : o = req[r].order
  BY Typed DEF ReportInv, Call
<1>2. PICK n : n = Newest(o)
  OBVIOUS
<1>3. n \in Nat /\ (n = 0 <=> Seens(o) = {}) /\ (n # 0 => n \in SeenIds(o))
  BY <1>2, NewestFound DEF ReportInv
<1>4. /\ req' \in [Request -> Call \cup {Idle}]
      /\ \A q \in Request : q # r => req'[q] = req[q]
      /\ req'[r] # Idle /\ req'[r].order = o /\ req'[r].step = "assign" /\ req'[r].row = n
  <2> DEFINE c == [req[r] EXCEPT !.step = "assign", !.row = n]
  <2>1. c \in Call /\ c.order = o /\ c.step = "assign" /\ c.row = n
    BY <1>1, <1>3, Typed DEF ReportInv, Call, Step
  <2>2. c # Idle
    BY <2>1, SlotsAssumption
  <2>3. req' = [req EXCEPT ![r] = c]
    BY <1>1, <1>2 DEF ReportInv, TypeOK
  <2> HIDE DEF c
  <2> QED BY <2>1, <2>2, <2>3 DEF ReportInv, TypeOK
<1>5. TypeOK'
  BY <1>4 DEF ReportInv, TypeOK, reportVars, fixed
<1>6. /\ On(r, o) /\ On(r, o)'
      /\ \A p \in Order \ {o} : ~On(r, p) /\ ~On(r, p)'
      /\ \A q \in Request \ {r} : (On(q, o)' <=> On(q, o))
  BY <1>1, <1>4 DEF On
<1>7. /\ Rows(o)' = Rows(o) /\ Seens(o)' = Seens(o) /\ SeenIds(o)' = SeenIds(o)
      /\ Shown(o)' = Shown(o)
  BY DEF Rows, Seens, SeenIds, Shown, reportVars
<1>8. RowsOK(o)'
  <2>1. \A x \in Rows(o) : x.writer # Nobody => x.writer \in Request \ {r}
    BY Typed DEF ReportInv, RowsOK, Row
  <2> QED BY <1>4, <1>6, <1>7, <2>1 DEF ReportInv, RowsOK, reportVars
<1>9. CallsOK(o)'
  BY <1>3, <1>4, <1>6, <1>7 DEF ReportInv, CallsOK, reportVars
<1>10. LockOK(o)'
  <2>1. lock[o] # Nobody => lock[o] \in Request \ {r}
    BY DEF ReportInv, TypeOK, LockOK
  <2> QED BY <1>4, <1>6, <2>1 DEF ReportInv, LockOK, reportVars
<1>11. ShownOK(o)' /\ MailOK(o)'
  BY <1>7 DEF ReportInv, ShownOK, MailOK, reportVars, fixed
<1>12. ApartOK(o)'
  BY <1>4, <1>6 DEF ReportInv, ApartOK, reportVars, fixed
<1>13. CountOK(o)'
  <2>1. CASE n = 0
    <3>1. SeenIds(o) = {}
      BY <1>3, <2>1 DEF SeenIds
    <3>2. /\ Firsts(o)' \subseteq Request
          /\ apart => Firsts(o)' \subseteq {r}
      BY <1>6 DEF Firsts, ReportInv, ApartOK
    <3>3. PICK F : F = Firsts(o)'
      OBVIOUS
    <3>4. Cardinality(F) \in Nat /\ Cardinality(F) <= Room
      BY <3>2, <3>3, FirstsFinite DEF ReportInv, TypeOK
    <3>5. Cardinality({}) = 0
      BY FS_EmptySet
    <3> QED BY <1>7, <3>1, <3>3, <3>4, <3>5 DEF CountOK, Room, fixed
  <2>2. CASE n # 0
    <3>1. Firsts(o)' = Firsts(o)
      BY <1>4, <1>6, <2>2 DEF Firsts
    <3> QED BY <1>7, <3>1 DEF ReportInv, CountOK, Room, fixed
  <2> QED BY <2>1, <2>2
<1> QED BY <1>4, <1>5, <1>6, <1>8, <1>9, <1>10, <1>11, <1>12, <1>13, OneOrder DEF reportVars

\* The report whose mail ended changes nothing by going.
LEMMA AfterMailKept ==
  ASSUME ReportInv, NEW r \in Request, AfterMail(r)
  PROVE  ReportInv'
<1> USE DEF AfterMail, At
<1>1. PICK o \in Order : o = req[r].order
  BY Typed DEF ReportInv, Call
<1>2. /\ req' \in [Request -> Call \cup {Idle}]
      /\ \A q \in Request : q # r => req'[q] = req[q]
      /\ req'[r] = Idle
  BY Ended DEF ReportInv
<1>3. TypeOK'
  BY <1>2 DEF ReportInv, TypeOK, reportVars, fixed
<1>4. /\ On(r, o) /\ ~On(r, o)'
      /\ \A p \in Order \ {o} : ~On(r, p) /\ ~On(r, p)'
      /\ \A q \in Request \ {r} : (On(q, o)' <=> On(q, o))
  BY <1>1, <1>2 DEF On
<1>5. /\ Rows(o)' = Rows(o) /\ Seens(o)' = Seens(o) /\ SeenIds(o)' = SeenIds(o)
      /\ Shown(o)' = Shown(o)
  BY DEF Rows, Seens, SeenIds, Shown, reportVars
<1>6. RowsOK(o)'
  <2>1. \A x \in Rows(o) : x.writer # Nobody => x.writer \in Request \ {r}
    BY Typed DEF ReportInv, RowsOK, Row
  <2> QED BY <1>2, <1>4, <1>5, <2>1 DEF ReportInv, RowsOK, reportVars
<1>7. CallsOK(o)'
  BY <1>2, <1>4, <1>5 DEF ReportInv, CallsOK, reportVars
<1>8. LockOK(o)'
  <2>1. lock[o] # Nobody => lock[o] \in Request \ {r}
    BY DEF ReportInv, TypeOK, LockOK
  <2> QED BY <1>2, <1>4, <2>1 DEF ReportInv, LockOK, reportVars
<1>9. ShownOK(o)' /\ MailOK(o)'
  BY <1>5 DEF ReportInv, ShownOK, MailOK, reportVars, fixed
<1>10. ApartOK(o)'
  BY <1>2, <1>4 DEF ReportInv, ApartOK, reportVars, fixed
<1>11. CountOK(o)'
  <2>1. Firsts(o)' = Firsts(o)
    BY <1>2, <1>4 DEF Firsts
  <2> QED BY <1>5, <2>1 DEF ReportInv, CountOK, Room, fixed
<1> QED BY <1>2, <1>3, <1>4, <1>6, <1>7, <1>8, <1>9, <1>10, <1>11, OneOrder DEF reportVars
\* A report writes the order, which nobody holds: the others still see what
\* was committed.
LEMMA WriteKept ==
  ASSUME ReportInv, NEW r \in Request, WriteOrder(r)
  PROVE  ReportInv'
<1>1. PICK o \in Order : o = req[r].order
  BY Typed DEF ReportInv, Call, WriteOrder, At
<1>2. /\ req' \in [Request -> Call \cup {Idle}]
      /\ \A q \in Request : q # r => req'[q] = req[q]
      /\ req'[r] # Idle /\ req'[r].step = "commit" /\ req'[r].order = o
      /\ req'[r].report = req[r].report /\ req'[r].row = req[r].row
  BY <1>1, Going DEF ReportInv, Step, WriteOrder, At
<1>3. /\ lock[o] = Nobody /\ lock' = [lock EXCEPT ![o] = r]
      /\ old' = [old EXCEPT ![o] = status[o]]
      /\ status' = [status EXCEPT ![o] = mapDeliveryStatusToOrderStatus(req[r].report)]
      /\ UNCHANGED <<assignments, mails, fixed>>
      /\ req[r].step = "write"
  BY <1>1 DEF WriteOrder, At
<1>4. lock'[o] = r /\ old'[o] = status[o] /\ status'[o] = mapDeliveryStatusToOrderStatus(req[r].report)
  BY <1>3 DEF ReportInv, TypeOK
<1>5. TypeOK'
  <2>1. mapDeliveryStatusToOrderStatus(req[r].report) \in OrderStatus
    <3>1. req[r].report \in Report
      BY Typed DEF ReportInv, Call, WriteOrder, At
    <3> QED BY <3>1, ReportAssumption DEF mapDeliveryStatusToOrderStatus, OrderStatus
  <2>2. status' \in [Order -> OrderStatus]
    BY <1>3, <2>1 DEF ReportInv, TypeOK
  <2>3. old' \in [Order -> OrderStatus] /\ lock' \in [Order -> Request \cup {Nobody}]
    BY <1>3 DEF ReportInv, TypeOK
  <2> QED BY <1>2, <1>3, <2>2, <2>3 DEF ReportInv, TypeOK, fixed
<1>6. /\ On(r, o) /\ On(r, o)'
      /\ \A p \in Order \ {o} : ~On(r, p) /\ ~On(r, p)'
      /\ \A q \in Request \ {r} : (On(q, o)' <=> On(q, o))
  BY <1>1, <1>2 DEF On, WriteOrder, At
<1>7. r # Nobody
  BY SlotsAssumption
<1>8. /\ Rows(o)' = Rows(o) /\ Seens(o)' = Seens(o) /\ SeenIds(o)' = SeenIds(o)
      /\ Shown(o)' = Shown(o)
  BY <1>3, <1>4, <1>7 DEF Rows, Seens, SeenIds, Shown
<1>9. RowsOK(o)'
  <2>1. \A x \in Rows(o) : x.writer # Nobody => x.writer \in Request
    BY Typed DEF ReportInv, Row
  <2> QED BY <1>2, <1>3, <1>6, <1>8, <2>1 DEF ReportInv, RowsOK
<1>10. CallsOK(o)'
  <2>1. \A q \in Request : On(q, o) => req[q].step # "commit"
    BY <1>3, <1>7, SlotsAssumption DEF ReportInv, CallsOK
  <2> QED BY <1>1, <1>2, <1>3, <1>4, <1>6, <1>8, <2>1 DEF ReportInv, CallsOK
<1>11. LockOK(o)'
  BY <1>2, <1>4, <1>6, <1>7 DEF LockOK
<1>12. ShownOK(o)' /\ MailOK(o)'
  BY <1>3, <1>8 DEF ReportInv, ShownOK, MailOK, fixed
<1>13. ApartOK(o)'
  <2>1. apart => mails[o] = 0
    BY <1>3, <1>6 DEF ReportInv, ApartOK
  <2> QED BY <1>3, <1>6, <2>1 DEF ReportInv, ApartOK, fixed
<1>14. CountOK(o)'
  <2>1. Firsts(o)' = Firsts(o)
    BY <1>2, <1>3, <1>6 DEF Firsts
  <2> QED BY <1>3, <1>8, <2>1 DEF ReportInv, CountOK, Room, fixed
<1>15. \A p \in Order \ {o} : status'[p] = status[p] /\ old'[p] = old[p] /\ lock'[p] = lock[p]
  BY <1>3 DEF ReportInv, TypeOK
<1> QED BY <1>2, <1>3, <1>5, <1>6, <1>9, <1>10, <1>11, <1>12, <1>13, <1>14, <1>15, OneOrder

\* A report creates a row, which nobody else sees yet.
LEMMA CreateKept ==
  ASSUME ReportInv, NEW r \in Request, CreateAssignment(r)
  PROVE  ReportInv'
<1> USE DEF CreateAssignment, At
<1>1. PICK o \in Order : o = req[r].order
  BY Typed DEF ReportInv, Call
<1>2. /\ req' \in [Request -> Call \cup {Idle}]
      /\ \A q \in Request : q # r => req'[q] = req[q]
      /\ req'[r] # Idle /\ req'[r].step = "write" /\ req'[r].order = o
      /\ req'[r].report = req[r].report /\ req'[r].row = 0 /\ req[r].row = 0
  BY <1>1, Going DEF ReportInv, Step
<1>3. PICK x : x = [id |-> NewId(o), status |-> req[r].report, before |-> "VOID", writer |-> r]
  OBVIOUS
<1>4. /\ assignments' = [assignments EXCEPT ![o] = Append(assignments[o], x)]
      /\ UNCHANGED <<status, old, lock, mails, fixed>>
  BY <1>1, <1>3
<1>5. /\ x \in Row /\ \A y \in Rows(o) : y.id # x.id
      /\ x.writer = r /\ x.status = req[r].report /\ ~Seen(x) /\ r # Nobody
  <2>1. NewId(o) \in Nat \ {0} /\ \A y \in Rows(o) : y.id # NewId(o)
    BY NewIdFree DEF ReportInv, RowsOK
  <2>2. req[r].report \in Report
    BY Typed DEF ReportInv, Call
  <2> QED BY <1>3, <2>1, <2>2, SlotsAssumption DEF Row, Seen
<1>6. /\ assignments'[o] = Append(assignments[o], x)
      /\ assignments'[o] \in Seq(Row)
      /\ OneEach(assignments'[o])
      /\ Rows(o)' = Rows(o) \cup {x}
  <2>1. assignments[o] \in Seq(Row) /\ \A y \in Range(assignments[o]) : y.id # x.id
    BY <1>5, Typed DEF ReportInv, Rows
  <2>2. assignments'[o] = Append(assignments[o], x)
    BY <1>4 DEF ReportInv, TypeOK
  <2>3. /\ Append(assignments[o], x) \in Seq(Row)
        /\ OneEach(assignments[o]) => OneEach(Append(assignments[o], x))
        /\ Range(Append(assignments[o], x)) = Range(assignments[o]) \cup {x}
    BY <1>5, <2>1, RowsAdded
  <2> QED BY <2>2, <2>3 DEF ReportInv, RowsOK, Rows
<1>7. /\ Seens(o)' = Seens(o) /\ SeenIds(o)' = SeenIds(o) /\ Shown(o)' = Shown(o)
  <2>1. Seens(o)' = Seens(o)
    BY <1>5, <1>6 DEF Seens
  <2> QED BY <1>4, <2>1 DEF SeenIds, Shown
<1>8. TypeOK'
  <2>1. assignments' \in [Order -> Seq(Row)]
    BY <1>4, <1>6 DEF ReportInv, TypeOK
  <2> QED BY <1>2, <1>4, <2>1 DEF ReportInv, TypeOK, fixed
<1>9. /\ On(r, o) /\ On(r, o)'
      /\ \A p \in Order \ {o} : ~On(r, p) /\ ~On(r, p)'
      /\ \A q \in Request \ {r} : (On(q, o)' <=> On(q, o))
  BY <1>1, <1>2 DEF On
<1>10. RowsOK(o)'
  <2>1. \A y \in Rows(o) : y.writer # Nobody => y.writer \in Request \ {r}
    BY Typed DEF ReportInv, RowsOK, Row
  <2>2. ASSUME NEW y \in Rows(o)
        PROVE  IF y.writer = Nobody THEN y.before = "VOID"
               ELSE /\ On(y.writer, o)' /\ req'[y.writer].step \in {"write", "commit"}
                    /\ y.status = req'[y.writer].report
                    /\ \A z \in Rows(o) \cup {x} : z.writer = y.writer => z = y
    BY <1>2, <1>5, <1>9, <2>1 DEF ReportInv, RowsOK
  <2>3. /\ On(x.writer, o)' /\ req'[x.writer].step \in {"write", "commit"}
        /\ x.status = req'[x.writer].report
        /\ \A z \in Rows(o) \cup {x} : z.writer = x.writer => z = x
    BY <1>2, <1>5, <1>9, <2>1
  <2> QED BY <1>5, <1>6, <2>2, <2>3 DEF RowsOK
<1>11. CallsOK(o)'
  <2>1. \E y \in Rows(o)' : y.writer = r /\ (Seen(y) <=> req'[r].row # 0)
    BY <1>2, <1>5, <1>6
  <2>2. \A y \in Rows(o) : y \in Rows(o)'
    BY <1>6
  <2> QED BY <1>2, <1>4, <1>7, <1>9, <2>1, <2>2 DEF ReportInv, CallsOK
<1>12. LockOK(o)'
  <2>1. lock[o] # Nobody => lock[o] \in Request \ {r}
    BY DEF ReportInv, TypeOK, LockOK
  <2> QED BY <1>2, <1>4, <1>9, <2>1 DEF ReportInv, LockOK
<1>13. ShownOK(o)' /\ MailOK(o)'
  BY <1>4, <1>7 DEF ReportInv, ShownOK, MailOK, fixed
<1>14. ApartOK(o)'
  BY <1>2, <1>4, <1>9 DEF ReportInv, ApartOK, fixed
<1>15. CountOK(o)'
  <2>1. Firsts(o)' = Firsts(o)
    BY <1>2, <1>9 DEF Firsts
  <2> QED BY <1>4, <1>7, <2>1 DEF ReportInv, CountOK, Room, fixed
<1>16. \A p \in Order \ {o} : assignments'[p] = assignments[p]
  BY <1>4 DEF ReportInv, TypeOK
<1> QED BY <1>2, <1>4, <1>8, <1>9, <1>10, <1>11, <1>12, <1>13, <1>14, <1>15, <1>16, OneOrder
\* Two rows of an order have two ids.
LEMMA TwoIds ==
  ASSUME ReportInv, NEW o \in Order, NEW x \in Rows(o), NEW y \in Rows(o), x.id = y.id
  PROVE  x = y
BY DEF ReportInv, RowsOK, OneEach, Rows, Range

\* What a row is after an update.
LEMMA RowRewritten ==
  ASSUME NEW x \in Row, NEW d, NEW q
  PROVE  [x EXCEPT !.status = d, !.before = x.status, !.writer = q]
           = [id |-> x.id, status |-> d, before |-> x.status, writer |-> q]
<1> DEFINE y == [x EXCEPT !.status = d, !.before = x.status, !.writer = q]
<1>1. y \in [id : {x.id}, status : {d}, before : {x.status}, writer : {q}]
  BY DEF Row
<1>2. y = [id |-> x.id, status |-> d, before |-> x.status, writer |-> q]
  <2> HIDE DEF y
  <2> QED BY <1>1
<1> QED BY <1>2

\* A report updates the committed row that it found: the others still see
\* what it said.
LEMMA UpdateKept ==
  ASSUME ReportInv, NEW r \in Request, UpdateAssignment(r)
  PROVE  ReportInv'
<1>1. PICK o \in Order : o = req[r].order
  BY Typed DEF ReportInv, Call, UpdateAssignment, At
<1>2. /\ req' \in [Request -> Call \cup {Idle}]
      /\ \A q \in Request : q # r => req'[q] = req[q]
      /\ req'[r] # Idle /\ req'[r].step = "write" /\ req'[r].order = o
      /\ req'[r].report = req[r].report /\ req'[r].row = req[r].row /\ req[r].row # 0
  BY <1>1, Going DEF ReportInv, Step, UpdateAssignment, At
<1>3. PICK s : s = assignments[o]
  OBVIOUS
<1>4. s \in Seq(Row) /\ OneEach(s) /\ Rows(o) = Range(s)
  BY <1>3, Typed DEF ReportInv, RowsOK, Rows
<1>5. PICK i \in DOMAIN s :
        /\ s[i].id = req[r].row /\ s[i].writer = Nobody
        /\ assignments' = [assignments EXCEPT ![o][i].status = req[r].report,
                                              ![o][i].before = s[i].status,
                                              ![o][i].writer = r]
  BY <1>1, <1>3 DEF UpdateAssignment
<1>6. PICK x : x = s[i]
  OBVIOUS
<1>7. x \in Row /\ x \in Rows(o) /\ x.writer = Nobody /\ x.id = req[r].row
  BY <1>4, <1>5, <1>6, LenProperties, ElementOfSeq DEF Range
<1>8. PICK y : y = [id |-> x.id, status |-> req[r].report, before |-> x.status, writer |-> r]
  OBVIOUS
<1>9. /\ y \in Row /\ Seen(y) /\ y.id = x.id /\ y.writer = r /\ y.status = req[r].report
      /\ Said(y) = x.status /\ Said(x) = x.status /\ Seen(x) /\ r # Nobody
  <2>1. req[r].report \in Report /\ x.status \in Report /\ x.status # "VOID"
    <3>1. req[r].report \in Report
      BY Typed DEF ReportInv, Call, UpdateAssignment, At
    <3> QED BY <1>7, <3>1, ReportAssumption DEF Row
  <2> QED BY <1>7, <1>8, <2>1, SlotsAssumption DEF Row, Seen, Said
<1>10. /\ assignments'[o] = [s EXCEPT ![i] = y]
       /\ assignments' = [assignments EXCEPT ![o] = [s EXCEPT ![i] = y]]
  <2> DEFINE z == [x EXCEPT !.status = req[r].report, !.before = x.status, !.writer = r]
  <2>1. z = y
    BY <1>7, <1>8, RowRewritten
  <2>2. assignments' = [assignments EXCEPT ![o] = [s EXCEPT ![i] = z]]
    <3>1. [assignments EXCEPT ![o][i].status = req[r].report,
                              ![o][i].before = x.status,
                              ![o][i].writer = r] = [assignments EXCEPT ![o] = [s EXCEPT ![i] = z]]
      BY <1>3, <1>6 DEF ReportInv, TypeOK
    <3> QED BY <1>5, <1>6, <3>1
  <2> HIDE DEF z
  <2>3. assignments' = [assignments EXCEPT ![o] = [s EXCEPT ![i] = y]]
    BY <2>1, <2>2
  <2> QED BY <2>3 DEF ReportInv, TypeOK
<1>11. /\ assignments'[o] \in Seq(Row) /\ OneEach(assignments'[o])
       /\ Rows(o)' = (Rows(o) \ {x}) \cup {y}
  <2>1. /\ [s EXCEPT ![i] = y] \in Seq(Row) /\ OneEach([s EXCEPT ![i] = y])
        /\ Range([s EXCEPT ![i] = y]) = (Range(s) \ {s[i]}) \cup {y}
    BY <1>4, <1>6, <1>9, RowsChanged
  <2> QED BY <1>4, <1>6, <1>10, <2>1 DEF Rows
<1>12. UNCHANGED <<status, old, lock, mails, fixed>> /\ req[r].step = "assign"
  BY DEF UpdateAssignment, At
<1>13. Seens(o)' = (Seens(o) \ {x}) \cup {y} /\ x \in Seens(o)
  <2>1. \A z : z \in Seens(o)' <=> z \in Rows(o)' /\ Seen(z)
    BY DEF Seens
  <2>2. \A z : z \in Seens(o) <=> z \in Rows(o) /\ Seen(z)
    BY DEF Seens
  <2> QED BY <1>7, <1>9, <1>11, <2>1, <2>2
<1>14. SeenIds(o)' = SeenIds(o) /\ Shown(o)' = Shown(o)
  <2>1. \A z : z \in SeenIds(o)' <=> z \in SeenIds(o)
    BY <1>9, <1>13 DEF SeenIds
  <2> QED BY <1>12, <2>1 DEF Shown
<1>15. TypeOK'
  <2>1. assignments' \in [Order -> Seq(Row)]
    BY <1>10, <1>11 DEF ReportInv, TypeOK
  <2> QED BY <1>2, <1>12, <2>1 DEF ReportInv, TypeOK, fixed
<1>16. /\ On(r, o) /\ On(r, o)'
       /\ \A p \in Order \ {o} : ~On(r, p) /\ ~On(r, p)'
       /\ \A q \in Request \ {r} : (On(q, o)' <=> On(q, o))
  BY <1>1, <1>2 DEF On, UpdateAssignment, At
<1>17. RowsOK(o)'
  <2>1. \A z \in Rows(o) : z.writer # Nobody => z.writer \in Request \ {r}
    BY <1>12, Typed DEF ReportInv, RowsOK, Row
  <2>2. ASSUME NEW z \in Rows(o)
        PROVE  IF z.writer = Nobody THEN z.before = "VOID"
               ELSE /\ On(z.writer, o)' /\ req'[z.writer].step \in {"write", "commit"}
                    /\ z.status = req'[z.writer].report
                    /\ \A w \in Rows(o) \cup {y} : w.writer = z.writer => w = z
    BY <1>2, <1>9, <1>16, <2>1 DEF ReportInv, RowsOK
  <2>3. /\ On(y.writer, o)' /\ req'[y.writer].step \in {"write", "commit"}
        /\ y.status = req'[y.writer].report
        /\ \A w \in Rows(o) \cup {y} : w.writer = y.writer => w = y
    BY <1>2, <1>9, <1>16, <2>1
  <2> QED BY <1>9, <1>11, <2>2, <2>3 DEF RowsOK
<1>18. CallsOK(o)'
  <2>1. \E z \in Rows(o)' : z.writer = r /\ (Seen(z) <=> req'[r].row # 0)
    BY <1>2, <1>9, <1>11
  <2>2. \A q \in Request : \A z \in Rows(o) : z.writer = q => z \in Rows(o)'
    BY <1>7, <1>11, SlotsAssumption
  <2> QED BY <1>2, <1>12, <1>14, <1>16, <2>1, <2>2 DEF ReportInv, CallsOK
<1>19. LockOK(o)'
  <2>1. lock[o] # Nobody => lock[o] \in Request \ {r}
    BY <1>12 DEF ReportInv, TypeOK, LockOK
  <2> QED BY <1>2, <1>12, <1>16, <2>1 DEF ReportInv, LockOK
<1>20. ShownOK(o)'
  <2>1. ASSUME NEW z \in Seens(o)', Seens(o)' = {z}
        PROVE  Shown(o) = mapDeliveryStatusToOrderStatus(Said(z))
    <3>1. z = y
      BY <1>13, <2>1
    <3>2. Seens(o) = {x}
      <4>1. ASSUME NEW w \in Seens(o), w # x PROVE FALSE
        <5>1. w = y
          BY <1>13, <2>1, <3>1, <4>1
        <5>2. w \in Rows(o)
          BY DEF Seens
        <5> QED BY <1>7, <1>9, <4>1, <5>1, <5>2, TwoIds
      <4> QED BY <1>13, <4>1
    <3>3. Shown(o) = mapDeliveryStatusToOrderStatus(Said(x))
      BY <1>13, <3>2 DEF ReportInv, ShownOK
    <3> QED BY <1>9, <3>1, <3>3
  <2> QED BY <1>13, <1>14, <2>1 DEF ShownOK
<1>21. ApartOK(o)' /\ MailOK(o)'
  BY <1>2, <1>12, <1>16 DEF ReportInv, ApartOK, MailOK, fixed
<1>22. CountOK(o)'
  <2>1. Firsts(o)' = Firsts(o)
    BY <1>2, <1>12, <1>16 DEF Firsts
  <2> QED BY <1>12, <1>14, <2>1 DEF ReportInv, CountOK, Room, fixed
<1>23. \A p \in Order \ {o} : assignments'[p] = assignments[p]
  BY <1>10 DEF ReportInv, TypeOK
<1> QED BY <1>2, <1>12, <1>15, <1>16, <1>17, <1>18, <1>19, <1>20, <1>21, <1>22, <1>23, OneOrder
\* What a row is once its writer committed, and once it did not.
LEMMA SettledRow ==
  ASSUME NEW x \in Row, NEW r
  PROVE  /\ Settled(x, r).id = x.id /\ Settled(x, r).status = x.status
         /\ x.writer = r => Settled(x, r).writer = Nobody /\ Settled(x, r).before = "VOID"
         /\ x.writer # r => Settled(x, r) = x
BY DEF Row, Settled, Own

\* What a row is once its writer is rolled back.
LEMMA RestoredRow ==
  ASSUME NEW x \in Row, NEW r
  PROVE  /\ Restored(x, r).id = x.id
         /\ x.writer = r => /\ Restored(x, r).writer = Nobody /\ Restored(x, r).before = "VOID"
                            /\ Restored(x, r).status = x.before
         /\ x.writer # r => Restored(x, r) = x
BY DEF Row, Restored, Settled, Own

\* A report commits: its row and its order are seen by all, and agree; the
\* mail that is due is the first one where reports do not overlap.
LEMMA CommitKept ==
  ASSUME ReportInv, NEW r \in Request, CommitReport(r)
  PROVE  ReportInv'
<1>1. PICK o \in Order : o = req[r].order
  BY Typed DEF ReportInv, Call, CommitReport, At
<1>2. /\ req[r] # Idle /\ req[r].step = "commit"
      /\ lock' = Released(o, r)
      /\ old' = [old EXCEPT ![o] = status[o]]
      /\ assignments' = [assignments EXCEPT ![o] =
           [i \in DOMAIN assignments[o] |-> Settled(assignments[o][i], r)]]
      /\ UNCHANGED <<status, fixed>>
  BY <1>1 DEF CommitReport, At
<1>3. /\ On(r, o) /\ \A p \in Order \ {o} : ~On(r, p)
      /\ r # Nobody
  BY <1>1, <1>2, SlotsAssumption DEF On
<1>4. \/ /\ MailDue(o, req[r].report) /\ Goto(r, "mail")
         /\ mails' = [mails EXCEPT ![o] = IF mails[o] < 2 THEN mails[o] + 1 ELSE mails[o]]
      \/ End(r) /\ UNCHANGED mails
  BY <1>1 DEF CommitReport
<1>5. /\ req' \in [Request -> Call \cup {Idle}]
      /\ \A q \in Request : q # r => req'[q] = req[q]
      /\ \A p \in Order \ {o} : ~On(r, p)'
      /\ On(r, o)' => /\ req'[r].step = "mail" /\ req'[r].row = req[r].row
                      /\ MailDue(o, req[r].report)
  <2>1. CASE MailDue(o, req[r].report) /\ Goto(r, "mail")
    BY <1>1, <1>2, <2>1, Going DEF ReportInv, Step, On
  <2>2. CASE End(r)
    BY <2>2, Ended DEF ReportInv, On
  <2> QED BY <1>4, <2>1, <2>2
<1>6. \A q \in Request \ {r} : (On(q, o)' <=> On(q, o))
  BY <1>5 DEF On
<1>7. /\ lock[o] = r /\ lock'[o] = Nobody /\ old'[o] = status[o] /\ status'[o] = status[o]
      /\ status[o] = mapDeliveryStatusToOrderStatus(req[r].report)
  <2>1. lock[o] = r /\ status[o] = mapDeliveryStatusToOrderStatus(req[r].report)
    BY <1>2, <1>3 DEF ReportInv, CallsOK
  <2> QED BY <1>2, <2>1 DEF ReportInv, TypeOK, Released
<1>8. PICK x \in Rows(o) : x.writer = r /\ (Seen(x) <=> req[r].row # 0)
  BY <1>2, <1>3 DEF ReportInv, CallsOK
<1>9. x \in Row /\ x.status = req[r].report /\ \A z \in Rows(o) : z.writer = r => z = x
  BY <1>3, <1>8, Typed DEF ReportInv, RowsOK
<1>10. PICK y : y = Settled(x, r)
  OBVIOUS
<1>11. y.id = x.id /\ y.status = x.status /\ y.writer = Nobody /\ y.before = "VOID" /\ Seen(y)
  BY <1>8, <1>9, <1>10, SettledRow DEF Seen
<1>12. /\ assignments'[o] \in Seq(Row) /\ OneEach(assignments'[o])
       /\ Rows(o)' = (Rows(o) \ {x}) \cup {y}
  <2>1. PICK s : s = assignments[o]
    OBVIOUS
  <2>2. s \in Seq(Row) /\ OneEach(s) /\ Rows(o) = Range(s)
    BY <2>1, Typed DEF ReportInv, RowsOK, Rows
  <2>3. assignments'[o] = [i \in DOMAIN s |-> Settled(s[i], r)]
    BY <1>2, <2>1 DEF ReportInv, TypeOK
  <2>4. PICK t : t = [i \in DOMAIN s |-> Settled(s[i], r)]
    OBVIOUS
  <2>5. t \in Seq(Row) /\ OneEach(t) /\ Range(t) = {Settled(z, r) : z \in Range(s)}
    BY <2>2, <2>4, RowsMapped
  <2>6. {Settled(z, r) : z \in Rows(o)} = (Rows(o) \ {x}) \cup {y}
    <3>1. \A z \in Rows(o) : z # x => Settled(z, r) = z
      BY <1>9, Typed, SettledRow DEF ReportInv
    <3> QED BY <1>10, <3>1
  <2> QED BY <2>2, <2>3, <2>4, <2>5, <2>6 DEF Rows
<1>13. TypeOK'
  <2>1. assignments' \in [Order -> Seq(Row)]
    BY <1>2, <1>12 DEF ReportInv, TypeOK
  <2>2. lock' \in [Order -> Request \cup {Nobody}]
    BY <1>2 DEF ReportInv, TypeOK, Released
  <2>3. old' \in [Order -> OrderStatus]
    BY <1>2 DEF ReportInv, TypeOK
  <2>4. mails' \in [Order -> 0..2]
    <3>1. (IF mails[o] < 2 THEN mails[o] + 1 ELSE mails[o]) \in 0..2
      BY DEF ReportInv, TypeOK
    <3>2. mails \in [Order -> 0..2]
      BY DEF ReportInv, TypeOK
    <3> QED BY <1>4, <3>1, <3>2
  <2> QED BY <1>2, <1>5, <2>1, <2>2, <2>3, <2>4 DEF ReportInv, TypeOK, fixed
<1>14. Seens(o)' = (Seens(o) \ {x}) \cup {y}
  <2>1. \A z : z \in Seens(o)' <=> z \in Rows(o)' /\ Seen(z)
    BY DEF Seens
  <2>2. \A z : z \in Seens(o) <=> z \in Rows(o) /\ Seen(z)
    BY DEF Seens
  <2> QED BY <1>11, <1>12, <2>1, <2>2
<1>15. SeenIds(o)' = SeenIds(o) \cup {x.id}
  <2>1. \A z : z \in SeenIds(o)' <=> z \in SeenIds(o) \/ z = x.id
    BY <1>11, <1>14 DEF SeenIds
  <2> QED BY <2>1
<1>16. RowsOK(o)'
  <2>1. \A z \in Rows(o) : z.writer # Nobody => z.writer \in Request
    BY Typed DEF ReportInv, Row
  <2>2. ASSUME NEW z \in Rows(o), z # x
        PROVE  IF z.writer = Nobody THEN z.before = "VOID"
               ELSE /\ On(z.writer, o)' /\ req'[z.writer].step \in {"write", "commit"}
                    /\ z.status = req'[z.writer].report
                    /\ \A w \in Rows(o) \cup {y} : w.writer = z.writer => w = z
    BY <1>5, <1>6, <1>9, <1>11, <2>1, <2>2 DEF ReportInv, RowsOK
  <2> QED BY <1>11, <1>12, <2>2 DEF RowsOK
<1>17. CallsOK(o)'
  <2>1. ASSUME NEW q \in Request \ {r}, On(q, o)
        PROVE  /\ req[q].step # "commit"
               /\ \A z \in Rows(o) : z.writer = q => z \in Rows(o)'
    BY <1>7, <1>8, <1>12, <2>1 DEF ReportInv, CallsOK
  <2>2. On(r, o)' => (req'[r].row # 0 => req'[r].row \in SeenIds(o)')
    BY <1>3, <1>5, <1>15 DEF ReportInv, CallsOK
  <2>3. ASSUME NEW q \in Request \ {r}, On(q, o)'
        PROVE  /\ req'[q].step = "find" => req'[q].row = 0
               /\ req'[q].row # 0 => req'[q].row \in SeenIds(o)'
               /\ req'[q].step \in {"write", "commit"} =>
                    \E z \in Rows(o)' : z.writer = q /\ (Seen(z) <=> req'[q].row # 0)
               /\ req'[q].step # "commit"
    <3>1. On(q, o) /\ req'[q] = req[q]
      BY <1>5, <1>6, <2>3
    <3> QED BY <1>15, <2>1, <3>1 DEF ReportInv, CallsOK
  <2>4. On(r, o)' => req'[r].step = "mail"
    BY <1>5
  <2> QED BY <2>2, <2>3, <2>4 DEF CallsOK
<1>18. LockOK(o)'
  BY <1>7 DEF LockOK
<1>19. ShownOK(o)'
  <2>1. Shown(o)' = mapDeliveryStatusToOrderStatus(req[r].report)
    BY <1>7 DEF Shown
  <2>2. Said(y) = req[r].report
    BY <1>9, <1>11 DEF Said
  <2> QED BY <1>14, <2>1, <2>2 DEF ShownOK
<1>20. ApartOK(o)' /\ MailOK(o)'
  <2>1. /\ apart => mails[o] = 0
        /\ apart => \A q \in Request \ {r} : ~On(q, o)
    BY <1>2, <1>3 DEF ReportInv, ApartOK
  <2>2. mails[o] \in 0..2 /\ (mails[o] > 0 => ~selfPickup[o])
    BY DEF ReportInv, TypeOK, MailOK
  <2>3. CASE UNCHANGED mails
    <3>1. MailOK(o)'
      BY <1>2, <2>2, <2>3 DEF MailOK, fixed
    <3> QED BY <1>2, <1>5, <1>6, <2>1, <2>3, <3>1 DEF ApartOK, fixed
  <2>4. CASE /\ MailDue(o, req[r].report)
             /\ mails' = [mails EXCEPT ![o] = IF mails[o] < 2 THEN mails[o] + 1 ELSE mails[o]]
    <3>1. mails'[o] = IF mails[o] < 2 THEN mails[o] + 1 ELSE mails[o]
      BY <2>4 DEF ReportInv, TypeOK
    <3>2. status[o] = "DELIVERED" /\ ~selfPickup[o]
      BY <1>7, <2>4 DEF MailDue, mapDeliveryStatusToOrderStatus
    <3>3. apart => mails'[o] = 1
      BY <2>1, <3>1
    <3>4. MailOK(o)'
      BY <1>2, <3>2 DEF MailOK, fixed
    <3> QED BY <1>2, <1>5, <1>6, <2>1, <3>2, <3>3, <3>4 DEF ApartOK, fixed
  <2> QED BY <1>4, <2>3, <2>4
<1>21. CountOK(o)'
  <2>1. IsFiniteSet(SeenIds(o)) /\ Cardinality(SeenIds(o)) \in Nat
    BY SeenFinite
  <2>2. PICK F : F = Firsts(o)
    OBVIOUS
  <2>3. IsFiniteSet(F) /\ Cardinality(F) \in Nat /\ F \subseteq Request
    <3>1. F \subseteq Request
      BY <2>2 DEF Firsts
    <3> QED BY <3>1, SlotsAssumption, FS_Subset, FS_CardinalityType
  <2>4. Room \in Nat /\ Cardinality(SeenIds(o)) + Cardinality(F) <= Room
    BY <2>2, SlotsAssumption, FS_CardinalityType DEF ReportInv, CountOK, Room
  <2>5. CASE req[r].row = 0
    <3>1. r \in F
      BY <1>2, <1>3, <2>2, <2>5 DEF Firsts
    <3>2. Firsts(o)' = F \ {r}
      BY <1>5, <1>6, <2>2 DEF Firsts
    <3>3. Cardinality(F \ {r}) = Cardinality(F) - 1
      BY <2>3, <3>1, FS_RemoveElement
    <3>4. Cardinality(SeenIds(o) \cup {x.id}) <= Cardinality(SeenIds(o)) + 1
      BY <2>1, FS_AddElement
    <3>5. Cardinality(SeenIds(o) \cup {x.id}) \in Nat
      BY <2>1, FS_AddElement, FS_CardinalityType
    <3>6. Cardinality(SeenIds(o) \cup {x.id}) + Cardinality(F \ {r}) <= Room
      BY <2>1, <2>3, <2>4, <3>3, <3>4, <3>5
    <3> QED BY <1>2, <1>15, <3>2, <3>6 DEF CountOK, Room, fixed
  <2>6. CASE req[r].row # 0
    <3>1. SeenIds(o)' = SeenIds(o)
      BY <1>8, <1>15, <2>6 DEF SeenIds, Seens
    <3>2. Firsts(o)' = F
      BY <1>2, <1>5, <1>6, <2>2, <2>6 DEF Firsts
    <3> QED BY <1>2, <2>2, <2>4, <3>1, <3>2 DEF CountOK, Room, fixed
  <2> QED BY <2>5, <2>6
<1>22. \A p \in Order \ {o} : /\ assignments'[p] = assignments[p] /\ old'[p] = old[p]
                              /\ lock'[p] = lock[p] /\ mails'[p] = mails[p]
  BY <1>2, <1>4 DEF ReportInv, TypeOK, Released
<1> QED BY <1>2, <1>3, <1>5, <1>13, <1>16, <1>17, <1>18, <1>19, <1>20, <1>21, <1>22, OneOrder
\* Nothing of a report is left after a rollback, and the others see what they
\* saw.
LEMMA RollbackKept ==
  ASSUME ReportInv, NEW r \in Request, RollbackReport(r)
  PROVE  ReportInv'
<1>1. PICK o \in Order : o = req[r].order
  BY Typed DEF ReportInv, Call, RollbackReport
<1>2. /\ req[r] # Idle /\ req[r].step # "mail"
      /\ status' = [status EXCEPT ![o] = IF lock[o] = r THEN old[o] ELSE status[o]]
      /\ lock' = Released(o, r)
      /\ assignments' = [assignments EXCEPT ![o] = Undone(assignments[o], r)]
      /\ End(r)
      /\ UNCHANGED <<old, mails, fixed>>
  BY <1>1 DEF RollbackReport
<1>3. /\ req' \in [Request -> Call \cup {Idle}]
      /\ \A q \in Request : q # r => req'[q] = req[q]
      /\ req'[r] = Idle
  BY <1>2, Ended DEF ReportInv
<1>4. /\ On(r, o) /\ ~On(r, o)' /\ \A p \in Order \ {o} : ~On(r, p) /\ ~On(r, p)'
      /\ \A q \in Request \ {r} : (On(q, o)' <=> On(q, o))
      /\ r # Nobody
  BY <1>1, <1>2, <1>3, SlotsAssumption DEF On
<1>5. /\ status'[o] = IF lock[o] = r THEN old[o] ELSE status[o]
      /\ lock'[o] = IF lock[o] = r THEN Nobody ELSE lock[o]
      /\ old'[o] = old[o]
  BY <1>2 DEF ReportInv, TypeOK, Released
<1>6. Shown(o)' = Shown(o)
  BY <1>4, <1>5 DEF Shown
<1>7. \A x \in Rows(o) : /\ x \in Row
                         /\ Created(x, r) <=> x.writer = r /\ ~Seen(x)
                         /\ \A y \in Rows(o) : x.writer = r /\ y.writer = r => x = y
  BY <1>4, Typed DEF ReportInv, RowsOK, Created, Own
<1>8. /\ assignments'[o] \in Seq(Row) /\ OneEach(assignments'[o])
      /\ Rows(o)' = {Restored(x, r) : x \in {y \in Rows(o) : ~Created(y, r)}}
  <2>1. PICK s : s = assignments[o]
    OBVIOUS
  <2>2. s \in Seq(Row) /\ OneEach(s) /\ Rows(o) = Range(s)
    BY <2>1, Typed DEF ReportInv, RowsOK, Rows
  <2>3. assignments'[o] = Undone(s, r)
    BY <1>2, <2>1 DEF ReportInv, TypeOK
  <2>4. /\ Undone(s, r) \in Seq(Row) /\ OneEach(Undone(s, r))
        /\ Range(Undone(s, r)) = {Restored(x, r) : x \in {y \in Range(s) : ~Created(y, r)}}
    BY <1>7, <2>2, RowsUndone
  <2> QED BY <2>2, <2>3, <2>4 DEF Rows
<1>9. \A x \in Rows(o) : ~Created(x, r) =>
        /\ Restored(x, r).id = x.id
        /\ Seen(Restored(x, r)) <=> Seen(x)
        /\ Said(Restored(x, r)) = Said(x)
        /\ x.writer = r => Restored(x, r).writer = Nobody /\ Restored(x, r).before = "VOID"
        /\ x.writer # r => Restored(x, r) = x
  <2> SUFFICES ASSUME NEW x \in Rows(o), ~Created(x, r)
               PROVE  /\ Restored(x, r).id = x.id
                      /\ Seen(Restored(x, r)) <=> Seen(x)
                      /\ Said(Restored(x, r)) = Said(x)
                      /\ x.writer = r => Restored(x, r).writer = Nobody /\ Restored(x, r).before = "VOID"
                      /\ x.writer # r => Restored(x, r) = x
    OBVIOUS
  <2> QED BY <1>4, <1>7, RestoredRow DEF Seen, Said
<1>10. \A z : z \in Rows(o)' <=> \E x \in Rows(o) : ~Created(x, r) /\ z = Restored(x, r)
  BY <1>8
<1>11. Seens(o)' = {Restored(x, r) : x \in Seens(o)}
  <2>1. \A z : z \in Seens(o)' <=> z \in Rows(o)' /\ Seen(z)
    BY DEF Seens
  <2>2. \A z : z \in Seens(o) <=> z \in Rows(o) /\ ~Created(z, r) /\ Seen(z)
    BY <1>7 DEF Seens
  <2> QED BY <1>9, <1>10, <2>1, <2>2
<1>12. \A x \in Seens(o) : x \in Rows(o) /\ Restored(x, r).id = x.id /\ Said(Restored(x, r)) = Said(x)
  BY <1>7, <1>9 DEF Seens
<1>13. SeenIds(o)' = SeenIds(o)
  <2>1. \A z : z \in SeenIds(o)' <=> z \in SeenIds(o)
    BY <1>11, <1>12 DEF SeenIds
  <2> QED BY <2>1
<1>14. TypeOK'
  <2>1. assignments' \in [Order -> Seq(Row)]
    BY <1>2, <1>8 DEF ReportInv, TypeOK
  <2>2. lock' \in [Order -> Request \cup {Nobody}]
    BY <1>2 DEF ReportInv, TypeOK, Released
  <2>3. status' \in [Order -> OrderStatus]
    BY <1>2 DEF ReportInv, TypeOK
  <2> QED BY <1>2, <1>3, <2>1, <2>2, <2>3 DEF ReportInv, TypeOK, fixed
<1>15. RowsOK(o)'
  <2>1. \A x \in Rows(o) : x.writer # Nobody => x.writer \in Request
    BY Typed DEF ReportInv, Row
  <2>2. \A z \in Rows(o)' : z.writer = Nobody \/ (z \in Rows(o) /\ z.writer # r)
    BY <1>9, <1>10
  <2>3. ASSUME NEW z \in Rows(o)'
        PROVE  IF z.writer = Nobody THEN z.before = "VOID"
               ELSE /\ On(z.writer, o)' /\ req'[z.writer].step \in {"write", "commit"}
                    /\ z.status = req'[z.writer].report
                    /\ \A w \in Rows(o)' : w.writer = z.writer => w = z
    <3>1. CASE z.writer = Nobody
      <4>1. PICK x \in Rows(o) : ~Created(x, r) /\ z = Restored(x, r)
        BY <1>10, <2>3
      <4>2. x.writer # r => z = x /\ x.before = "VOID"
        BY <1>9, <3>1, <4>1 DEF ReportInv, RowsOK
      <4> QED BY <1>9, <3>1, <4>1, <4>2
    <3>2. CASE z.writer # Nobody
      <4>1. z \in Rows(o) /\ z.writer # r /\ z.writer \in Request
        BY <2>1, <2>2, <2>3, <3>2
      <4>2. /\ On(z.writer, o) /\ req[z.writer].step \in {"write", "commit"}
            /\ z.status = req[z.writer].report
            /\ \A w \in Rows(o) : w.writer = z.writer => w = z
        BY <3>2, <4>1 DEF ReportInv, RowsOK
      <4>3. \A w \in Rows(o)' : w.writer = z.writer => w = z
        BY <2>2, <3>2, <4>2
      <4> QED BY <1>3, <1>4, <3>2, <4>1, <4>2, <4>3
    <3> QED BY <3>1, <3>2
  <2> QED BY <1>8, <2>3 DEF RowsOK
<1>16. CallsOK(o)'
  <2>1. ASSUME NEW q \in Request \ {r}, NEW x \in Rows(o), x.writer = q PROVE x \in Rows(o)'
    <3>1. ~Created(x, r) /\ Restored(x, r) = x
      BY <1>7, <1>9, <2>1
    <3> QED BY <1>10, <3>1
  <2>2. ASSUME NEW q \in Request, On(q, o)'
        PROVE  /\ q # r /\ On(q, o) /\ req'[q] = req[q]
               /\ req[q].step = "commit" => lock'[o] = lock[o] /\ status'[o] = status[o]
    <3>1. q # r /\ On(q, o) /\ req'[q] = req[q]
      BY <1>3, <1>4, <2>2
    <3>2. req[q].step = "commit" => lock[o] = q
      BY <3>1 DEF ReportInv, CallsOK
    <3> QED BY <1>5, <3>1, <3>2
  <2> QED BY <1>13, <2>1, <2>2 DEF ReportInv, CallsOK
<1>17. LockOK(o)'
  <2>1. CASE lock[o] = r
    BY <1>5, <2>1 DEF LockOK
  <2>2. CASE lock[o] # r
    <3>1. lock[o] # Nobody => lock[o] \in Request \ {r}
      BY <2>2 DEF ReportInv, TypeOK
    <3> QED BY <1>3, <1>4, <1>5, <2>2, <3>1 DEF ReportInv, LockOK
  <2> QED BY <2>1, <2>2
<1>18. ShownOK(o)'
  <2>1. Seens(o)' = {} => Seens(o) = {}
    BY <1>11
  <2>2. ASSUME NEW z \in Seens(o)', Seens(o)' = {z}
        PROVE  Shown(o) = mapDeliveryStatusToOrderStatus(Said(z))
    <3>1. PICK x \in Seens(o) : z = Restored(x, r)
      BY <1>11, <2>2
    <3>2. ASSUME NEW w \in Seens(o) PROVE w = x
      <4>1. Restored(w, r) = z
        BY <1>11, <2>2, <3>2
      <4>2. w.id = x.id /\ w \in Rows(o) /\ x \in Rows(o)
        BY <1>12, <3>1, <3>2, <4>1
      <4> QED BY <4>2, TwoIds
    <3>3. Seens(o) = {x}
      BY <3>2
    <3> QED BY <1>12, <3>1, <3>3 DEF ReportInv, ShownOK
  <2> QED BY <1>6, <2>1, <2>2 DEF ReportInv, ShownOK
<1>19. ApartOK(o)' /\ MailOK(o)'
  <2>1. apart => mails[o] = 0
    BY <1>2, <1>4 DEF ReportInv, ApartOK
  <2>2. MailOK(o)'
    BY <1>2 DEF ReportInv, MailOK, fixed
  <2>3. apart => ~(mails[o] > 0)
    BY <2>1
  <2> QED BY <1>2, <1>3, <1>4, <2>1, <2>2, <2>3 DEF ReportInv, ApartOK, fixed
<1>20. CountOK(o)'
  <2>1. PICK F : F = Firsts(o)
    OBVIOUS
  <2>2. IsFiniteSet(F) /\ Cardinality(F) \in Nat
    <3>1. F \subseteq Request
      BY <2>1 DEF Firsts
    <3> QED BY <3>1, SlotsAssumption, FS_Subset, FS_CardinalityType
  <2>3. Firsts(o)' = F \ {r}
    BY <1>3, <1>4, <2>1 DEF Firsts
  <2>4. Cardinality(F \ {r}) \in Nat /\ Cardinality(F \ {r}) <= Cardinality(F)
    <3>1. F \ {r} \in SUBSET F
      OBVIOUS
    <3>2. IsFiniteSet(F \ {r}) /\ Cardinality(F \ {r}) <= Cardinality(F)
      BY <2>2, <3>1, FS_Subset
    <3> QED BY <3>2, FS_CardinalityType
  <2>5. Cardinality(SeenIds(o)) \in Nat
    BY SeenFinite
  <2>6. Room \in Nat /\ Cardinality(SeenIds(o)) + Cardinality(F) <= Room
    BY <2>1, SlotsAssumption, FS_CardinalityType DEF ReportInv, CountOK, Room
  <2>7. Cardinality(SeenIds(o)) + Cardinality(F \ {r}) <= Room
    BY <2>2, <2>4, <2>5, <2>6
  <2> QED BY <1>2, <1>13, <2>3, <2>7 DEF CountOK, Room, fixed
<1>21. \A p \in Order \ {o} : /\ assignments'[p] = assignments[p] /\ status'[p] = status[p]
                              /\ old'[p] = old[p] /\ lock'[p] = lock[p] /\ mails'[p] = mails[p]
  BY <1>2 DEF ReportInv, TypeOK, Released
<1> QED BY <1>2, <1>3, <1>4, <1>14, <1>15, <1>16, <1>17, <1>18, <1>19, <1>20, <1>21, OneOrder
-----------------------------------------------------------------------------
(* The theorems                                                            *)

\* Every step keeps the invariant.
LEMMA ReportStep == ReportInv /\ [Next]_vars => ReportInv'
<1> SUFFICES ASSUME ReportInv, [Next]_vars PROVE ReportInv'
  OBVIOUS
<1>1. CASE UNCHANGED vars
  <2>1. UNCHANGED <<status, old, lock, assignments, selfPickup, req, mails, apart>>
    BY <1>1 DEF vars, reportVars, fixed
  <2>2. TypeOK'
    BY <2>1 DEF ReportInv, TypeOK
  <2>3. ASSUME NEW o \in Order
        PROVE  /\ RowsOK(o)' /\ CallsOK(o)' /\ LockOK(o)' /\ ShownOK(o)'
               /\ CountOK(o)' /\ ApartOK(o)' /\ MailOK(o)'
    <3>1. RowsOK(o)' /\ LockOK(o)'
      BY <2>1 DEF ReportInv, RowsOK, LockOK, On, Rows
    <3>2. SeenIds(o)' = SeenIds(o) /\ Seens(o)' = Seens(o) /\ Firsts(o)' = Firsts(o)
      BY <2>1 DEF SeenIds, Seens, Rows, Firsts, On
    <3>3. CallsOK(o)'
      BY <2>1, <3>2 DEF ReportInv, CallsOK, On, Rows
    <3>4. ShownOK(o)' /\ CountOK(o)'
      BY <2>1, <3>2 DEF ReportInv, ShownOK, Shown, CountOK, Room
    <3>5. ApartOK(o)' /\ MailOK(o)'
      BY <2>1 DEF ReportInv, ApartOK, MailOK, On
    <3> QED BY <3>1, <3>3, <3>4, <3>5
  <2> QED BY <2>2, <2>3 DEF ReportInv
<1>2. ASSUME NEW r \in Request, Progress(r) PROVE ReportInv'
  BY <1>2, FindKept, CreateKept, UpdateKept, WriteKept, CommitKept, AfterMailKept DEF Progress
<1>3. ASSUME NEW r \in Request, RollbackReport(r) PROVE ReportInv'
  BY <1>3, RollbackKept
<1>4. ASSUME NEW r \in Request, NEW o \in Order, NEW d \in Report, ReadReport(r, o, d) PROVE ReportInv'
  BY <1>4, ReadKept
<1> QED BY <1>1, <1>2, <1>3, <1>4 DEF Next

\* The invariant holds in every behaviour of updateDeliveryStatus.
THEOREM ReportInvariant == Spec => []ReportInv
<1>1. Init => ReportInv
  BY InitReport
<1>2. ReportInv /\ [Next]_vars => ReportInv'
  BY ReportStep
<1> QED BY <1>1, <1>2, PTL DEF Spec

\* Every variable has its type, whatever reports arrive and fail.
THEOREM ReportTypes == Spec => []TypeOK
<1>1. ReportInv => TypeOK
  BY DEF ReportInv
<1> QED BY <1>1, ReportInvariant, PTL

\* Once no report is at work on an order, the order and its only assignment
\* say the same, and nothing of a report that was rolled back.
THEOREM OrderAndAssignmentAgree == Spec => []ReportAgrees
<1>1. ReportInv => ReportAgrees
  <2> SUFFICES ASSUME ReportInv, NEW o \in Order, ~InTransaction(o)
               PROVE  /\ Rows(o) = {} => status[o] = "PAYMENT_VERIFIED"
                      /\ \A x \in Rows(o) : Rows(o) = {x} =>
                           status[o] = mapDeliveryStatusToOrderStatus(x.status)
    BY DEF ReportAgrees
  <2>1. \A q \in Request : On(q, o) => req[q].step \notin {"write", "commit"}
    BY DEF InTransaction, On
  <2>2. \A x \in Rows(o) : x.writer = Nobody
    BY <2>1, Typed DEF ReportInv, RowsOK, Row
  <2>3. lock[o] = Nobody
    BY <2>1 DEF ReportInv, TypeOK, LockOK
  <2>4. Seens(o) = Rows(o) /\ Shown(o) = status[o] /\ \A x \in Rows(o) : Said(x) = x.status
    BY <2>2, <2>3 DEF Seens, Seen, Shown, Said
  <2> QED BY <2>4 DEF ReportInv, ShownOK
<1> QED BY <1>1, ReportInvariant, PTL

\* The rows that only their report sees are no more than the reports that may
\* leave one.
LEMMA FreshRows ==
  ASSUME ReportInv, NEW o \in Order, NEW I, I = {x.id : x \in {z \in Rows(o) : ~Seen(z)}}
  PROVE  /\ IsFiniteSet(I) /\ Cardinality(I) \in Nat
         /\ Cardinality(Firsts(o)) \in Nat /\ Cardinality(I) <= Cardinality(Firsts(o))
<1> DEFINE new == {z \in Rows(o) : ~Seen(z)}
<1>1. PICK F : F = Firsts(o)
  OBVIOUS
<1>2. F \subseteq Request /\ IsFiniteSet(F) /\ Cardinality(F) \in Nat
  <2>1. F \subseteq Request
    BY <1>1 DEF Firsts
  <2> QED BY <2>1, SlotsAssumption, FS_Subset, FS_CardinalityType
<1>3. ASSUME NEW x \in new
      PROVE  /\ x.writer \in F
             /\ \A y \in new : y.writer = x.writer => y = x
  <2>1. x \in Rows(o) /\ ~Seen(x) /\ x.writer # Nobody
    BY DEF Seen
  <2>2. x.writer \in Request
    BY <2>1, Typed DEF ReportInv, Row
  <2>3. /\ On(x.writer, o) /\ req[x.writer].step \in {"write", "commit"}
        /\ \A y \in Rows(o) : y.writer = x.writer => y = x
    BY <2>1 DEF ReportInv, RowsOK
  <2>4. req[x.writer].row = 0
    BY <2>1, <2>2, <2>3 DEF ReportInv, CallsOK
  <2> QED BY <1>1, <2>2, <2>3, <2>4 DEF Firsts
<1> DEFINE W == {x.writer : x \in new}
           g == [q \in W |-> (CHOOSE x \in new : x.writer = q).id]
<1>4. I = {x.id : x \in new}
  OBVIOUS
<1> HIDE DEF new
<1>5. \A x \in new : (CHOOSE y \in new : y.writer = x.writer) = x
  BY <1>3
<1>6. g \in Surjection(W, I)
  <2>1. ASSUME NEW x \in new PROVE x.writer \in W /\ g[x.writer] = x.id
    <3>1. g[x.writer] = (CHOOSE y \in new : y.writer = x.writer).id
      OBVIOUS
    <3> QED BY <1>5, <3>1
  <2>2. \A q \in W : \E x \in new : q = x.writer
    OBVIOUS
  <2>3. g = [q \in W |-> g[q]]
    OBVIOUS
  <2> HIDE DEF W, g
  <2>4. \A q \in W : g[q] \in I
    BY <1>4, <2>1, <2>2
  <2>5. \A i \in I : \E q \in W : g[q] = i
    BY <1>4, <2>1
  <2>6. g \in [W -> I]
    BY <2>3, <2>4
  <2> QED BY <2>5, <2>6 DEF Surjection
<1>7. W \subseteq F
  BY <1>3
<1> HIDE DEF W, g
<1>8. IsFiniteSet(W) /\ Cardinality(W) \in Nat /\ Cardinality(W) <= Cardinality(F)
  BY <1>2, <1>7, FS_Subset, FS_CardinalityType
<1>9. IsFiniteSet(I) /\ Cardinality(I) <= Cardinality(W)
  BY <1>6, <1>8, FS_Surjection
<1>10. Cardinality(I) \in Nat
  BY <1>9, FS_CardinalityType
<1> QED BY <1>1, <1>2, <1>8, <1>9, <1>10

\* However many reports an order gets, it has no more assignments than there
\* are requests at once, and one where none overlap.
THEOREM AssignmentsAreBounded == Spec => []AssignmentsBounded
<1>1. ReportInv => AssignmentsBounded
  <2> SUFFICES ASSUME ReportInv, NEW o \in Order PROVE Len(assignments[o]) <= Room
    BY DEF AssignmentsBounded, Room
  <2>1. PICK I : I = {x.id : x \in {z \in Rows(o) : ~Seen(z)}}
    OBVIOUS
  <2>2. PICK J : J = SeenIds(o)
    OBVIOUS
  <2>3. /\ IsFiniteSet(I) /\ Cardinality(I) \in Nat
        /\ Cardinality(Firsts(o)) \in Nat /\ Cardinality(I) <= Cardinality(Firsts(o))
    BY <2>1, FreshRows
  <2>4. IsFiniteSet(J) /\ Cardinality(J) \in Nat
    BY <2>2, SeenFinite
  <2>5. /\ Cardinality({x.id : x \in Rows(o)}) = Len(assignments[o])
        /\ Len(assignments[o]) \in Nat
    BY Typed, RowsCounted, LenProperties DEF ReportInv, RowsOK, Rows
  <2>6. {x.id : x \in Rows(o)} = J \cup I
    BY <2>1, <2>2 DEF SeenIds, Seens
  <2>7. Cardinality(J \cup I) = Cardinality(J) + Cardinality(I) - Cardinality(J \cap I)
    BY <2>3, <2>4, FS_Union
  <2>8. Cardinality(J \cap I) \in Nat
    BY <2>4, FS_Intersection, FS_CardinalityType
  <2>9. Room \in Nat /\ Cardinality(J) + Cardinality(Firsts(o)) <= Room
    BY <2>2, SlotsAssumption, FS_CardinalityType DEF ReportInv, CountOK, Room
  <2>10. Len(assignments[o]) = Cardinality(J \cup I)
    BY <2>5, <2>6, Zenon
  <2> QED BY <2>3, <2>4, <2>5, <2>7, <2>8, <2>9, <2>10
<1> QED BY <1>1, ReportInvariant, PTL

\* No confirmation goes to a buyer who picked the gift up, and where reports
\* do not overlap one alone, once the gift is delivered for good.
THEOREM ConfirmedOnlyOnce == Spec => []ConfirmedOnce
<1>1. ReportInv => ConfirmedOnce
  BY DEF ReportInv, ApartOK, MailOK, ConfirmedOnce
<1> QED BY <1>1, ReportInvariant, PTL
=============================================================================
