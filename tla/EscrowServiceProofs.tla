------------------------- MODULE EscrowServiceProofs -------------------------
(***************************************************************************)
(* Theorems about EscrowService, for every set of escrows and handlers and *)
(* every amount and split into milestones.                                 *)
(*                                                                         *)
(* An escrow row claims something about money: that it was locked, that    *)
(* the milestones it counts were paid, that a settled row was paid out or  *)
(* refunded.  A save makes such a claim when it is made, long after it was *)
(* planned, so the invariant speaks of the lists of writes that handlers   *)
(* have left: what a save claims has happened already, or is an earlier    *)
(* write of the same list.  The carrier's pendingRelease is what those     *)
(* lists are about to confirm, added up over the handlers.                 *)
(***************************************************************************)
EXTENDS EscrowService, TLAPS, SequenceTheorems, FiniteSetTheorems

-----------------------------------------------------------------------------
(* The strengthening. *)

Index(todo) == 1 .. Len(todo)

(* What write w adds, when it is one of dos. *)
Gain(w, dos) == IF w.do \in dos THEN w.n ELSE 0

Locking == {"lock"}
Paying == {"confirm", "creditCarrier"}
Refunding == {"creditShipper"}
Moving == Paying \cup Refunding

(* Before write i of the list is made, `have` has grown to `need`.  No     *)
(* list needs more than two of its writes for that.                        *)
Covered(need, have, todo, dos, i) ==
  \/ need <= have
  \/ \E j \in 1 .. i - 1 : need <= have + Gain(todo[j], dos)
  \/ \E j, k \in 1 .. i - 1 : j # k /\ need <= have + Gain(todo[j], dos) + Gain(todo[k], dos)

(* What a row claims, when it is saved by write i. *)
Backed(row, price, p, r, todo, i) ==
  /\ Covered(row.sent, p, todo, Paying, i)
  /\ row.status = "SERBEST_BIRAKILDI" => Covered(price, p + r, todo, Moving, i)
  /\ row.status = "IPTAL_EDILDI" => Covered(price, r, todo, Refunding, i)

WriteRight(price, l, p, r, todo, i) ==
  /\ todo[i].do \in {"lock", "release"} \cup Moving => todo[i].n \in Nat
  /\ todo[i].do = "insert" => Covered(price, l, todo, Locking, i)
  /\ todo[i].do = "save" => price <= l /\ Backed(todo[i].row, price, p, r, todo, i)

TodoRight(price, l, p, r, todo) == \A i \in Index(todo) : WriteRight(price, l, p, r, todo, i)

JobRight(h) ==
  job[h] # NoJob =>
    TodoRight(Price[job[h].e], locked[job[h].e], paid[job[h].e], refunded[job[h].e], job[h].todo)

JobsRight == \A h \in Handlers : JobRight(h)

Inductive ==
  /\ TypeOK
  /\ JobsRight
  /\ EscrowRowsAreFunded /\ SettledMeansPaid /\ MilestonesArePaid

-----------------------------------------------------------------------------
(* Lists of writes. *)

LEMMA GainIsNat ==
  ASSUME NEW todo \in Seq(Writes), NEW i \in Index(todo),
         todo[i].do \in {"lock", "release"} \cup Moving => todo[i].n \in Nat,
         NEW dos \in {Locking, Paying, Refunding, Moving}
  PROVE  Gain(todo[i], dos) \in Nat
BY DEF Gain, Locking, Paying, Refunding, Moving

(* Amounts only grow, so what is covered stays covered. *)
LEMMA CoveredGrows ==
  ASSUME NEW todo, NEW i \in Nat, NEW dos,
         \A j \in 1 .. i - 1 : Gain(todo[j], dos) \in Nat,
         NEW need \in Int, NEW have \in Int, NEW more \in Int, have <= more,
         Covered(need, have, todo, dos, i)
  PROVE  Covered(need, more, todo, dos, i)
BY DEF Covered

(* The first write of a list is made: what it added is there.              *)
LEMMA CoveredTail ==
  ASSUME NEW todo \in Seq(Writes), todo # << >>, NEW i \in Index(Tail(todo)), NEW dos,
         \A j \in Index(todo) : Gain(todo[j], dos) \in Nat,
         NEW need \in Int, NEW have \in Int, NEW more \in Int, have + Gain(todo[1], dos) <= more,
         Covered(need, have, todo, dos, i + 1)
  PROVE  Covered(need, more, Tail(todo), dos, i)
<1>1. /\ Len(todo) \in Nat /\ Len(Tail(todo)) = Len(todo) - 1 /\ i \in Nat /\ i <= Len(todo) - 1 /\ i >= 1
      /\ \A j \in 1 .. Len(todo) - 1 : Tail(todo)[j] = todo[j + 1]
  BY DEF Index
<1>2. Gain(todo[1], dos) \in Nat /\ \A j \in 1 .. i : Gain(todo[j], dos) \in Nat
  BY <1>1 DEF Index
<1>3. ASSUME NEW j \in 1 .. i, j # 1
      PROVE  /\ j - 1 \in 1 .. i - 1
             /\ Gain(Tail(todo)[j - 1], dos) = Gain(todo[j], dos)
  <2>1. j - 1 \in 1 .. i - 1 /\ j - 1 \in 1 .. Len(todo) - 1 /\ (j - 1) + 1 = j
    BY <1>1, <1>3
  <2>2. Tail(todo)[j - 1] = todo[j]
    BY <1>1, <2>1
  <2> QED
    BY <2>1, <2>2
<1>4. CASE need <= have
  <2>1. need <= more
    BY <1>2, <1>4
  <2> QED
    BY <2>1 DEF Covered
<1>5. ASSUME NEW j \in 1 .. i, need <= have + Gain(todo[j], dos)
      PROVE  Covered(need, more, Tail(todo), dos, i)
  <2>1. CASE j = 1
    <3>1. need <= more
      BY <1>2, <1>5, <2>1
    <3> QED
      BY <3>1 DEF Covered
  <2>2. CASE j # 1
    <3> DEFINE g == Gain(todo[j], dos)
    <3>1. g \in Nat /\ need <= have + g /\ have <= more
      BY <1>2, <1>5
    <3>2. j - 1 \in 1 .. i - 1 /\ Gain(Tail(todo)[j - 1], dos) = g
      BY <1>3, <2>2
    <3> HIDE DEF g
    <3>3. need <= more + g
      BY <3>1
    <3> QED
      BY <3>2, <3>3 DEF Covered
  <2> QED
    BY <2>1, <2>2
<1>6. ASSUME NEW j \in 1 .. i, NEW k \in 1 .. i, j # k,
             need <= have + Gain(todo[j], dos) + Gain(todo[k], dos)
      PROVE  Covered(need, more, Tail(todo), dos, i)
  <2> DEFINE first == Gain(todo[1], dos)
             g == Gain(todo[j], dos)
             f == Gain(todo[k], dos)
  <2>1. /\ g \in Nat /\ f \in Nat /\ first \in Nat
        /\ need <= have + g + f /\ have + first <= more
        /\ j = 1 => g = first
        /\ k = 1 => f = first
    BY <1>2, <1>6
  <2>2. /\ j # 1 => j - 1 \in 1 .. i - 1 /\ Gain(Tail(todo)[j - 1], dos) = g
        /\ k # 1 => k - 1 \in 1 .. i - 1 /\ Gain(Tail(todo)[k - 1], dos) = f
    BY <1>3
  <2> HIDE DEF first, f, g
  <2>3. CASE j = 1
    <3>1. need <= more + f
      BY <2>1, <2>3
    <3> QED
      BY <1>6, <2>2, <2>3, <3>1 DEF Covered
  <2>4. CASE k = 1
    <3>1. need <= more + g
      BY <2>1, <2>4
    <3> QED
      BY <1>6, <2>2, <2>4, <3>1 DEF Covered
  <2>5. CASE j # 1 /\ k # 1
    <3>1. need <= more + g + f
      BY <2>1
    <3>2. j - 1 # k - 1
      BY <1>1, <1>6
    <3> QED
      BY <2>2, <2>5, <3>1, <3>2 DEF Covered
  <2> QED
    BY <2>3, <2>4, <2>5
<1>7. (i + 1) - 1 = i
  BY <1>1
<1> QED
  BY <1>4, <1>5, <1>6, <1>7 DEF Covered

(* At the head of the list nothing is left to come. *)
LEMMA CoveredHead ==
  ASSUME NEW need, NEW have, NEW todo, NEW dos, Covered(need, have, todo, dos, 1)
  PROVE  need <= have
BY DEF Covered

-----------------------------------------------------------------------------
(* The lists that operations take up. *)

(* What is right about a list that a handler takes up for e. *)
Fits(e, todo) ==
  /\ todo \in Seq(Writes) /\ todo # << >>
  /\ TodoRight(Price[e], locked[e], paid[e], refunded[e], todo)

(* A row whose claims hold already. *)
Fine(row, e) ==
  /\ row \in Row
  /\ row.sent <= paid[e]
  /\ row.status = "SERBEST_BIRAKILDI" => Price[e] <= paid[e] + refunded[e]
  /\ row.status = "IPTAL_EDILDI" => Price[e] <= refunded[e]

LEMMA Amounts ==
  ASSUME TypeOK, NEW e \in Escrows
  PROVE  /\ Price[e] \in Nat /\ Price[e] > 0
         /\ locked[e] \in Nat /\ paid[e] \in Nat /\ refunded[e] \in Nat
         /\ Shares[e] \in Seq(Nat)
BY AmountsAssumption DEF TypeOK

LEMMA ReadRow ==
  ASSUME Inductive, NEW e \in Escrows, escrow[e] # NoRow
  PROVE  Fine(escrow[e], e) /\ Price[e] <= locked[e] /\ escrow[e].status \in Statuses
<1>1. escrow[e] \in Row
  BY DEF Inductive, TypeOK
<1>2. Price[e] <= locked[e]
  BY Amounts DEF Inductive, EscrowRowsAreFunded
<1> QED
  BY <1>1, <1>2, Amounts DEF Inductive, SettledMeansPaid, MilestonesArePaid, Fine, Row

LEMMA FineIsBacked ==
  ASSUME NEW e, NEW row, Fine(row, e), NEW todo, NEW i
  PROVE  Backed(row, Price[e], paid[e], refunded[e], todo, i)
BY DEF Fine, Backed, Covered

(* Writing another status, not a settled one, into a row. *)
LEMMA FineUnsettled ==
  ASSUME NEW e, NEW row, Fine(row, e), NEW s \in Statuses \ {"SERBEST_BIRAKILDI", "IPTAL_EDILDI"}
  PROVE  /\ Fine([row EXCEPT !.status = s], e)
         /\ \A review \in BOOLEAN : Fine([row EXCEPT !.status = s, !.review = review], e)
<1>1. [row EXCEPT !.status = s] \in Row /\ [row EXCEPT !.status = s].status = s
      /\ [row EXCEPT !.status = s].sent = row.sent
  BY DEF Fine, Row
<1>2. ASSUME NEW review \in BOOLEAN
      PROVE  /\ [row EXCEPT !.status = s, !.review = review] \in Row
             /\ [row EXCEPT !.status = s, !.review = review].status = s
             /\ [row EXCEPT !.status = s, !.review = review].sent = row.sent
  BY <1>2 DEF Fine, Row
<1> QED
  BY <1>1, <1>2 DEF Fine

LEMMA ItemsFit ==
  ASSUME NEW e \in Escrows, NEW todo \in Seq(Writes), Len(todo) >= 1, Price[e] <= locked[e],
         \A i \in Index(todo) :
           /\ todo[i].do # "insert"
           /\ todo[i].do \in {"lock", "release"} \cup Moving => todo[i].n \in Nat
           /\ todo[i].do = "save" => Backed(todo[i].row, Price[e], paid[e], refunded[e], todo, i)
  PROVE  Fits(e, todo)
<1>1. todo # << >>
  OBVIOUS
<1> QED
  BY <1>1 DEF Fits, TodoRight, WriteRight

(* What each kind of write is. *)
LEMMA WriteKinds ==
  /\ \A row \in Row : Save(row) \in Writes /\ Save(row).do = "save" /\ Save(row).row = row
  /\ \A n \in Nat : /\ LockFunds(n) \in Writes /\ LockFunds(n).do = "lock" /\ LockFunds(n).n = n
                    /\ Release(n) \in Writes /\ Release(n).do = "release" /\ Release(n).n = n
                    /\ Confirm(n) \in Writes /\ Confirm(n).do = "confirm" /\ Confirm(n).n = n
                    /\ CreditCarrier(n) \in Writes /\ CreditCarrier(n).do = "creditCarrier"
                    /\ CreditCarrier(n).n = n
                    /\ CreditShipper(n) \in Writes /\ CreditShipper(n).do = "creditShipper"
                    /\ CreditShipper(n).n = n
  /\ Insert \in Writes /\ Insert.do = "insert"
  /\ \A s \in {"open", "resolved"} : Dispute(s) \in Writes /\ Dispute(s).do = "dispute"
<1>1. \A row \in Row : Save(row) \in Writes /\ Save(row).do = "save" /\ Save(row).row = row
  BY DEF Save, Writes
<1>2. \A n \in Nat : /\ LockFunds(n) \in Writes /\ LockFunds(n).do = "lock" /\ LockFunds(n).n = n
                     /\ Release(n) \in Writes /\ Release(n).do = "release" /\ Release(n).n = n
  BY DEF LockFunds, Release, Writes
<1>3. \A n \in Nat : Confirm(n) \in Writes /\ Confirm(n).do = "confirm" /\ Confirm(n).n = n
  BY DEF Confirm, Writes
<1>4. \A n \in Nat : /\ CreditCarrier(n) \in Writes /\ CreditCarrier(n).do = "creditCarrier"
                     /\ CreditCarrier(n).n = n
                     /\ CreditShipper(n) \in Writes /\ CreditShipper(n).do = "creditShipper"
                     /\ CreditShipper(n).n = n
  BY DEF CreditCarrier, CreditShipper, Writes
<1>5. Insert \in Writes /\ Insert.do = "insert"
  BY DEF Insert, Writes
<1>6. \A s \in {"open", "resolved"} : Dispute(s) \in Writes /\ Dispute(s).do = "dispute"
  BY DEF Dispute, Writes
<1> QED
  BY <1>1, <1>2, <1>3, <1>4, <1>5, <1>6

LEMMA CreateFits ==
  ASSUME TypeOK, NEW e \in Escrows
  PROVE  Fits(e, <<LockFunds(Price[e]), Insert>>)
<1> DEFINE todo == <<LockFunds(Price[e]), Insert>>
<1>1. /\ todo \in Seq(Writes) /\ todo # << >> /\ Len(todo) = 2
      /\ todo[1] = LockFunds(Price[e]) /\ todo[2] = Insert
  BY Amounts, WriteKinds
<1> HIDE DEF todo
<1>2. /\ todo[1].do = "lock" /\ todo[1].n = Price[e] /\ todo[2].do = "insert"
      /\ Price[e] \in Nat /\ locked[e] \in Nat /\ Index(todo) = {1, 2}
  BY <1>1, Amounts, WriteKinds DEF Index
<1>3. Covered(Price[e], locked[e], todo, Locking, 2)
  <2>1. 1 \in 1 .. 2 - 1 /\ Price[e] <= locked[e] + Gain(todo[1], Locking)
    BY <1>2 DEF Gain, Locking
  <2> QED
    BY <2>1 DEF Covered
<1>4. TodoRight(Price[e], locked[e], paid[e], refunded[e], todo)
  BY <1>2, <1>3 DEF TodoRight, WriteRight, Moving, Paying, Refunding
<1> QED
  BY <1>1, <1>4 DEF Fits, todo

(* Rows whose claims hold already are saved, and a dispute perhaps.        *)
LEMMA FineFits ==
  ASSUME NEW e \in Escrows, Price[e] <= locked[e], NEW a, NEW b, Fine(a, e), Fine(b, e)
  PROVE  /\ Fits(e, <<Save(a)>>)
         /\ Fits(e, <<Save(a), Save(b)>>)
         /\ Fits(e, <<Save(a), Dispute("open")>>)
<1>1. /\ Save(a) \in Writes /\ Save(b) \in Writes /\ Dispute("open") \in Writes
      /\ Save(a).do = "save" /\ Save(b).do = "save" /\ Dispute("open").do = "dispute"
      /\ Save(a).row = a /\ Save(b).row = b
  BY WriteKinds DEF Fine
<1>2. ASSUME NEW todo \in Seq(Writes), Len(todo) >= 1,
             \A i \in Index(todo) : todo[i] \in {Save(a), Save(b), Dispute("open")}
      PROVE  Fits(e, todo)
  <2>1. \A i \in Index(todo) :
          /\ todo[i].do \in {"save", "dispute"}
          /\ todo[i].do = "save" => Backed(todo[i].row, Price[e], paid[e], refunded[e], todo, i)
    BY <1>1, <1>2, FineIsBacked
  <2> QED
    BY <1>2, <2>1, ItemsFit DEF Moving, Paying, Refunding
<1>3. Fits(e, <<Save(a)>>)
  <2> DEFINE todo == <<Save(a)>>
  <2>1. todo \in Seq(Writes) /\ Len(todo) >= 1 /\ \A i \in Index(todo) : todo[i] = Save(a)
    BY <1>1 DEF Index
  <2> HIDE DEF todo
  <2>2. Fits(e, todo)
    BY <1>2, <2>1
  <2> QED
    BY <2>2 DEF todo
<1>4. Fits(e, <<Save(a), Save(b)>>)
  <2> DEFINE todo == <<Save(a), Save(b)>>
  <2>1. todo \in Seq(Writes) /\ Len(todo) >= 1 /\ \A i \in Index(todo) : todo[i] \in {Save(a), Save(b)}
    BY <1>1 DEF Index
  <2> HIDE DEF todo
  <2>2. Fits(e, todo)
    BY <1>2, <2>1
  <2> QED
    BY <2>2 DEF todo
<1>5. Fits(e, <<Save(a), Dispute("open")>>)
  <2> DEFINE todo == <<Save(a), Dispute("open")>>
  <2>1. todo \in Seq(Writes) /\ Len(todo) >= 1 /\ \A i \in Index(todo) : todo[i] \in {Save(a), Dispute("open")}
    BY <1>1 DEF Index
  <2> HIDE DEF todo
  <2>2. Fits(e, todo)
    BY <1>2, <2>1
  <2> QED
    BY <2>2 DEF todo
<1> QED
  BY <1>3, <1>4, <1>5

(* A payment of the whole amount, or of what the milestones have left,     *)
(* before the row is settled.                                              *)
LEMMA PaidBefore ==
  ASSUME TypeOK, NEW e \in Escrows, NEW row \in Row, row.sent <= paid[e],
         row.status = "SERBEST_BIRAKILDI", NEW todo, NEW i \in Nat, NEW j \in 1 .. i - 1, NEW n \in Nat,
         todo[j].do \in Paying, todo[j].n = n, n = Price[e] \/ n = Price[e] - row.sent
  PROVE  Backed(row, Price[e], paid[e], refunded[e], todo, i)
<1>1. Gain(todo[j], Moving) = n
  BY DEF Gain, Moving
<1>2. Price[e] <= paid[e] + refunded[e] + n
  <2>1. row.sent \in Nat /\ Price[e] \in Nat /\ paid[e] \in Nat /\ refunded[e] \in Nat
    BY Amounts DEF Row
  <2> QED
    BY <2>1
<1> QED
  BY <1>1, <1>2 DEF Backed, Covered

LEMMA RefundedBefore ==
  ASSUME TypeOK, NEW e \in Escrows, NEW row \in Row, row.sent <= paid[e],
         row.status = "IPTAL_EDILDI", NEW todo, NEW i \in Nat, NEW j \in 1 .. i - 1,
         todo[j].do \in Refunding, todo[j].n = Price[e]
  PROVE  Backed(row, Price[e], paid[e], refunded[e], todo, i)
<1>1. Gain(todo[j], Refunding) = Price[e]
  BY DEF Gain
<1>2. Price[e] <= refunded[e] + Price[e]
  BY Amounts
<1> QED
  BY <1>1, <1>2 DEF Backed, Covered

LEMMA SingleFits ==
  ASSUME TypeOK, NEW e \in Escrows, Price[e] <= locked[e], NEW row, Fine(row, e)
  PROVE  Fits(e, <<Save(row)>> \o SingleRelease(e, row))
<1> DEFINE awaiting == [row EXCEPT !.status = "TESLIMAT_BEKLENIYOR"]
           n == row.released + Price[e]
           done == [row EXCEPT !.status = "SERBEST_BIRAKILDI", !.released = @ + Price[e]]
           todo == <<Save(row)>> \o (<<Save(awaiting)>> \o <<Release(Price[e]), Confirm(Price[e])>>
                                     \o <<Save(done)>>)
<1>1. /\ awaiting \in Row /\ Fine(awaiting, e) /\ row \in Row
  <2>1. "TESLIMAT_BEKLENIYOR" \in Statuses \ {"SERBEST_BIRAKILDI", "IPTAL_EDILDI"}
    BY DEF Statuses
  <2> QED
    BY <2>1, FineUnsettled DEF Fine
<1>2. done \in Row /\ done.status = "SERBEST_BIRAKILDI" /\ done.sent = row.sent
  <2>1. "SERBEST_BIRAKILDI" \in Statuses /\ n \in Int
    <3>1. row.released \in Int
      BY <1>1 DEF Row
    <3> QED
      BY <3>1, Amounts DEF Statuses
  <2>2. done = [row EXCEPT !.status = "SERBEST_BIRAKILDI", !.released = n]
    OBVIOUS
  <2> HIDE DEF n, done
  <2> QED
    BY <1>1, <2>1, <2>2 DEF Row
<1> HIDE DEF awaiting, n, done
<1>3. /\ Save(row) \in Writes /\ Save(awaiting) \in Writes /\ Save(done) \in Writes
      /\ Release(Price[e]) \in Writes /\ Confirm(Price[e]) \in Writes
  BY <1>1, <1>2, Amounts, WriteKinds
<1>4. /\ todo \in Seq(Writes) /\ Len(todo) = 5
      /\ todo[1] = Save(row) /\ todo[2] = Save(awaiting)
      /\ todo[3] = Release(Price[e]) /\ todo[4] = Confirm(Price[e]) /\ todo[5] = Save(done)
  BY <1>3
<1>5. todo = <<Save(row)>> \o SingleRelease(e, row)
  BY DEF SingleRelease, Pay, awaiting, done
<1> HIDE DEF todo
<1>6. /\ todo[1].do = "save" /\ todo[1].row = row
      /\ todo[2].do = "save" /\ todo[2].row = awaiting
      /\ todo[3].do = "release" /\ todo[3].n \in Nat
      /\ todo[4].do = "confirm" /\ todo[4].n = Price[e] /\ Price[e] \in Nat
      /\ todo[5].do = "save" /\ todo[5].row = done
      /\ Len(todo) >= 1 /\ Index(todo) = {1, 2, 3, 4, 5}
  <2>1. Index(todo) = {1, 2, 3, 4, 5}
    BY <1>4 DEF Index
  <2>2. Price[e] \in Nat
    BY Amounts
  <2> QED
    BY <1>1, <1>2, <1>4, <2>1, <2>2, WriteKinds
<1>7. Backed(done, Price[e], paid[e], refunded[e], todo, 5)
  <2>1. 4 \in 1 .. 5 - 1 /\ todo[4].do \in Paying /\ done.sent <= paid[e]
    BY <1>2, <1>6 DEF Paying, Fine
  <2> QED
    BY <1>2, <1>6, <2>1, PaidBefore
<1>8. Backed(row, Price[e], paid[e], refunded[e], todo, 1) /\ Backed(awaiting, Price[e], paid[e], refunded[e], todo, 2)
  BY <1>1, FineIsBacked
<1>9. Fits(e, todo)
  BY <1>4, <1>6, <1>7, <1>8, ItemsFit DEF Moving, Paying, Refunding
<1> QED
  BY <1>5, <1>9

(* The share of a milestone, also of one beyond those that were agreed.    *)
LEMMA ShareIsNat ==
  ASSUME NEW e \in Escrows, IsMilestone(e), NEW i \in Nat
  PROVE  Share(e, i) \in Nat
<1>1. Shares[e] \in Seq(Nat) /\ Len(Shares[e]) \in Nat /\ Len(Shares[e]) > 0 /\ Price[e] \in Nat
  BY AmountsAssumption DEF IsMilestone
<1>2. i \in DOMAIN Shares[e] => Shares[e][i] \in Nat
  BY <1>1
<1>3. Price[e] \div Len(Shares[e]) \in Nat
  <2> DEFINE a == Price[e]
             b == Len(Shares[e])
  <2>1. a \in Nat /\ b \in Nat /\ b > 0
    BY <1>1
  <2> HIDE DEF a, b
  <2>2. a \div b \in Nat
    BY <2>1
  <2> QED
    BY <2>2 DEF a, b
<1> QED
  BY <1>2, <1>3 DEF Share

LEMMA MilestoneFits ==
  ASSUME TypeOK, NEW e \in Escrows, IsMilestone(e), Price[e] <= locked[e], NEW row, Fine(row, e)
  PROVE  Fits(e, <<Save(row)>> \o MilestoneRelease(e, row))
<1> DEFINE n == Share(e, row.completed + 1)
           next == [row EXCEPT !.completed = @ + 1, !.sent = @ + n]
           rest == Price[e] - next.sent
           part == [next EXCEPT !.status = "BLOKEDE"]
           done == [next EXCEPT !.status = "SERBEST_BIRAKILDI", !.released = @ + Price[e]]
<1>1. row \in Row /\ row.completed \in Nat /\ row.sent \in Nat /\ row.released \in Int
  BY DEF Fine, Row
<1>2. n \in Nat
  BY <1>1, ShareIsNat
<1>3. MilestoneRelease(e, row) =
        <<Release(n), Confirm(n)>> \o
        (IF next.completed < Len(Shares[e]) THEN <<Save(part)>> ELSE PayRest(rest) \o <<Save(done)>>)
  BY Zenon DEF MilestoneRelease, Pay
<1>4. PayRest(rest) = IF rest > 0 THEN <<Release(rest), Confirm(rest)>> ELSE << >>
  BY DEF PayRest, Pay
<1> HIDE DEF n
<1>5. next \in Row /\ next.sent = row.sent + n /\ next.released = row.released
  <2> DEFINE k == row.completed + 1
             m == row.sent + n
  <2>1. k \in Nat /\ m \in Nat
    BY <1>1, <1>2
  <2>2. next = [row EXCEPT !.completed = k, !.sent = m]
    OBVIOUS
  <2> HIDE DEF k, next
  <2>3. next \in Row /\ next.sent = m /\ next.released = row.released
    <3> HIDE DEF m
    <3> QED
      BY <1>1, <2>1, <2>2 DEF Row
  <2> QED
    BY <2>3
<1> HIDE DEF next
<1>6. part \in Row /\ part.status = "BLOKEDE" /\ part.sent = row.sent + n
  BY <1>5 DEF Row, Statuses
<1>7. done \in Row /\ done.status = "SERBEST_BIRAKILDI" /\ done.sent = row.sent + n
  <2> DEFINE m == next.released + Price[e]
  <2>1. m \in Int /\ "SERBEST_BIRAKILDI" \in Statuses
    BY <1>1, <1>5, Amounts DEF Statuses
  <2>2. done = [next EXCEPT !.status = "SERBEST_BIRAKILDI", !.released = m]
    OBVIOUS
  <2> HIDE DEF m, done
  <2> QED
    BY <1>5, <2>1, <2>2 DEF Row
<1>8. rest = Price[e] - (row.sent + n) /\ rest \in Int
  BY <1>1, <1>2, <1>5, Amounts
<1> HIDE DEF part, done, rest
<1>9. /\ Save(row) \in Writes /\ Save(part) \in Writes /\ Save(done) \in Writes
      /\ Release(n) \in Writes /\ Confirm(n) \in Writes
      /\ rest > 0 => Release(rest) \in Writes /\ Confirm(rest) \in Writes
  BY <1>1, <1>2, <1>6, <1>7, <1>8, WriteKinds
(* Whatever the list, what the payment of the share covers.                *)
<1>10. ASSUME NEW todo, NEW i \in Nat, NEW j \in 1 .. i - 1, todo[j] = Confirm(n)
       PROVE  /\ Covered(row.sent + n, paid[e], todo, Paying, i)
              /\ rest <= 0 => Covered(Price[e], paid[e] + refunded[e], todo, Moving, i)
  <2>1. Gain(todo[j], Paying) = n /\ Gain(todo[j], Moving) = n
    BY <1>2, <1>10, WriteKinds DEF Gain, Paying, Moving
  <2>2. row.sent + n <= paid[e] + n /\ (rest <= 0 => Price[e] <= paid[e] + refunded[e] + n)
    BY SMTT(30), <1>1, <1>2, <1>8, Amounts DEF Fine
  <2> QED
    BY <2>1, <2>2 DEF Covered
<1>11. CASE next.completed < Len(Shares[e])
  <2> DEFINE todo == <<Save(row)>> \o (<<Release(n), Confirm(n)>> \o <<Save(part)>>)
  <2>1. /\ todo \in Seq(Writes) /\ Len(todo) = 4
        /\ todo[1] = Save(row) /\ todo[2] = Release(n) /\ todo[3] = Confirm(n) /\ todo[4] = Save(part)
    BY <1>9
  <2>2. todo = <<Save(row)>> \o MilestoneRelease(e, row)
    BY <1>3, <1>11
  <2> HIDE DEF todo
  <2>3. Index(todo) = {1, 2, 3, 4}
    BY <2>1 DEF Index
  <2>4. /\ todo[1].do = "save" /\ todo[1].row = row
        /\ todo[2].do = "release" /\ todo[2].n \in Nat
        /\ todo[3].do = "confirm" /\ todo[3].n \in Nat
        /\ todo[4].do = "save" /\ todo[4].row = part
    BY <1>1, <1>2, <1>6, <2>1, WriteKinds
  <2>5. Backed(part, Price[e], paid[e], refunded[e], todo, 4)
    <3>1. Covered(row.sent + n, paid[e], todo, Paying, 4)
      BY <1>10, <2>1
    <3> QED
      BY <1>6, <3>1 DEF Backed
  <2>6. Fits(e, todo)
    <3>1. Backed(row, Price[e], paid[e], refunded[e], todo, 1)
      BY FineIsBacked
    <3>2. \A i \in Index(todo) :
            /\ todo[i].do # "insert"
            /\ todo[i].do \in {"lock", "release"} \cup Moving => todo[i].n \in Nat
            /\ todo[i].do = "save" => Backed(todo[i].row, Price[e], paid[e], refunded[e], todo, i)
      BY <2>3, <2>4, <2>5, <3>1 DEF Moving, Paying, Refunding
    <3>3. todo \in Seq(Writes) /\ Len(todo) >= 1
      BY <2>1
    <3> QED
      BY <3>2, <3>3, ItemsFit
  <2> QED
    BY <2>2, <2>6
<1>12. CASE ~(next.completed < Len(Shares[e])) /\ ~(rest > 0)
  <2> DEFINE todo == <<Save(row)>> \o (<<Release(n), Confirm(n)>> \o (<< >> \o <<Save(done)>>))
  <2>1. /\ todo \in Seq(Writes) /\ Len(todo) = 4
        /\ todo[1] = Save(row) /\ todo[2] = Release(n) /\ todo[3] = Confirm(n) /\ todo[4] = Save(done)
    BY <1>9
  <2>2. todo = <<Save(row)>> \o MilestoneRelease(e, row)
    BY <1>3, <1>4, <1>12
  <2> HIDE DEF todo
  <2>3. Index(todo) = {1, 2, 3, 4}
    BY <2>1 DEF Index
  <2>4. /\ todo[1].do = "save" /\ todo[1].row = row
        /\ todo[2].do = "release" /\ todo[2].n \in Nat
        /\ todo[3].do = "confirm" /\ todo[3].n \in Nat
        /\ todo[4].do = "save" /\ todo[4].row = done
    BY <1>1, <1>2, <1>7, <2>1, WriteKinds
  <2>5. Backed(done, Price[e], paid[e], refunded[e], todo, 4)
    <3>1. /\ Covered(row.sent + n, paid[e], todo, Paying, 4)
          /\ Covered(Price[e], paid[e] + refunded[e], todo, Moving, 4)
      BY <1>8, <1>10, <1>12, <2>1
    <3> QED
      BY <1>7, <3>1 DEF Backed
  <2>6. Fits(e, todo)
    <3>1. Backed(row, Price[e], paid[e], refunded[e], todo, 1)
      BY FineIsBacked
    <3>2. \A i \in Index(todo) :
            /\ todo[i].do # "insert"
            /\ todo[i].do \in {"lock", "release"} \cup Moving => todo[i].n \in Nat
            /\ todo[i].do = "save" => Backed(todo[i].row, Price[e], paid[e], refunded[e], todo, i)
      BY <2>3, <2>4, <2>5, <3>1 DEF Moving, Paying, Refunding
    <3>3. todo \in Seq(Writes) /\ Len(todo) >= 1
      BY <2>1
    <3> QED
      BY <3>2, <3>3, ItemsFit
  <2> QED
    BY <2>2, <2>6
<1>13. CASE ~(next.completed < Len(Shares[e])) /\ rest > 0
  <2> DEFINE todo == <<Save(row)>> \o (<<Release(n), Confirm(n)>>
                       \o (<<Release(rest), Confirm(rest)>> \o <<Save(done)>>))
  <2>1. /\ todo \in Seq(Writes) /\ Len(todo) = 6
        /\ todo[1] = Save(row) /\ todo[2] = Release(n) /\ todo[3] = Confirm(n)
        /\ todo[4] = Release(rest) /\ todo[5] = Confirm(rest) /\ todo[6] = Save(done)
    BY <1>9, <1>13
  <2>2. todo = <<Save(row)>> \o MilestoneRelease(e, row)
    BY <1>3, <1>4, <1>13
  <2> HIDE DEF todo
  <2>3. Index(todo) = {1, 2, 3, 4, 5, 6}
    BY <2>1 DEF Index
  <2>4. /\ todo[1].do = "save" /\ todo[1].row = row
        /\ todo[2].do = "release" /\ todo[2].n \in Nat
        /\ todo[3].do = "confirm" /\ todo[3].n = n
        /\ todo[4].do = "release" /\ todo[4].n \in Nat
        /\ todo[5].do = "confirm" /\ todo[5].n = rest /\ rest \in Nat
        /\ todo[6].do = "save" /\ todo[6].row = done
    <3>1. rest \in Nat
      BY <1>8, <1>13
    <3> QED
      BY SMTT(30), <1>1, <1>2, <1>7, <2>1, <3>1, WriteKinds
  <2>5. Backed(done, Price[e], paid[e], refunded[e], todo, 6)
    <3>1. Covered(row.sent + n, paid[e], todo, Paying, 6)
      BY <1>10, <2>1
    <3>2. Gain(todo[3], Moving) = n /\ Gain(todo[5], Moving) = rest
      BY <2>4 DEF Gain, Moving, Paying
    <3>3. Price[e] <= paid[e] + refunded[e] + n + rest
      BY SMTT(30), <1>1, <1>2, <1>8, Amounts DEF Fine
    <3>4. 3 \in 1 .. 6 - 1 /\ 5 \in 1 .. 6 - 1 /\ 3 # 5
      OBVIOUS
    <3>5. Covered(Price[e], paid[e] + refunded[e], todo, Moving, 6)
      BY <3>2, <3>3, <3>4 DEF Covered
    <3> QED
      BY <1>7, <3>1, <3>5 DEF Backed
  <2>6. Fits(e, todo)
    <3>1. Backed(row, Price[e], paid[e], refunded[e], todo, 1)
      BY FineIsBacked
    <3>2. \A i \in Index(todo) :
            /\ todo[i].do # "insert"
            /\ todo[i].do \in {"lock", "release"} \cup Moving => todo[i].n \in Nat
            /\ todo[i].do = "save" => Backed(todo[i].row, Price[e], paid[e], refunded[e], todo, i)
      BY <1>2, <2>3, <2>4, <2>5, <3>1 DEF Moving, Paying, Refunding
    <3>3. todo \in Seq(Writes) /\ Len(todo) >= 1
      BY <2>1
    <3> QED
      BY <3>2, <3>3, ItemsFit
  <2> QED
    BY <2>2, <2>6
<1> QED
  BY <1>11, <1>12, <1>13

LEMMA RefundFits ==
  ASSUME TypeOK, NEW e \in Escrows, Price[e] <= locked[e],
         NEW row \in Row, row.sent <= paid[e], row.status = "IPTAL_EDILDI"
  PROVE  /\ Fits(e, <<CreditShipper(Price[e]), Save(row)>>)
         /\ Fits(e, <<Dispute("resolved"), CreditShipper(Price[e]), Save(row)>>)
<1>1. /\ CreditShipper(Price[e]) \in Writes /\ Save(row) \in Writes /\ Dispute("resolved") \in Writes
      /\ CreditShipper(Price[e]).do = "creditShipper" /\ CreditShipper(Price[e]).n = Price[e]
      /\ Dispute("resolved").do = "dispute" /\ Price[e] \in Nat
  BY Amounts, WriteKinds
<1>2. "creditShipper" \in Refunding /\ "creditShipper" \in {"lock", "release"} \cup Moving
  BY DEF Refunding, Moving
<1>3. Fits(e, <<CreditShipper(Price[e]), Save(row)>>)
  <2> DEFINE todo == <<CreditShipper(Price[e]), Save(row)>>
  <2>1. todo \in Seq(Writes) /\ Len(todo) = 2 /\ todo[1] = CreditShipper(Price[e]) /\ todo[2] = Save(row)
    BY <1>1
  <2> HIDE DEF todo
  <2>2. Index(todo) = {1, 2} /\ 1 \in 1 .. 2 - 1
    BY <2>1 DEF Index
  <2>3. Backed(row, Price[e], paid[e], refunded[e], todo, 2)
    BY <1>1, <1>2, <2>1, <2>2, RefundedBefore
  <2>4. Fits(e, todo)
    <3>1. \A i \in Index(todo) :
            /\ todo[i].do # "insert"
            /\ todo[i].do \in {"lock", "release"} \cup Moving => todo[i].n \in Nat
            /\ todo[i].do = "save" => Backed(todo[i].row, Price[e], paid[e], refunded[e], todo, i)
      BY <1>1, <1>2, <2>1, <2>2, <2>3, WriteKinds DEF Moving, Paying, Refunding
    <3>2. todo \in Seq(Writes) /\ Len(todo) >= 1
      BY <1>1, <1>2, <2>1, <2>2, <2>3
    <3> QED
      BY <3>1, <3>2, ItemsFit
  <2> QED
    BY <2>4 DEF todo
<1>4. Fits(e, <<Dispute("resolved"), CreditShipper(Price[e]), Save(row)>>)
  <2> DEFINE todo == <<Dispute("resolved"), CreditShipper(Price[e]), Save(row)>>
  <2>1. /\ todo \in Seq(Writes) /\ Len(todo) = 3
        /\ todo[1] = Dispute("resolved") /\ todo[2] = CreditShipper(Price[e]) /\ todo[3] = Save(row)
    BY <1>1
  <2> HIDE DEF todo
  <2>2. Index(todo) = {1, 2, 3} /\ 2 \in 1 .. 3 - 1
    BY <2>1 DEF Index
  <2>3. Backed(row, Price[e], paid[e], refunded[e], todo, 3)
    BY <1>1, <1>2, <2>1, <2>2, RefundedBefore
  <2>4. Fits(e, todo)
    <3>1. \A i \in Index(todo) :
            /\ todo[i].do # "insert"
            /\ todo[i].do \in {"lock", "release"} \cup Moving => todo[i].n \in Nat
            /\ todo[i].do = "save" => Backed(todo[i].row, Price[e], paid[e], refunded[e], todo, i)
      BY <1>1, <1>2, <2>1, <2>2, <2>3, WriteKinds DEF Moving, Paying, Refunding
    <3>2. todo \in Seq(Writes) /\ Len(todo) >= 1
      BY <1>1, <1>2, <2>1, <2>2, <2>3
    <3> QED
      BY <3>1, <3>2, ItemsFit
  <2> QED
    BY <2>4 DEF todo
<1> QED
  BY <1>3, <1>4

LEMMA PayoutFits ==
  ASSUME TypeOK, NEW e \in Escrows, Price[e] <= locked[e],
         NEW row \in Row, row.sent <= paid[e], row.status = "SERBEST_BIRAKILDI"
  PROVE  /\ Fits(e, <<Dispute("resolved"), CreditCarrier(Price[e]), Save(row)>>)
         /\ \A f \in 1 .. Price[e] :
              Fits(e, <<Dispute("resolved"), CreditShipper(f), CreditCarrier(Price[e] - f), Save(row)>>)
         /\ \A m \in Nat : m = Price[e] \/ m = Price[e] - row.sent =>
              Fits(e, <<Release(m), Confirm(m), Save(row)>>)
<1>1. /\ Save(row) \in Writes /\ Dispute("resolved") \in Writes
      /\ Dispute("resolved").do = "dispute" /\ Price[e] \in Nat
      /\ paid[e] \in Nat /\ refunded[e] \in Nat
  BY Amounts, WriteKinds
<1>2. /\ {"confirm", "creditCarrier"} = Paying /\ {"release"} \cup Paying \cup Refunding \subseteq {"lock", "release"} \cup Moving
  BY DEF Paying, Refunding, Moving
<1>3. Fits(e, <<Dispute("resolved"), CreditCarrier(Price[e]), Save(row)>>)
  <2> DEFINE todo == <<Dispute("resolved"), CreditCarrier(Price[e]), Save(row)>>
  <2>1. /\ CreditCarrier(Price[e]) \in Writes /\ CreditCarrier(Price[e]).do = "creditCarrier"
        /\ CreditCarrier(Price[e]).n = Price[e]
    BY <1>1, WriteKinds
  <2>2. /\ todo \in Seq(Writes) /\ Len(todo) = 3
        /\ todo[1] = Dispute("resolved") /\ todo[2] = CreditCarrier(Price[e]) /\ todo[3] = Save(row)
    BY <1>1, <2>1
  <2> HIDE DEF todo
  <2>3. Index(todo) = {1, 2, 3} /\ 2 \in 1 .. 3 - 1
    BY <2>2 DEF Index
  <2>4. Backed(row, Price[e], paid[e], refunded[e], todo, 3)
    BY <1>1, <1>2, <2>1, <2>2, <2>3, PaidBefore
  <2>5. Fits(e, todo)
    <3>1. \A i \in Index(todo) :
            /\ todo[i].do # "insert"
            /\ todo[i].do \in {"lock", "release"} \cup Moving => todo[i].n \in Nat
            /\ todo[i].do = "save" => Backed(todo[i].row, Price[e], paid[e], refunded[e], todo, i)
      BY <1>1, <1>2, <2>1, <2>2, <2>3, <2>4, WriteKinds DEF Moving, Paying, Refunding
    <3>2. todo \in Seq(Writes) /\ Len(todo) >= 1
      BY <1>1, <1>2, <2>1, <2>2, <2>3, <2>4
    <3> QED
      BY <3>1, <3>2, ItemsFit
  <2> QED
    BY <2>5 DEF todo
<1>4. ASSUME NEW f \in 1 .. Price[e]
      PROVE  Fits(e, <<Dispute("resolved"), CreditShipper(f), CreditCarrier(Price[e] - f), Save(row)>>)
  <2> DEFINE g == Price[e] - f
             todo == <<Dispute("resolved"), CreditShipper(f), CreditCarrier(g), Save(row)>>
  <2>1. f \in Nat /\ g \in Nat /\ f + g = Price[e]
    BY <1>1, <1>4
  <2> HIDE DEF g
  <2>2. /\ CreditShipper(f) \in Writes /\ CreditShipper(f).do = "creditShipper" /\ CreditShipper(f).n = f
        /\ CreditCarrier(g) \in Writes /\ CreditCarrier(g).do = "creditCarrier" /\ CreditCarrier(g).n = g
    BY <2>1, WriteKinds
  <2>3. /\ todo \in Seq(Writes) /\ Len(todo) = 4
        /\ todo[1] = Dispute("resolved") /\ todo[2] = CreditShipper(f)
        /\ todo[3] = CreditCarrier(g) /\ todo[4] = Save(row)
    BY <1>1, <2>2
  <2> HIDE DEF todo
  <2>4. Index(todo) = {1, 2, 3, 4}
    BY <2>3 DEF Index
  <2>5. Backed(row, Price[e], paid[e], refunded[e], todo, 4)
    <3>1. Gain(todo[2], Moving) = f /\ Gain(todo[3], Moving) = g
      BY <2>2, <2>3 DEF Gain, Moving, Paying, Refunding
    <3>2. Price[e] <= paid[e] + refunded[e] + f + g
      BY <1>1, <2>1
    <3>3. 2 \in 1 .. 4 - 1 /\ 3 \in 1 .. 4 - 1 /\ 2 # 3
      OBVIOUS
    <3> QED
      BY <3>1, <3>2, <3>3 DEF Backed, Covered
  <2>6. Fits(e, todo)
    <3>1. "creditShipper" \in Refunding
      BY DEF Refunding
    <3>2. \A i \in Index(todo) :
            /\ todo[i].do # "insert"
            /\ todo[i].do \in {"lock", "release"} \cup Moving => todo[i].n \in Nat
            /\ todo[i].do = "save" => Backed(todo[i].row, Price[e], paid[e], refunded[e], todo, i)
      BY SMTT(30), <1>1, <1>2, <2>1, <2>2, <2>3, <2>4, <2>5, <3>1, WriteKinds DEF Moving, Paying, Refunding
    <3>3. todo \in Seq(Writes) /\ Len(todo) >= 1
      BY <1>1, <1>2, <2>1, <2>2, <2>3, <2>4, <2>5, <3>1
    <3> QED
      BY <3>2, <3>3, ItemsFit
  <2> QED
    BY <2>6 DEF todo, g
<1>5. ASSUME NEW m \in Nat, m = Price[e] \/ m = Price[e] - row.sent
      PROVE  Fits(e, <<Release(m), Confirm(m), Save(row)>>)
  <2> DEFINE todo == <<Release(m), Confirm(m), Save(row)>>
  <2>1. /\ Release(m) \in Writes /\ Release(m).do = "release" /\ Release(m).n = m
        /\ Confirm(m) \in Writes /\ Confirm(m).do = "confirm" /\ Confirm(m).n = m
    BY WriteKinds
  <2>2. /\ todo \in Seq(Writes) /\ Len(todo) = 3
        /\ todo[1] = Release(m) /\ todo[2] = Confirm(m) /\ todo[3] = Save(row)
    BY <1>1, <2>1
  <2> HIDE DEF todo
  <2>3. Index(todo) = {1, 2, 3} /\ 2 \in 1 .. 3 - 1
    BY <2>2 DEF Index
  <2>4. Backed(row, Price[e], paid[e], refunded[e], todo, 3)
    <3>1. todo[2].do \in Paying /\ todo[2].n = m
      BY <2>1, <2>2 DEF Paying
    <3> QED
      BY <1>5, <2>3, <3>1, PaidBefore
  <2>5. Fits(e, todo)
    <3>1. \A i \in Index(todo) :
            /\ todo[i].do # "insert"
            /\ todo[i].do \in {"lock", "release"} \cup Moving => todo[i].n \in Nat
            /\ todo[i].do = "save" => Backed(todo[i].row, Price[e], paid[e], refunded[e], todo, i)
      BY <1>1, <1>2, <2>1, <2>2, <2>3, <2>4, WriteKinds DEF Moving, Paying, Refunding
    <3>2. todo \in Seq(Writes) /\ Len(todo) >= 1
      BY <1>1, <1>2, <2>1, <2>2, <2>3, <2>4
    <3> QED
      BY <3>1, <3>2, ItemsFit
  <2> QED
    BY <2>5 DEF todo
<1> QED
  BY <1>3, <1>4, <1>5

(* Short lists put together. *)

LEMMA PairOfSaves ==
  ASSUME NEW a \in Writes, NEW b \in Writes
  PROVE  <<a>> \o <<b>> = <<a, b>>
<1> DEFINE s == <<a>> \o <<b>>
           t == <<a, b>>
<1>1. /\ s \in Seq(Writes) /\ Len(s) = 2 /\ s[1] = a /\ s[2] = b
      /\ t \in Seq(Writes) /\ Len(t) = 2 /\ t[1] = a /\ t[2] = b
  OBVIOUS
<1> HIDE DEF s, t
<1>2. Len(s) = Len(t) /\ \A i \in 1 .. Len(s) : s[i] = t[i]
  BY <1>1
<1>3. s = t
  BY <1>1, <1>2, SeqEqual
<1> QED
  BY <1>3 DEF s, t

LEMMA ConsPair ==
  ASSUME NEW a \in Writes, NEW b \in Writes, NEW c \in Writes
  PROVE  <<a>> \o <<b, c>> = <<a, b, c>>
<1> DEFINE s == <<a>> \o <<b, c>>
           t == <<a, b, c>>
<1>1. /\ s \in Seq(Writes) /\ Len(s) = 3 /\ s[1] = a /\ s[2] = b /\ s[3] = c
      /\ t \in Seq(Writes) /\ Len(t) = 3 /\ t[1] = a /\ t[2] = b /\ t[3] = c
  OBVIOUS
<1> HIDE DEF s, t
<1>2. Len(s) = Len(t) /\ \A i \in 1 .. Len(s) : s[i] = t[i]
  BY <1>1
<1>3. s = t
  BY <1>1, <1>2, SeqEqual
<1> QED
  BY <1>3 DEF s, t

LEMMA PairThenOne ==
  ASSUME NEW a \in Writes, NEW b \in Writes, NEW c \in Writes
  PROVE  <<a, b>> \o <<c>> = <<a, b, c>>
<1> DEFINE s == <<a, b>> \o <<c>>
           t == <<a, b, c>>
<1>1. /\ s \in Seq(Writes) /\ Len(s) = 3 /\ s[1] = a /\ s[2] = b /\ s[3] = c
      /\ t \in Seq(Writes) /\ Len(t) = 3 /\ t[1] = a /\ t[2] = b /\ t[3] = c
  OBVIOUS
<1> HIDE DEF s, t
<1>2. Len(s) = Len(t) /\ \A i \in 1 .. Len(s) : s[i] = t[i]
  BY <1>1
<1>3. s = t
  BY <1>1, <1>2, SeqEqual
<1> QED
  BY <1>3 DEF s, t

LEMMA ConsTriple ==
  ASSUME NEW a \in Writes, NEW b \in Writes, NEW c \in Writes, NEW d \in Writes
  PROVE  <<a>> \o <<b, c, d>> = <<a, b, c, d>>
<1> DEFINE s == <<a>> \o <<b, c, d>>
           t == <<a, b, c, d>>
<1>1. /\ s \in Seq(Writes) /\ Len(s) = 4 /\ s[1] = a /\ s[2] = b /\ s[3] = c /\ s[4] = d
      /\ t \in Seq(Writes) /\ Len(t) = 4 /\ t[1] = a /\ t[2] = b /\ t[3] = c /\ t[4] = d
  OBVIOUS
<1> HIDE DEF s, t
<1>2. Len(s) = Len(t) /\ \A i \in 1 .. Len(s) : s[i] = t[i]
  BY <1>1
<1>3. s = t
  BY <1>1, <1>2, SeqEqual
<1> QED
  BY <1>3 DEF s, t

LEMMA NothingThenOne ==
  ASSUME NEW a \in Writes
  PROVE  << >> \o <<a>> = <<a>>
BY ConcatEmptySeq

LEMMA ReleaseFits ==
  ASSUME Inductive, NEW e \in Escrows, escrow[e] # NoRow, NEW tier \in {"low", "medium", "high"}
  PROVE  Fits(e, Assessed(e, [escrow[e] EXCEPT !.tier = tier]))
<1> DEFINE row == [escrow[e] EXCEPT !.tier = tier]
           disputed == [row EXCEPT !.status = "ITIRAZ_SURECINDE"]
           held == [row EXCEPT !.status = "BLOKEDE", !.review = TRUE]
<1>0. TypeOK /\ Fine(escrow[e], e) /\ Price[e] <= locked[e]
  BY ReadRow DEF Inductive
<1>1. Fine(row, e) /\ row.tier = tier
  <2>1. escrow[e] \in Row /\ tier \in Tiers
    BY <1>0 DEF Fine, Tiers
  <2>2. row \in Row /\ row.tier = tier /\ row.sent = escrow[e].sent /\ row.status = escrow[e].status
    BY <2>1 DEF Row
  <2> HIDE DEF row
  <2> QED
    BY <1>0, <2>2 DEF Fine
<1> HIDE DEF row
<1>2. Fine(disputed, e) /\ Fine(held, e)
  <2>1. /\ "ITIRAZ_SURECINDE" \in Statuses \ {"SERBEST_BIRAKILDI", "IPTAL_EDILDI"}
        /\ "BLOKEDE" \in Statuses \ {"SERBEST_BIRAKILDI", "IPTAL_EDILDI"} /\ TRUE \in BOOLEAN
    BY DEF Statuses
  <2> QED
    BY <1>1, <2>1, FineUnsettled
<1> HIDE DEF disputed, held
<1>3. CASE tier = "high"
  <2>1. Assessed(e, row) = <<Save(row)>> \o <<Save(disputed)>>
    BY <1>1, <1>3 DEF Assessed, disputed
  <2>2. Save(row) \in Writes /\ Save(disputed) \in Writes
    BY <1>1, <1>2, WriteKinds DEF Fine
  <2>3. <<Save(row)>> \o <<Save(disputed)>> = <<Save(row), Save(disputed)>>
    BY <2>2, PairOfSaves
  <2> QED
    BY <1>0, <1>1, <1>2, <2>1, <2>3, FineFits DEF row
<1>4. CASE tier = "medium"
  <2>1. Assessed(e, row) = <<Save(row)>> \o <<Save(held)>>
    BY <1>1, <1>4 DEF Assessed, held
  <2>2. Save(row) \in Writes /\ Save(held) \in Writes
    BY <1>1, <1>2, WriteKinds DEF Fine
  <2>3. <<Save(row)>> \o <<Save(held)>> = <<Save(row), Save(held)>>
    BY <2>2, PairOfSaves
  <2> QED
    BY <1>0, <1>1, <1>2, <2>1, <2>3, FineFits DEF row
<1>5. CASE tier = "low"
  <2>1. Assessed(e, row) = <<Save(row)>> \o
          (IF IsMilestone(e) THEN MilestoneRelease(e, row) ELSE SingleRelease(e, row))
    BY <1>1, <1>5 DEF Assessed
  <2> QED
    BY <1>0, <1>1, <2>1, MilestoneFits, SingleFits DEF row
<1> QED
  BY <1>3, <1>4, <1>5

LEMMA ResolveFits ==
  ASSUME Inductive, NEW e \in Escrows, escrow[e] # NoRow,
         NEW kind \in {"full_refund", "partial_refund", "release"}, NEW refund \in 1 .. Price[e]
  PROVE  Fits(e, Resolution(e, escrow[e], kind, refund))
<1> DEFINE row == escrow[e]
           cancelled == [row EXCEPT !.status = "IPTAL_EDILDI"]
           part == [row EXCEPT !.status = "SERBEST_BIRAKILDI", !.released = Price[e] - refund]
           whole == [row EXCEPT !.status = "SERBEST_BIRAKILDI", !.released = Price[e]]
<1>0. TypeOK /\ Fine(row, e) /\ Price[e] <= locked[e] /\ row \in Row
  BY ReadRow DEF Inductive, Fine
<1>1. Price[e] \in Int /\ Price[e] - refund \in Int
  BY <1>0, Amounts
<1>2. "IPTAL_EDILDI" \in Statuses /\ "SERBEST_BIRAKILDI" \in Statuses
  BY DEF Statuses
<1> HIDE DEF row
<1>3. cancelled \in Row /\ cancelled.sent <= paid[e] /\ cancelled.status = "IPTAL_EDILDI"
  BY <1>0, <1>2 DEF Fine, Row
<1>4. whole \in Row /\ whole.sent <= paid[e] /\ whole.status = "SERBEST_BIRAKILDI"
  <2> DEFINE n == Price[e]
  <2>1. n \in Int /\ whole = [row EXCEPT !.status = "SERBEST_BIRAKILDI", !.released = n]
    BY <1>1
  <2> HIDE DEF n, whole
  <2> QED
    BY <1>0, <1>2, <2>1 DEF Fine, Row
<1>5. part \in Row /\ part.sent <= paid[e] /\ part.status = "SERBEST_BIRAKILDI"
  <2> DEFINE n == Price[e] - refund
  <2>1. n \in Int /\ part = [row EXCEPT !.status = "SERBEST_BIRAKILDI", !.released = n]
    BY <1>1
  <2> HIDE DEF n, part
  <2> QED
    BY <1>0, <1>2, <2>1 DEF Fine, Row
<1> HIDE DEF cancelled, part, whole
<1>6. /\ Dispute("resolved") \in Writes /\ CreditShipper(Price[e]) \in Writes
      /\ CreditCarrier(Price[e]) \in Writes /\ CreditShipper(refund) \in Writes
      /\ CreditCarrier(Price[e] - refund) \in Writes
      /\ Save(cancelled) \in Writes /\ Save(part) \in Writes /\ Save(whole) \in Writes
  <2>1. Price[e] \in Nat /\ refund \in Nat /\ Price[e] - refund \in Nat
    BY <1>0, Amounts
  <2> QED
    BY <1>3, <1>4, <1>5, <2>1, WriteKinds
<1>7. CASE kind = "full_refund"
  <2>1. Resolution(e, row, kind, refund) =
          <<Dispute("resolved")>> \o <<CreditShipper(Price[e]), Save(cancelled)>>
    BY <1>7 DEF Resolution, cancelled
  <2>2. Resolution(e, row, kind, refund) = <<Dispute("resolved"), CreditShipper(Price[e]), Save(cancelled)>>
    BY <1>6, <2>1, ConsPair
  <2> QED
    BY <1>0, <1>3, <2>2, RefundFits DEF row
<1>8. CASE kind = "partial_refund"
  <2>1. Resolution(e, row, kind, refund) =
          <<Dispute("resolved")>> \o <<CreditShipper(refund), CreditCarrier(Price[e] - refund), Save(part)>>
    BY <1>8 DEF Resolution, part
  <2>2. Resolution(e, row, kind, refund) =
          <<Dispute("resolved"), CreditShipper(refund), CreditCarrier(Price[e] - refund), Save(part)>>
    BY <1>6, <2>1, ConsTriple
  <2> QED
    BY <1>0, <1>5, <2>2, PayoutFits DEF row
<1>9. CASE kind = "release"
  <2>1. Resolution(e, row, kind, refund) =
          <<Dispute("resolved")>> \o <<CreditCarrier(Price[e]), Save(whole)>>
    BY <1>9 DEF Resolution, whole
  <2>2. Resolution(e, row, kind, refund) = <<Dispute("resolved"), CreditCarrier(Price[e]), Save(whole)>>
    BY <1>6, <2>1, ConsPair
  <2> QED
    BY <1>0, <1>4, <2>2, PayoutFits DEF row
<1> QED
  BY <1>7, <1>8, <1>9

LEMMA ReviewFits ==
  ASSUME Inductive, NEW e \in Escrows, escrow[e] # NoRow,
         NEW decision \in {"approve", "reject", "flag_for_dispute"}
  PROVE  Fits(e, Reviewed(e, escrow[e], decision))
<1> DEFINE row == escrow[e]
           rest == IF IsMilestone(e) THEN Price[e] - row.sent ELSE Price[e]
           n == row.released + rest
           done == [row EXCEPT !.status = "SERBEST_BIRAKILDI", !.released = @ + rest, !.review = FALSE]
           cancelled == [row EXCEPT !.status = "IPTAL_EDILDI", !.review = FALSE]
           disputed == [row EXCEPT !.status = "ITIRAZ_SURECINDE", !.review = FALSE]
<1>0. TypeOK /\ Fine(row, e) /\ Price[e] <= locked[e] /\ row \in Row
  BY ReadRow DEF Inductive, Fine
<1>1. /\ Price[e] \in Nat /\ Price[e] > 0 /\ paid[e] \in Nat /\ refunded[e] \in Nat
      /\ row.sent \in Nat /\ row.released \in Int
  BY <1>0, Amounts DEF Row
<1> HIDE DEF row
<1>2. rest \in Int /\ (rest = Price[e] \/ rest = Price[e] - row.sent)
  BY <1>1
<1> HIDE DEF rest
<1>3. n \in Int /\ done = [row EXCEPT !.status = "SERBEST_BIRAKILDI", !.released = n, !.review = FALSE]
  BY <1>1, <1>2
<1> HIDE DEF n, done
<1>4. {"IPTAL_EDILDI", "SERBEST_BIRAKILDI"} \subseteq Statuses
      /\ "ITIRAZ_SURECINDE" \in Statuses \ {"SERBEST_BIRAKILDI", "IPTAL_EDILDI"}
  BY DEF Statuses
<1>5. done \in Row /\ done.sent <= paid[e] /\ done.sent = row.sent /\ done.status = "SERBEST_BIRAKILDI"
  BY <1>0, <1>3, <1>4 DEF Fine, Row
<1>6. cancelled \in Row /\ cancelled.sent <= paid[e] /\ cancelled.status = "IPTAL_EDILDI"
  BY <1>0, <1>4 DEF Fine, Row
<1>7. Fine(disputed, e)
  BY <1>0, <1>4, FineUnsettled
<1> HIDE DEF cancelled, disputed
<1>8. CASE decision = "approve" /\ rest > 0
  <2>1. Reviewed(e, row, decision) = <<Release(rest), Confirm(rest)>> \o <<Save(done)>>
    BY <1>8 DEF Reviewed, PayRest, Pay, done, rest
  <2>2. rest \in Nat
    BY <1>2, <1>8
  <2>3. Release(rest) \in Writes /\ Confirm(rest) \in Writes /\ Save(done) \in Writes
    BY <1>5, <2>2, WriteKinds
  <2>4. Reviewed(e, row, decision) = <<Release(rest), Confirm(rest), Save(done)>>
    BY <2>1, <2>3, PairThenOne
  <2>5. rest = Price[e] \/ rest = Price[e] - done.sent
    BY <1>2, <1>5
  <2> QED
    BY <1>0, <1>5, <2>2, <2>4, <2>5, PayoutFits DEF row
<1>9. CASE decision = "approve" /\ ~(rest > 0)
  <2>1. Reviewed(e, row, decision) = << >> \o <<Save(done)>>
    BY <1>9 DEF Reviewed, PayRest, done, rest
  <2>2. Save(done) \in Writes
    BY <1>5, WriteKinds
  <2>3. Reviewed(e, row, decision) = <<Save(done)>>
    BY <2>1, <2>2, NothingThenOne
  <2>4. Fine(done, e)
    BY <1>0, <1>1, <1>2, <1>5, <1>9 DEF Fine
  <2> QED
    BY <1>0, <2>3, <2>4, FineFits DEF row
<1>10. CASE decision = "reject"
  <2>1. Reviewed(e, row, decision) = <<CreditShipper(Price[e]), Save(cancelled)>>
    BY <1>10 DEF Reviewed, cancelled
  <2> QED
    BY <1>0, <1>6, <2>1, RefundFits DEF row
<1>11. CASE decision = "flag_for_dispute"
  <2>1. Reviewed(e, row, decision) = <<Save(disputed)>>
    BY <1>11 DEF Reviewed, disputed
  <2> QED
    BY <1>0, <1>7, <2>1, FineFits DEF row
<1> QED
  BY <1>8, <1>9, <1>10, <1>11

(* Whatever operation a handler takes up, its list of writes is right. *)
LEMMA CallFits ==
  ASSUME Inductive, NEW h \in Handlers, NEW e \in Escrows, Begin(h, e)
  PROVE  \E op \in Operations : \E todo \in Seq(Writes) : Take(h, op, e, todo) /\ Fits(e, todo)
<1>0. ASSUME NEW op \in Operations, NEW todo, Take(h, op, e, todo), Fits(e, todo)
      PROVE  \E o \in Operations : \E t \in Seq(Writes) : Take(h, o, e, t) /\ Fits(e, t)
  BY <1>0 DEF Fits
<1>1. TypeOK /\ (escrow[e] # NoRow => Fine(escrow[e], e) /\ Price[e] <= locked[e])
  BY ReadRow DEF Inductive
<1>2. /\ "BLOKEDE" \in Statuses \ {"SERBEST_BIRAKILDI", "IPTAL_EDILDI"}
      /\ "ITIRAZ_SURECINDE" \in Statuses \ {"SERBEST_BIRAKILDI", "IPTAL_EDILDI"}
      /\ "IPTAL_EDILDI" \in Statuses
  BY DEF Statuses
<1>3. /\ "create" \in Operations /\ "pickup" \in Operations /\ "release" \in Operations
      /\ "openDispute" \in Operations /\ "resolve" \in Operations /\ "autoRefund" \in Operations
      /\ "transit" \in Operations /\ "review" \in Operations
  BY DEF Operations
<1>4. CASE CreateEscrow(h, e)
  <2>1. Take(h, "create", e, <<LockFunds(Price[e]), Insert>>)
    BY <1>4 DEF CreateEscrow
  <2>2. Fits(e, <<LockFunds(Price[e]), Insert>>)
    BY <1>1, CreateFits
  <2> QED
    BY <1>0, <1>3, <2>1, <2>2
<1>5. CASE ConfirmPickup(h, e)
  <2> DEFINE row == [escrow[e] EXCEPT !.status = "BLOKEDE"]
  <2>1. Take(h, "pickup", e, <<Save(row)>>) /\ escrow[e] # NoRow
    BY <1>5 DEF ConfirmPickup
  <2>2. Fine(row, e)
    BY <1>1, <1>2, <2>1, FineUnsettled
  <2> HIDE DEF row
  <2>3. Fits(e, <<Save(row)>>)
    BY <1>1, <2>1, <2>2, FineFits
  <2> QED
    BY <1>0, <1>3, <2>1, <2>3
<1>6. CASE ReleasePayment(h, e)
  <2>1. PICK tier \in {"low", "medium", "high"} :
          Take(h, "release", e, Assessed(e, [escrow[e] EXCEPT !.tier = tier]))
    BY <1>6 DEF ReleasePayment
  <2>2. Fits(e, Assessed(e, [escrow[e] EXCEPT !.tier = tier]))
    BY <1>6, ReleaseFits DEF ReleasePayment
  <2> QED
    BY <1>0, <1>3, <2>1, <2>2
<1>7. CASE OpenDispute(h, e)
  <2> DEFINE row == [escrow[e] EXCEPT !.status = "ITIRAZ_SURECINDE"]
  <2>1. Take(h, "openDispute", e, <<Save(row), Dispute("open")>>) /\ escrow[e] # NoRow
    BY <1>7 DEF OpenDispute
  <2>2. Fine(row, e)
    BY <1>1, <1>2, <2>1, FineUnsettled
  <2> HIDE DEF row
  <2>3. Fits(e, <<Save(row), Dispute("open")>>)
    BY <1>1, <2>1, <2>2, FineFits
  <2> QED
    BY <1>0, <1>3, <2>1, <2>3
<1>8. CASE ResolveDispute(h, e)
  <2>1. PICK kind \in {"full_refund", "partial_refund", "release"}, refund \in 1 .. Price[e] :
          Take(h, "resolve", e, Resolution(e, escrow[e], kind, refund))
    BY <1>8 DEF ResolveDispute
  <2>2. Fits(e, Resolution(e, escrow[e], kind, refund))
    BY <1>8, ResolveFits DEF ResolveDispute
  <2> QED
    BY <1>0, <1>3, <2>1, <2>2
<1>9. CASE AutoRefundExpiredMilestones(h, e)
  <2> DEFINE row == [escrow[e] EXCEPT !.status = "IPTAL_EDILDI"]
  <2>1. Take(h, "autoRefund", e, <<CreditShipper(Price[e]), Save(row)>>) /\ escrow[e] # NoRow
    BY <1>9 DEF AutoRefundExpiredMilestones
  <2>2. row \in Row /\ row.sent <= paid[e] /\ row.status = "IPTAL_EDILDI"
    BY <1>1, <1>2, <2>1 DEF Fine, Row
  <2> HIDE DEF row
  <2>3. Fits(e, <<CreditShipper(Price[e]), Save(row)>>)
    BY <1>1, <2>1, <2>2, RefundFits
  <2> QED
    BY <1>0, <1>3, <2>1, <2>3
<1>10. CASE TransitScan(h, e)
  <2>1. Take(h, "transit", e, <<Save(escrow[e])>>) /\ escrow[e] # NoRow
    BY <1>10 DEF TransitScan
  <2>2. Fits(e, <<Save(escrow[e])>>)
    BY <1>1, <2>1, FineFits
  <2> QED
    BY <1>0, <1>3, <2>1, <2>2
<1>11. CASE ReviewFraudCase(h, e)
  <2>1. PICK decision \in {"approve", "reject", "flag_for_dispute"} :
          Take(h, "review", e, Reviewed(e, escrow[e], decision))
    BY <1>11 DEF ReviewFraudCase
  <2>2. Fits(e, Reviewed(e, escrow[e], decision))
    BY <1>11, ReviewFits DEF ReviewFraudCase
  <2> QED
    BY <1>0, <1>3, <2>1, <2>2
<1> QED
  BY <1>4, <1>5, <1>6, <1>7, <1>8, <1>9, <1>10, <1>11 DEF Begin

-----------------------------------------------------------------------------
(* Steps. *)

(* Taking up an operation changes nothing but the list of its handler. *)
LEMMA TakeKeeps ==
  ASSUME Inductive, NEW h \in Handlers, NEW e \in Escrows, NEW op \in Operations, NEW todo,
         Take(h, op, e, todo), Fits(e, todo)
  PROVE  Inductive'
<1> DEFINE new == [op |-> op, e |-> e, todo |-> todo]
<1>1. new \in Job /\ new.e = e /\ new.todo = todo /\ todo # << >>
  BY DEF Job, Fits
<1>2. /\ job' = [job EXCEPT ![h] = new] /\ ops' = ops + 1
      /\ UNCHANGED <<escrow, dispute, shipper, carrier, locked, paid, refunded, broken>>
  BY DEF Take, books
<1> HIDE DEF new
<1>3. TypeOK'
  BY <1>1, <1>2 DEF Inductive, TypeOK
<1>4. JobsRight'
  <2> SUFFICES ASSUME NEW g \in Handlers, job'[g] # NoJob
               PROVE  TodoRight(Price[job'[g].e], locked[job'[g].e], paid[job'[g].e],
                                refunded[job'[g].e], job'[g].todo)
    BY <1>2 DEF JobsRight, JobRight
  <2>1. CASE g = h
    <3>1. job'[g] = new
      BY <1>2, <2>1 DEF Inductive, TypeOK
    <3> QED
      BY <1>1, <3>1 DEF Fits
  <2>2. CASE g # h
    <3>1. job'[g] = job[g]
      BY <1>2, <2>2 DEF Inductive, TypeOK
    <3> QED
      BY <3>1 DEF Inductive, JobsRight, JobRight
  <2> QED
    BY <2>1, <2>2
<1>5. EscrowRowsAreFunded' /\ SettledMeansPaid' /\ MilestonesArePaid'
  BY <1>2 DEF Inductive, EscrowRowsAreFunded, SettledMeansPaid, MilestonesArePaid
<1> QED
  BY <1>3, <1>4, <1>5 DEF Inductive

(* An operation that stops half way leaves rows and money as they are. *)
LEMMA DropKeeps ==
  ASSUME Inductive, NEW h \in Handlers, Drop(h), broken' \in BOOLEAN
  PROVE  Inductive'
<1>1. /\ job' = [job EXCEPT ![h] = NoJob]
      /\ UNCHANGED <<escrow, dispute, shipper, carrier, ops, locked, paid, refunded>>
  BY DEF Drop, books
<1>2. TypeOK'
  BY <1>1 DEF Inductive, TypeOK
<1>3. JobsRight'
  <2> SUFFICES ASSUME NEW g \in Handlers, job'[g] # NoJob
               PROVE  TodoRight(Price[job'[g].e], locked[job'[g].e], paid[job'[g].e],
                                refunded[job'[g].e], job'[g].todo)
    BY <1>1 DEF JobsRight, JobRight
  <2>1. job'[g] = job[g]
    BY <1>1 DEF Inductive, TypeOK
  <2> QED
    BY <2>1 DEF Inductive, JobsRight, JobRight
<1>4. EscrowRowsAreFunded' /\ SettledMeansPaid' /\ MilestonesArePaid'
  BY <1>1 DEF Inductive, EscrowRowsAreFunded, SettledMeansPaid, MilestonesArePaid
<1> QED
  BY <1>2, <1>3, <1>4 DEF Inductive

(* What the invariant says of the write a handler makes next. *)
LEMMA NextWrite ==
  ASSUME Inductive, NEW h \in Handlers, job[h] # NoJob
  PROVE  /\ job[h] \in Job /\ job[h].e \in Escrows
         /\ job[h].todo \in Seq(Writes) /\ job[h].todo # << >>
         /\ Head(job[h].todo) = job[h].todo[1] /\ job[h].todo[1] \in Writes
         /\ TodoRight(Price[job[h].e], locked[job[h].e], paid[job[h].e], refunded[job[h].e], job[h].todo)
         /\ WriteRight(Price[job[h].e], locked[job[h].e], paid[job[h].e], refunded[job[h].e],
                       job[h].todo, 1)
<1>1. job[h] \in Job /\ job[h].todo # << >>
  BY DEF Inductive, TypeOK
<1>2. job[h].e \in Escrows /\ job[h].todo \in Seq(Writes)
  BY <1>1 DEF Job
<1> DEFINE todo == job[h].todo
<1>3. Head(todo) = todo[1] /\ 1 \in Index(todo) /\ todo[1] \in Writes
  BY <1>1, <1>2 DEF Index
<1>4. TodoRight(Price[job[h].e], locked[job[h].e], paid[job[h].e], refunded[job[h].e], todo)
  BY DEF Inductive, JobsRight, JobRight
<1> QED
  BY <1>1, <1>2, <1>3, <1>4 DEF TodoRight

(* A list that is right stays right when amounts grow. *)
LEMMA TodoStays ==
  ASSUME NEW todo \in Seq(Writes), NEW price \in Nat,
         NEW l \in Nat, NEW p \in Nat, NEW r \in Nat, TodoRight(price, l, p, r, todo),
         NEW l1 \in Nat, NEW p1 \in Nat, NEW r1 \in Nat, l <= l1, p <= p1, r <= r1
  PROVE  TodoRight(price, l1, p1, r1, todo)
<1> SUFFICES ASSUME NEW i \in Index(todo) PROVE WriteRight(price, l1, p1, r1, todo, i)
  BY DEF TodoRight
<1>1. /\ i \in Nat /\ Len(todo) \in Nat /\ todo[i] \in Writes
      /\ \A j \in 1 .. i - 1 : j \in Index(todo)
  BY DEF Index
<1>2. ASSUME NEW dos \in {Locking, Paying, Refunding, Moving}, NEW j \in 1 .. i - 1
      PROVE  Gain(todo[j], dos) \in Nat
  BY <1>1, <1>2, GainIsNat DEF TodoRight, WriteRight
<1>3. WriteRight(price, l, p, r, todo, i)
  BY DEF TodoRight
<1>6. ASSUME NEW dos \in {Locking, Paying, Refunding, Moving}, NEW need \in Int,
             NEW have \in Int, NEW more \in Int, have <= more, Covered(need, have, todo, dos, i)
      PROVE  Covered(need, more, todo, dos, i)
  BY <1>1, <1>2, <1>6, CoveredGrows
<1>7. price \in Int /\ l \in Int /\ l1 \in Int /\ p \in Int /\ p1 \in Int /\ r \in Int /\ r1 \in Int
  OBVIOUS
<1>4. ASSUME todo[i].do = "insert" PROVE Covered(price, l1, todo, Locking, i)
  <2>1. Covered(price, l, todo, Locking, i)
    BY <1>3, <1>4 DEF WriteRight
  <2> QED
    BY <1>6, <1>7, <2>1
<1>5. ASSUME todo[i].do = "save" PROVE price <= l1 /\ Backed(todo[i].row, price, p1, r1, todo, i)
  <2>1. price <= l /\ Backed(todo[i].row, price, p, r, todo, i)
    BY <1>3, <1>5 DEF WriteRight
  <2>2. todo[i].row.sent \in Int
    BY <1>1, <1>5 DEF Writes, Row
  <2>3. Covered(todo[i].row.sent, p1, todo, Paying, i)
    <3>1. Covered(todo[i].row.sent, p, todo, Paying, i)
      BY <2>1 DEF Backed
    <3> QED
      BY <1>6, <1>7, <2>2, <3>1
  <2>4. ASSUME todo[i].row.status = "SERBEST_BIRAKILDI"
        PROVE  Covered(price, p1 + r1, todo, Moving, i)
    <3>1. p + r \in Int /\ p1 + r1 \in Int /\ p + r <= p1 + r1
      OBVIOUS
    <3> QED
      BY SMTT(30), <1>1, <1>2, <2>1, <2>4, <3>1, CoveredGrows DEF Backed
  <2>5. ASSUME todo[i].row.status = "IPTAL_EDILDI"
        PROVE  Covered(price, r1, todo, Refunding, i)
    <3>1. Covered(price, r, todo, Refunding, i)
      BY <2>1, <2>5 DEF Backed
    <3> QED
      BY <1>6, <1>7, <3>1
  <2> QED
    BY <2>1, <2>3, <2>4, <2>5 DEF Backed
<1> QED
  BY <1>3, <1>4, <1>5 DEF WriteRight

(* The rest of a list is right once its first write is made. *)
LEMMA TodoMoves ==
  ASSUME NEW todo \in Seq(Writes), todo # << >>, NEW price \in Nat,
         NEW l \in Nat, NEW p \in Nat, NEW r \in Nat, TodoRight(price, l, p, r, todo),
         NEW l1 \in Nat, NEW p1 \in Nat, NEW r1 \in Nat,
         l + Gain(todo[1], Locking) <= l1, p + Gain(todo[1], Paying) <= p1,
         r + Gain(todo[1], Refunding) <= r1
  PROVE  TodoRight(price, l1, p1, r1, Tail(todo))
<1> SUFFICES ASSUME NEW i \in Index(Tail(todo)) PROVE WriteRight(price, l1, p1, r1, Tail(todo), i)
  BY DEF TodoRight
<1>1. /\ i + 1 \in Index(todo) /\ 1 \in Index(todo) /\ Tail(todo)[i] = todo[i + 1]
      /\ todo[i + 1] \in Writes
  BY DEF Index
<1>2. ASSUME NEW dos \in {Locking, Paying, Refunding, Moving}, NEW j \in Index(todo)
      PROVE  Gain(todo[j], dos) \in Nat
  BY <1>2, GainIsNat DEF TodoRight, WriteRight
<1>3. WriteRight(price, l, p, r, todo, i + 1)
  BY <1>1 DEF TodoRight
<1>4. ASSUME todo[i + 1].do = "insert" PROVE Covered(price, l1, Tail(todo), Locking, i)
  <2>1. Covered(price, l, todo, Locking, i + 1)
    BY <1>3, <1>4 DEF WriteRight
  <2> QED
    BY <1>2, <2>1, CoveredTail
<1>5. ASSUME todo[i + 1].do = "save"
      PROVE  price <= l1 /\ Backed(todo[i + 1].row, price, p1, r1, Tail(todo), i)
  <2>1. price <= l /\ Backed(todo[i + 1].row, price, p, r, todo, i + 1)
    BY <1>3, <1>5 DEF WriteRight
  <2>2. todo[i + 1].row.sent \in Nat
    BY <1>1, <1>5 DEF Writes, Row
  <2>3. Covered(todo[i + 1].row.sent, p1, Tail(todo), Paying, i)
    <3>1. Covered(todo[i + 1].row.sent, p, todo, Paying, i + 1)
      BY <2>1 DEF Backed
    <3> QED
      BY <1>2, <2>2, <3>1, CoveredTail
  <2>4. ASSUME todo[i + 1].row.status = "SERBEST_BIRAKILDI"
        PROVE  Covered(price, p1 + r1, Tail(todo), Moving, i)
    <3>1. Covered(price, p + r, todo, Moving, i + 1)
      BY <2>1, <2>4 DEF Backed
    <3>2. Gain(todo[1], Moving) = Gain(todo[1], Paying) + Gain(todo[1], Refunding)
      <4>1. /\ Gain(todo[1], Moving) \in Nat /\ Gain(todo[1], Paying) \in Nat
            /\ Gain(todo[1], Refunding) \in Nat
        BY <1>1, <1>2
      <4> QED
        BY <4>1 DEF Gain, Moving, Paying, Refunding
    <3>3. p + r + Gain(todo[1], Moving) <= p1 + r1 /\ p + r \in Int /\ p1 + r1 \in Int
      <4>1. Gain(todo[1], Paying) \in Nat /\ Gain(todo[1], Refunding) \in Nat
        BY <1>1, <1>2
      <4> QED
        BY SMTT(30), <3>2, <4>1
    <3> QED
      BY <1>2, <3>1, <3>3, CoveredTail
  <2>5. ASSUME todo[i + 1].row.status = "IPTAL_EDILDI"
        PROVE  Covered(price, r1, Tail(todo), Refunding, i)
    <3>1. Covered(price, r, todo, Refunding, i + 1)
      BY <2>1, <2>5 DEF Backed
    <3> QED
      BY <1>2, <3>1, CoveredTail
  <2>6. price <= l1
    BY SMTT(30), <1>1, <1>2, <2>1
  <2> QED
    BY <2>1, <2>3, <2>4, <2>5, <2>6 DEF Backed
<1> QED
  BY <1>1, <1>3, <1>4, <1>5 DEF WriteRight

(* A handler goes on after a write that the books have recorded. *)
LEMMA AdvanceKeeps ==
  ASSUME Inductive, NEW h \in Handlers, job[h] # NoJob, Advance(h),
         locked' \in [Escrows -> Nat], paid' \in [Escrows -> Nat], refunded' \in [Escrows -> Nat],
         \A e \in Escrows : locked[e] <= locked'[e] /\ paid[e] <= paid'[e] /\ refunded[e] <= refunded'[e],
         locked[job[h].e] + Gain(job[h].todo[1], Locking) <= locked'[job[h].e],
         paid[job[h].e] + Gain(job[h].todo[1], Paying) <= paid'[job[h].e],
         refunded[job[h].e] + Gain(job[h].todo[1], Refunding) <= refunded'[job[h].e]
  PROVE  /\ job' \in [Handlers -> Job \cup {NoJob}]
         /\ \A g \in Handlers : job'[g] # NoJob => job'[g].todo # << >>
         /\ ops' \in Nat /\ broken' \in BOOLEAN
         /\ JobsRight'
<1> DEFINE todo == job[h].todo
           rest == [job[h] EXCEPT !.todo = Tail(todo)]
<1>0. TypeOK
  BY DEF Inductive
<1>1. /\ job[h] \in Job /\ job[h].e \in Escrows /\ todo \in Seq(Writes) /\ todo # << >>
      /\ TodoRight(Price[job[h].e], locked[job[h].e], paid[job[h].e], refunded[job[h].e], todo)
  BY NextWrite
<1>2. /\ ops' = ops /\ broken' = broken
      /\ job' = [job EXCEPT ![h] = IF Tail(todo) = << >> THEN NoJob ELSE rest]
  BY DEF Advance
<1>3. Tail(todo) \in Seq(Writes)
  BY <1>1
<1>4. rest \in Job /\ rest.e = job[h].e /\ rest.todo = Tail(todo)
  BY <1>1, <1>3 DEF Job
<1> HIDE DEF rest
<1>5. /\ job'[h] = IF Tail(todo) = << >> THEN NoJob ELSE rest
      /\ \A g \in Handlers : g # h => job'[g] = job[g]
      /\ job' \in [Handlers -> Job \cup {NoJob}]
  BY <1>0, <1>2, <1>4 DEF TypeOK
<1>6. \A g \in Handlers : job'[g] # NoJob => job'[g].todo # << >>
  BY <1>0, <1>3, <1>4, <1>5 DEF TypeOK
<1>7. ops' \in Nat
  BY <1>0, <1>2 DEF TypeOK
<1>8. broken' \in BOOLEAN
  BY <1>0, <1>2 DEF TypeOK
<1>9. JobsRight'
  <2> SUFFICES ASSUME NEW g \in Handlers, job'[g] # NoJob
               PROVE  TodoRight(Price[job'[g].e], locked'[job'[g].e], paid'[job'[g].e],
                                refunded'[job'[g].e], job'[g].todo)
    BY DEF JobsRight, JobRight
  <2>1. CASE g = h
    <3>1. job'[g].e = job[h].e /\ job'[g].todo = Tail(todo)
      BY <1>4, <1>5, <2>1
    <3> DEFINE e == job[h].e
    <3>2. /\ Price[e] \in Nat /\ locked[e] \in Nat /\ paid[e] \in Nat /\ refunded[e] \in Nat
          /\ locked'[e] \in Nat /\ paid'[e] \in Nat /\ refunded'[e] \in Nat
      BY <1>0, <1>1, Amounts
    <3>3. TodoRight(Price[e], locked'[e], paid'[e], refunded'[e], Tail(todo))
      BY <1>1, <3>2, TodoMoves
    <3> QED
      BY <3>1, <3>3
  <2>2. CASE g # h
    <3>1. job'[g] = job[g]
      BY <1>5, <2>2
    <3> DEFINE e == job[g].e
    <3>2. /\ e \in Escrows /\ job[g].todo \in Seq(Writes)
          /\ TodoRight(Price[e], locked[e], paid[e], refunded[e], job[g].todo)
      BY <3>1, NextWrite
    <3>3. /\ Price[e] \in Nat /\ locked[e] \in Nat /\ paid[e] \in Nat /\ refunded[e] \in Nat
          /\ locked'[e] \in Nat /\ paid'[e] \in Nat /\ refunded'[e] \in Nat
          /\ locked[e] <= locked'[e] /\ paid[e] <= paid'[e] /\ refunded[e] <= refunded'[e]
      BY <1>0, <3>2, Amounts
    <3>4. TodoRight(Price[e], locked'[e], paid'[e], refunded'[e], job[g].todo)
      BY <3>2, <3>3, TodoStays
    <3> QED
      BY <3>1, <3>4
  <2> QED
    BY <2>1, <2>2
<1> QED
  BY <1>5, <1>6, <1>7, <1>8, <1>9

(* A write that moves money and leaves the rows alone. *)
LEMMA MoneyKeeps ==
  ASSUME Inductive, NEW h \in Handlers, job[h] # NoJob, Advance(h), escrow' = escrow,
         dispute' \in [Escrows -> {"none", "open", "resolved"}],
         shipper' \in Wallet, carrier' \in Wallet,
         locked' \in [Escrows -> Nat], paid' \in [Escrows -> Nat], refunded' \in [Escrows -> Nat],
         \A e \in Escrows : locked[e] <= locked'[e] /\ paid[e] <= paid'[e] /\ refunded[e] <= refunded'[e],
         locked[job[h].e] + Gain(job[h].todo[1], Locking) <= locked'[job[h].e],
         paid[job[h].e] + Gain(job[h].todo[1], Paying) <= paid'[job[h].e],
         refunded[job[h].e] + Gain(job[h].todo[1], Refunding) <= refunded'[job[h].e]
  PROVE  Inductive'
<1>1. /\ job' \in [Handlers -> Job \cup {NoJob}]
      /\ \A g \in Handlers : job'[g] # NoJob => job'[g].todo # << >>
      /\ ops' \in Nat /\ broken' \in BOOLEAN
      /\ JobsRight'
  BY AdvanceKeeps
<1>2. TypeOK'
  BY <1>1 DEF Inductive, TypeOK
<1>3. ASSUME NEW e \in Escrows, escrow'[e] # NoRow
      PROVE  /\ locked'[e] >= Price[e]
             /\ escrow'[e].status = "SERBEST_BIRAKILDI" => paid'[e] + refunded'[e] >= Price[e]
             /\ escrow'[e].status = "IPTAL_EDILDI" => refunded'[e] >= Price[e]
             /\ escrow'[e].sent <= paid'[e]
  <2>1. TypeOK /\ escrow'[e] = escrow[e]
    BY DEF Inductive
  <2>2. Fine(escrow[e], e) /\ Price[e] <= locked[e]
    BY <1>3, <2>1, ReadRow
  <2>3. /\ Price[e] \in Nat /\ locked[e] \in Nat /\ paid[e] \in Nat /\ refunded[e] \in Nat
        /\ locked'[e] \in Nat /\ paid'[e] \in Nat /\ refunded'[e] \in Nat
        /\ locked[e] <= locked'[e] /\ paid[e] <= paid'[e] /\ refunded[e] <= refunded'[e]
    BY <2>1, Amounts
  <2> QED
    BY <2>1, <2>2, <2>3 DEF Fine, Row
<1>4. EscrowRowsAreFunded' /\ SettledMeansPaid' /\ MilestonesArePaid'
  BY <1>3 DEF EscrowRowsAreFunded, SettledMeansPaid, MilestonesArePaid
<1> QED
  BY <1>1, <1>2, <1>4 DEF Inductive

(* A write that stores a row whose claims hold. *)
LEMMA RowKeeps ==
  ASSUME Inductive, NEW h \in Handlers, job[h] # NoJob, Advance(h),
         NEW row, Fine(row, job[h].e), Price[job[h].e] <= locked[job[h].e],
         escrow' = [escrow EXCEPT ![job[h].e] = row],
         UNCHANGED <<dispute, shipper, carrier, locked, paid, refunded>>,
         job[h].todo[1].do \notin Locking \cup Moving
  PROVE  Inductive'
<1> DEFINE e == job[h].e
<1>0. TypeOK /\ e \in Escrows
  BY NextWrite DEF Inductive
<1>1. /\ locked' = locked /\ paid' = paid /\ refunded' = refunded
      /\ dispute' = dispute /\ shipper' = shipper /\ carrier' = carrier
  OBVIOUS
<1>2. /\ job' \in [Handlers -> Job \cup {NoJob}]
      /\ \A g \in Handlers : job'[g] # NoJob => job'[g].todo # << >>
      /\ ops' \in Nat /\ broken' \in BOOLEAN
      /\ JobsRight'
  <2>1. /\ Gain(job[h].todo[1], Locking) = 0 /\ Gain(job[h].todo[1], Paying) = 0
        /\ Gain(job[h].todo[1], Refunding) = 0
    BY DEF Gain, Moving
  <2>2. /\ locked' \in [Escrows -> Nat] /\ paid' \in [Escrows -> Nat] /\ refunded' \in [Escrows -> Nat]
        /\ \A f \in Escrows : locked[f] <= locked'[f] /\ paid[f] <= paid'[f] /\ refunded[f] <= refunded'[f]
    BY <1>0, <1>1 DEF TypeOK
  <2>3. /\ locked[e] + Gain(job[h].todo[1], Locking) <= locked'[e]
        /\ paid[e] + Gain(job[h].todo[1], Paying) <= paid'[e]
        /\ refunded[e] + Gain(job[h].todo[1], Refunding) <= refunded'[e]
    BY <1>0, <1>1, <2>1, Amounts
  <2> QED
    BY <2>2, <2>3, AdvanceKeeps
<1>3. escrow' \in [Escrows -> Row \cup {NoRow}]
  BY <1>0 DEF TypeOK, Fine
<1>4. TypeOK'
  BY <1>0, <1>1, <1>2, <1>3 DEF TypeOK
<1>5. ASSUME NEW f \in Escrows, escrow'[f] # NoRow
      PROVE  /\ locked'[f] >= Price[f]
             /\ escrow'[f].status = "SERBEST_BIRAKILDI" => paid'[f] + refunded'[f] >= Price[f]
             /\ escrow'[f].status = "IPTAL_EDILDI" => refunded'[f] >= Price[f]
             /\ escrow'[f].sent <= paid'[f]
  <2>1. Fine(escrow'[f], f) /\ Price[f] <= locked[f]
    <3>1. CASE f = e
      <4>1. escrow'[f] = row
        BY <1>0, <3>1 DEF TypeOK
      <4> QED
        BY <3>1, <4>1
    <3>2. CASE f # e
      <4>1. escrow'[f] = escrow[f]
        BY <1>0, <3>2 DEF TypeOK
      <4> QED
        BY <1>5, <4>1, ReadRow
    <3> QED
      BY <3>1, <3>2
  <2>2. Price[f] \in Nat /\ locked[f] \in Nat /\ paid[f] \in Nat /\ refunded[f] \in Nat
    BY <1>0, Amounts
  <2> QED
    BY <1>1, <2>1, <2>2 DEF Fine, Row
<1>6. EscrowRowsAreFunded' /\ SettledMeansPaid' /\ MilestonesArePaid'
  BY <1>5 DEF EscrowRowsAreFunded, SettledMeansPaid, MilestonesArePaid
<1> QED
  BY <1>2, <1>4, <1>6 DEF Inductive

(* The row a handler saves claims what holds by then. *)
LEMMA SavedIsFine ==
  ASSUME Inductive, NEW h \in Handlers, job[h] # NoJob, job[h].todo[1].do = "save"
  PROVE  Fine(job[h].todo[1].row, job[h].e) /\ Price[job[h].e] <= locked[job[h].e]
<1> DEFINE e == job[h].e
           w == job[h].todo[1]
<1>1. /\ w \in Writes
      /\ WriteRight(Price[e], locked[e], paid[e], refunded[e], job[h].todo, 1)
  BY NextWrite
<1>2. w.row \in Row
  BY <1>1 DEF Writes
<1>3. Price[e] <= locked[e] /\ Backed(w.row, Price[e], paid[e], refunded[e], job[h].todo, 1)
  BY <1>1 DEF WriteRight
<1> QED
  BY <1>2, <1>3, CoveredHead DEF Backed, Fine

(* The balances are numbers. *)
LEMMA WalletNumbers ==
  ASSUME TypeOK
  PROVE  /\ carrier.available \in Int /\ carrier.escrow \in Int /\ carrier.pending \in Int
         /\ shipper.available \in Int /\ shipper.escrow \in Int /\ shipper.pending \in Int
BY DEF TypeOK, Wallet

(* Money is locked for e. *)
LEMMA LockKeeps ==
  ASSUME Inductive, NEW h \in Handlers, DoLock(h)
  PROVE  Inductive'
<1> DEFINE e == job[h].e
           n == job[h].todo[1].n
           a == shipper.available - n
           b == shipper.escrow + n
<1>1. job[h] # NoJob /\ job[h].todo[1].do = "lock" /\ Amount(h) = n
  BY NextWrite DEF DoLock, Doing, Amount
<1>2. TypeOK /\ e \in Escrows /\ n \in Nat
  <2>1. WriteRight(Price[e], locked[e], paid[e], refunded[e], job[h].todo, 1)
    BY <1>1, NextWrite
  <2> QED
    BY <1>1, <2>1, NextWrite DEF Inductive, WriteRight, Moving, Paying, Refunding
<1>3. /\ shipper' = [shipper EXCEPT !.available = a, !.escrow = b]
      /\ locked' = [locked EXCEPT ![e] = @ + n]
      /\ paid' = paid /\ refunded' = refunded
      /\ escrow' = escrow /\ dispute' = dispute /\ carrier' = carrier
      /\ Advance(h)
  BY <1>1 DEF DoLock, books
<1>4. a \in Int /\ b \in Int
  <2> HIDE DEF n
  <2> QED
    BY <1>2, WalletNumbers
<1> HIDE DEF a, b
<1>5. shipper' \in Wallet
  BY <1>2, <1>3, <1>4 DEF TypeOK, Wallet
<1>6. /\ locked' \in [Escrows -> Nat] /\ paid' \in [Escrows -> Nat] /\ refunded' \in [Escrows -> Nat]
      /\ \A f \in Escrows : locked[f] <= locked'[f] /\ paid[f] <= paid'[f] /\ refunded[f] <= refunded'[f]
      /\ locked'[e] = locked[e] + n
  <2> HIDE DEF e, n
  <2> QED
    BY <1>2, <1>3 DEF TypeOK
<1>7. /\ Gain(job[h].todo[1], Locking) = n
      /\ Gain(job[h].todo[1], Paying) = 0
      /\ Gain(job[h].todo[1], Refunding) = 0
  BY <1>1 DEF Gain, Locking, Paying, Refunding
<1>8. /\ locked[e] + Gain(job[h].todo[1], Locking) <= locked'[e]
      /\ paid[e] + Gain(job[h].todo[1], Paying) <= paid'[e]
      /\ refunded[e] + Gain(job[h].todo[1], Refunding) <= refunded'[e]
  BY <1>2, <1>3, <1>6, <1>7, Amounts
<1>9. dispute' \in [Escrows -> {"none", "open", "resolved"}] /\ carrier' \in Wallet
  BY <1>2, <1>3 DEF TypeOK
<1> QED
  BY <1>1, <1>3, <1>5, <1>6, <1>8, <1>9, MoneyKeeps

(* Money moves within the carrier's wallet. *)
LEMMA ReleaseKeeps ==
  ASSUME Inductive, NEW h \in Handlers, DoRelease(h)
  PROVE  Inductive'
<1> DEFINE e == job[h].e
           n == job[h].todo[1].n
           a == carrier.escrow - n
           b == carrier.pending + n
<1>1. job[h] # NoJob /\ job[h].todo[1].do = "release" /\ Amount(h) = n
  BY NextWrite DEF DoRelease, Doing, Amount
<1>2. TypeOK /\ e \in Escrows /\ n \in Nat
  <2>1. WriteRight(Price[e], locked[e], paid[e], refunded[e], job[h].todo, 1)
    BY <1>1, NextWrite
  <2> QED
    BY <1>1, <2>1, NextWrite DEF Inductive, WriteRight, Moving, Paying, Refunding
<1>3. /\ carrier' = [carrier EXCEPT !.escrow = a, !.pending = b]
      /\ locked' = locked /\ paid' = paid /\ refunded' = refunded
      /\ escrow' = escrow /\ dispute' = dispute /\ shipper' = shipper
      /\ Advance(h)
  BY <1>1 DEF DoRelease, books
<1>4. a \in Int /\ b \in Int
  <2> HIDE DEF n
  <2> QED
    BY <1>2, WalletNumbers
<1> HIDE DEF a, b
<1>5. carrier' \in Wallet
  BY <1>2, <1>3, <1>4 DEF TypeOK, Wallet
<1>6. /\ locked' \in [Escrows -> Nat] /\ paid' \in [Escrows -> Nat] /\ refunded' \in [Escrows -> Nat]
      /\ \A f \in Escrows : locked[f] <= locked'[f] /\ paid[f] <= paid'[f] /\ refunded[f] <= refunded'[f]
  <2> HIDE DEF e, n
  <2> QED
    BY <1>2, <1>3 DEF TypeOK
<1>7. /\ Gain(job[h].todo[1], Locking) = 0
      /\ Gain(job[h].todo[1], Paying) = 0
      /\ Gain(job[h].todo[1], Refunding) = 0
  BY <1>1 DEF Gain, Locking, Paying, Refunding
<1>8. /\ locked[e] + Gain(job[h].todo[1], Locking) <= locked'[e]
      /\ paid[e] + Gain(job[h].todo[1], Paying) <= paid'[e]
      /\ refunded[e] + Gain(job[h].todo[1], Refunding) <= refunded'[e]
  BY <1>2, <1>3, <1>6, <1>7, Amounts
<1>9. dispute' \in [Escrows -> {"none", "open", "resolved"}] /\ shipper' \in Wallet
  BY <1>2, <1>3 DEF TypeOK
<1> QED
  BY <1>1, <1>3, <1>5, <1>6, <1>8, <1>9, MoneyKeeps

(* Money reaches the carrier. *)
LEMMA ConfirmKeeps ==
  ASSUME Inductive, NEW h \in Handlers, DoConfirm(h)
  PROVE  Inductive'
<1> DEFINE e == job[h].e
           n == job[h].todo[1].n
           a == carrier.pending - n
           b == carrier.available + n
<1>1. job[h] # NoJob /\ job[h].todo[1].do = "confirm" /\ Amount(h) = n
  BY NextWrite DEF DoConfirm, Doing, Amount
<1>2. TypeOK /\ e \in Escrows /\ n \in Nat
  <2>1. WriteRight(Price[e], locked[e], paid[e], refunded[e], job[h].todo, 1)
    BY <1>1, NextWrite
  <2> QED
    BY <1>1, <2>1, NextWrite DEF Inductive, WriteRight, Moving, Paying, Refunding
<1>3. /\ carrier' = [carrier EXCEPT !.pending = a, !.available = b]
      /\ paid' = [paid EXCEPT ![e] = @ + n]
      /\ locked' = locked /\ refunded' = refunded
      /\ escrow' = escrow /\ dispute' = dispute /\ shipper' = shipper
      /\ Advance(h)
  BY <1>1 DEF DoConfirm, books
<1>4. a \in Int /\ b \in Int
  <2> HIDE DEF n
  <2> QED
    BY <1>2, WalletNumbers
<1> HIDE DEF a, b
<1>5. carrier' \in Wallet
  BY <1>2, <1>3, <1>4 DEF TypeOK, Wallet
<1>6. /\ locked' \in [Escrows -> Nat] /\ paid' \in [Escrows -> Nat] /\ refunded' \in [Escrows -> Nat]
      /\ \A f \in Escrows : locked[f] <= locked'[f] /\ paid[f] <= paid'[f] /\ refunded[f] <= refunded'[f]
      /\ paid'[e] = paid[e] + n
  <2> HIDE DEF e, n
  <2> QED
    BY <1>2, <1>3 DEF TypeOK
<1>7. /\ Gain(job[h].todo[1], Locking) = 0
      /\ Gain(job[h].todo[1], Paying) = n
      /\ Gain(job[h].todo[1], Refunding) = 0
  BY <1>1 DEF Gain, Locking, Paying, Refunding
<1>8. /\ locked[e] + Gain(job[h].todo[1], Locking) <= locked'[e]
      /\ paid[e] + Gain(job[h].todo[1], Paying) <= paid'[e]
      /\ refunded[e] + Gain(job[h].todo[1], Refunding) <= refunded'[e]
  BY <1>2, <1>3, <1>6, <1>7, Amounts
<1>9. dispute' \in [Escrows -> {"none", "open", "resolved"}] /\ shipper' \in Wallet
  BY <1>2, <1>3 DEF TypeOK
<1> QED
  BY <1>1, <1>3, <1>5, <1>6, <1>8, <1>9, MoneyKeeps

(* Money is credited to the carrier. *)
LEMMA CreditCarrierKeeps ==
  ASSUME Inductive, NEW h \in Handlers, DoCreditCarrier(h)
  PROVE  Inductive'
<1> DEFINE e == job[h].e
           n == job[h].todo[1].n
           a == carrier.available + n
<1>1. job[h] # NoJob /\ job[h].todo[1].do = "creditCarrier" /\ Amount(h) = n
  BY NextWrite DEF DoCreditCarrier, Doing, Amount
<1>2. TypeOK /\ e \in Escrows /\ n \in Nat
  <2>1. WriteRight(Price[e], locked[e], paid[e], refunded[e], job[h].todo, 1)
    BY <1>1, NextWrite
  <2> QED
    BY <1>1, <2>1, NextWrite DEF Inductive, WriteRight, Moving, Paying, Refunding
<1>3. /\ carrier' = [carrier EXCEPT !.available = a]
      /\ paid' = [paid EXCEPT ![e] = @ + n]
      /\ locked' = locked /\ refunded' = refunded
      /\ escrow' = escrow /\ dispute' = dispute /\ shipper' = shipper
      /\ Advance(h)
  BY <1>1 DEF DoCreditCarrier, books
<1>4. a \in Int
  <2> HIDE DEF n
  <2> QED
    BY <1>2, WalletNumbers
<1> HIDE DEF a
<1>5. carrier' \in Wallet
  BY <1>2, <1>3, <1>4 DEF TypeOK, Wallet
<1>6. /\ locked' \in [Escrows -> Nat] /\ paid' \in [Escrows -> Nat] /\ refunded' \in [Escrows -> Nat]
      /\ \A f \in Escrows : locked[f] <= locked'[f] /\ paid[f] <= paid'[f] /\ refunded[f] <= refunded'[f]
      /\ paid'[e] = paid[e] + n
  <2> HIDE DEF e, n
  <2> QED
    BY <1>2, <1>3 DEF TypeOK
<1>7. /\ Gain(job[h].todo[1], Locking) = 0
      /\ Gain(job[h].todo[1], Paying) = n
      /\ Gain(job[h].todo[1], Refunding) = 0
  BY <1>1 DEF Gain, Locking, Paying, Refunding
<1>8. /\ locked[e] + Gain(job[h].todo[1], Locking) <= locked'[e]
      /\ paid[e] + Gain(job[h].todo[1], Paying) <= paid'[e]
      /\ refunded[e] + Gain(job[h].todo[1], Refunding) <= refunded'[e]
  BY <1>2, <1>3, <1>6, <1>7, Amounts
<1>9. dispute' \in [Escrows -> {"none", "open", "resolved"}] /\ shipper' \in Wallet
  BY <1>2, <1>3 DEF TypeOK
<1> QED
  BY <1>1, <1>3, <1>5, <1>6, <1>8, <1>9, MoneyKeeps

(* Money goes back to the shipper. *)
LEMMA CreditShipperKeeps ==
  ASSUME Inductive, NEW h \in Handlers, DoCreditShipper(h)
  PROVE  Inductive'
<1> DEFINE e == job[h].e
           n == job[h].todo[1].n
           a == shipper.available + n
<1>1. job[h] # NoJob /\ job[h].todo[1].do = "creditShipper" /\ Amount(h) = n
  BY NextWrite DEF DoCreditShipper, Doing, Amount
<1>2. TypeOK /\ e \in Escrows /\ n \in Nat
  <2>1. WriteRight(Price[e], locked[e], paid[e], refunded[e], job[h].todo, 1)
    BY <1>1, NextWrite
  <2> QED
    BY <1>1, <2>1, NextWrite DEF Inductive, WriteRight, Moving, Paying, Refunding
<1>3. /\ shipper' = [shipper EXCEPT !.available = a]
      /\ refunded' = [refunded EXCEPT ![e] = @ + n]
      /\ locked' = locked /\ paid' = paid
      /\ escrow' = escrow /\ dispute' = dispute /\ carrier' = carrier
      /\ Advance(h)
  BY <1>1 DEF DoCreditShipper, books
<1>4. a \in Int
  <2> HIDE DEF n
  <2> QED
    BY <1>2, WalletNumbers
<1> HIDE DEF a
<1>5. shipper' \in Wallet
  BY <1>2, <1>3, <1>4 DEF TypeOK, Wallet
<1>6. /\ locked' \in [Escrows -> Nat] /\ paid' \in [Escrows -> Nat] /\ refunded' \in [Escrows -> Nat]
      /\ \A f \in Escrows : locked[f] <= locked'[f] /\ paid[f] <= paid'[f] /\ refunded[f] <= refunded'[f]
      /\ refunded'[e] = refunded[e] + n
  <2> HIDE DEF e, n
  <2> QED
    BY <1>2, <1>3 DEF TypeOK
<1>7. /\ Gain(job[h].todo[1], Locking) = 0
      /\ Gain(job[h].todo[1], Paying) = 0
      /\ Gain(job[h].todo[1], Refunding) = n
  BY <1>1 DEF Gain, Locking, Paying, Refunding
<1>8. /\ locked[e] + Gain(job[h].todo[1], Locking) <= locked'[e]
      /\ paid[e] + Gain(job[h].todo[1], Paying) <= paid'[e]
      /\ refunded[e] + Gain(job[h].todo[1], Refunding) <= refunded'[e]
  BY <1>2, <1>3, <1>6, <1>7, Amounts
<1>9. dispute' \in [Escrows -> {"none", "open", "resolved"}] /\ carrier' \in Wallet
  BY <1>2, <1>3 DEF TypeOK
<1> QED
  BY <1>1, <1>3, <1>5, <1>6, <1>8, <1>9, MoneyKeeps

(* A dispute is stored. *)
LEMMA DisputeKeeps ==
  ASSUME Inductive, NEW h \in Handlers, DoDispute(h)
  PROVE  Inductive'
<1> DEFINE e == job[h].e
           w == job[h].todo[1]
<1>1. job[h] # NoJob /\ w.do = "dispute" /\ w \in Writes /\ e \in Escrows /\ TypeOK
  BY NextWrite DEF DoDispute, Doing, Inductive
<1>2. w.status \in {"open", "resolved"}
  BY <1>1 DEF Writes
<1>3. /\ dispute' = [dispute EXCEPT ![e] = w.status]
      /\ locked' = locked /\ paid' = paid /\ refunded' = refunded
      /\ escrow' = escrow /\ shipper' = shipper /\ carrier' = carrier
      /\ Advance(h)
  BY <1>1, NextWrite DEF DoDispute, books
<1> HIDE DEF e, w
<1>4. /\ dispute' \in [Escrows -> {"none", "open", "resolved"}]
      /\ shipper' \in Wallet /\ carrier' \in Wallet
      /\ locked' \in [Escrows -> Nat] /\ paid' \in [Escrows -> Nat] /\ refunded' \in [Escrows -> Nat]
      /\ \A f \in Escrows : locked[f] <= locked'[f] /\ paid[f] <= paid'[f] /\ refunded[f] <= refunded'[f]
  BY <1>1, <1>2, <1>3 DEF TypeOK
<1>5. Gain(w, Locking) = 0 /\ Gain(w, Paying) = 0 /\ Gain(w, Refunding) = 0
  BY <1>1 DEF Gain, Locking, Paying, Refunding
<1>6. /\ locked[e] + Gain(w, Locking) <= locked'[e]
      /\ paid[e] + Gain(w, Paying) <= paid'[e]
      /\ refunded[e] + Gain(w, Refunding) <= refunded'[e]
  BY <1>1, <1>3, <1>5, Amounts
<1> QED
  BY <1>1, <1>3, <1>4, <1>6, MoneyKeeps DEF e, w

(* A row is inserted: its amount was locked by the write before. *)
LEMMA InsertKeeps ==
  ASSUME Inductive, NEW h \in Handlers, DoInsert(h)
  PROVE  Inductive'
<1> DEFINE e == job[h].e
<1>1. /\ job[h] # NoJob /\ job[h].todo[1].do = "insert" /\ e \in Escrows /\ TypeOK
      /\ WriteRight(Price[e], locked[e], paid[e], refunded[e], job[h].todo, 1)
  BY NextWrite DEF DoInsert, Doing, Inductive
<1>2. /\ escrow' = [escrow EXCEPT ![e] = NewRow] /\ Advance(h)
      /\ UNCHANGED <<dispute, shipper, carrier, locked, paid, refunded>>
  BY DEF DoInsert, books
<1>3. Price[e] <= locked[e]
  BY <1>1, CoveredHead DEF WriteRight
<1>4. Fine(NewRow, e)
  <2>1. NewRow \in Row /\ NewRow.sent = 0 /\ NewRow.status = "BEKLEMEDE"
    BY DEF NewRow, Row, Statuses, Tiers
  <2>2. 0 <= paid[e]
    BY <1>1, Amounts
  <2> QED
    BY <2>1, <2>2 DEF Fine
<1>5. job[h].todo[1].do \notin Locking \cup Moving
  BY <1>1 DEF Locking, Moving, Paying, Refunding
<1> QED
  BY <1>1, <1>2, <1>3, <1>4, <1>5, RowKeeps

(* A row is saved as its handler read or set it. *)
LEMMA SaveKeeps ==
  ASSUME Inductive, NEW h \in Handlers, DoSave(h)
  PROVE  Inductive'
<1> DEFINE e == job[h].e
           row == job[h].todo[1].row
<1>1. job[h] # NoJob /\ job[h].todo[1].do = "save"
  BY NextWrite DEF DoSave, Doing
<1>2. /\ escrow' = [escrow EXCEPT ![e] = row] /\ Advance(h)
      /\ UNCHANGED <<dispute, shipper, carrier, locked, paid, refunded>>
  BY <1>1, NextWrite DEF DoSave, books
<1>3. Fine(row, e) /\ Price[e] <= locked[e]
  BY <1>1, SavedIsFine
<1>4. job[h].todo[1].do \notin Locking \cup Moving
  BY <1>1 DEF Locking, Moving, Paying, Refunding
<1> QED
  BY <1>1, <1>2, <1>3, <1>4, RowKeeps

(* A step of a handler that stops: a refused lock, a duplicate row, a failure. *)
LEMMA StopKeeps ==
  ASSUME Inductive, NEW h \in Handlers, LockRefused(h) \/ InsertDuplicate(h) \/ Break(h)
  PROVE  Inductive'
<1>1. broken \in BOOLEAN
  BY DEF Inductive, TypeOK
<1>2. Drop(h)
  BY DEF LockRefused, InsertDuplicate, Break
<1>3. broken' \in BOOLEAN
  <2>1. broken' = broken \/ broken' = TRUE
    BY DEF LockRefused, InsertDuplicate, Break
  <2> QED
    BY <1>1, <2>1
<1> QED
  BY <1>2, <1>3, DropKeeps

LEMMA InitInductive == Init => Inductive
<1> SUFFICES ASSUME Init PROVE Inductive
  OBVIOUS
<1>1. TypeOK
  <2>1. broken \in BOOLEAN
    BY DEF Init
  <2>2. /\ escrow \in [Escrows -> Row \cup {NoRow}]
        /\ dispute \in [Escrows -> {"none", "open", "resolved"}]
        /\ job \in [Handlers -> Job \cup {NoJob}]
        /\ \A h \in Handlers : job[h] # NoJob => job[h].todo # << >>
        /\ ops \in Nat
    BY DEF Init
  <2>3. shipper \in Wallet /\ carrier \in Wallet
    BY AmountsAssumption DEF Init, Wallet
  <2>4. /\ locked \in [Escrows -> Nat] /\ paid \in [Escrows -> Nat] /\ refunded \in [Escrows -> Nat]
    BY DEF Init
  <2> QED
    BY <2>1, <2>2, <2>3, <2>4 DEF TypeOK
<1>2. JobsRight
  BY DEF Init, JobsRight, JobRight
<1>3. EscrowRowsAreFunded /\ SettledMeansPaid /\ MilestonesArePaid
  BY DEF Init, EscrowRowsAreFunded, SettledMeansPaid, MilestonesArePaid
<1> QED
  BY <1>1, <1>2, <1>3 DEF Inductive

LEMMA StutterInductive ==
  ASSUME Inductive, UNCHANGED vars
  PROVE  Inductive'
<1>1. /\ escrow' = escrow /\ dispute' = dispute /\ shipper' = shipper /\ carrier' = carrier
      /\ job' = job /\ ops' = ops /\ locked' = locked /\ paid' = paid /\ refunded' = refunded
      /\ broken' = broken
  BY DEF vars
<1>2. TypeOK'
  BY <1>1 DEF Inductive, TypeOK
<1>3. JobsRight'
  BY <1>1 DEF Inductive, JobsRight, JobRight
<1>4. EscrowRowsAreFunded' /\ SettledMeansPaid' /\ MilestonesArePaid'
  BY <1>1 DEF Inductive, EscrowRowsAreFunded, SettledMeansPaid, MilestonesArePaid
<1> QED
  BY <1>2, <1>3, <1>4 DEF Inductive

LEMMA NextInductive == Inductive /\ [Next]_vars => Inductive'
<1> SUFFICES ASSUME Inductive, [Next]_vars PROVE Inductive'
  OBVIOUS
<1>1. ASSUME NEW h \in Handlers, NEW e \in Escrows, Begin(h, e)
      PROVE  Inductive'
  <2>1. PICK op \in Operations, todo \in Seq(Writes) : Take(h, op, e, todo) /\ Fits(e, todo)
    BY <1>1, CallFits
  <2> QED
    BY <2>1, TakeKeeps
<1>2. ASSUME NEW h \in Handlers, Write(h)
      PROVE  Inductive'
  <2>1. CASE DoLock(h)
    BY <2>1, LockKeeps
  <2>2. CASE LockRefused(h) \/ InsertDuplicate(h)
    BY <2>2, StopKeeps
  <2>3. CASE DoInsert(h)
    BY <2>3, InsertKeeps
  <2>4. CASE DoSave(h)
    BY <2>4, SaveKeeps
  <2>5. CASE DoRelease(h)
    BY <2>5, ReleaseKeeps
  <2>6. CASE DoConfirm(h)
    BY <2>6, ConfirmKeeps
  <2>7. CASE DoCreditCarrier(h)
    BY <2>7, CreditCarrierKeeps
  <2>8. CASE DoCreditShipper(h)
    BY <2>8, CreditShipperKeeps
  <2>9. CASE DoDispute(h)
    BY <2>9, DisputeKeeps
  <2> QED
    BY <1>2, <2>1, <2>2, <2>3, <2>4, <2>5, <2>6, <2>7, <2>8, <2>9 DEF Write
<1>3. ASSUME NEW h \in Handlers, Break(h)
      PROVE  Inductive'
  BY <1>3, StopKeeps
<1>4. CASE UNCHANGED vars
  BY <1>4, StutterInductive
<1> QED
  BY <1>1, <1>2, <1>3, <1>4 DEF Next

-----------------------------------------------------------------------------
(* Theorems. *)

(* Whatever handlers run together, however stale the rows they save and    *)
(* wherever they stop, what a row claims about money is true, and so is    *)
(* what any save still to come will claim when its turn comes.             *)
THEOREM InductiveInvariant == Spec => []Inductive
BY InitInductive, NextInductive, PTL DEF Spec

(* Rows, wallets, books and the writes handlers have left keep their type. *)
THEOREM TypeCorrect == Spec => []TypeOK
<1>1. Inductive => TypeOK
  BY DEF Inductive
<1> QED
  BY <1>1, InductiveInvariant, PTL

(* createEscrow locks before it inserts, and refuses what it cannot lock:  *)
(* every escrow row stands for money that was locked, for any amounts and  *)
(* any number of handlers.                                                 *)
THEOREM RowsAreFunded == Spec => []EscrowRowsAreFunded
<1>1. Inductive => EscrowRowsAreFunded
  BY DEF Inductive
<1> QED
  BY <1>1, InductiveInvariant, PTL

(* No interleaving of release, dispute, refund, review and scans, nor a    *)
(* failure between their writes, makes a row settled before its amount has *)
(* been paid or refunded.                                                  *)
THEOREM SettledArePaid == Spec => []SettledMeansPaid
<1>1. Inductive => SettledMeansPaid
  BY DEF Inductive
<1> QED
  BY <1>1, InductiveInvariant, PTL

(* What a row counts as released to milestones has reached the carrier,    *)
(* for any split of the amount.                                            *)
THEOREM MilestonesPaid == Spec => []MilestonesArePaid
<1>1. Inductive => MilestonesArePaid
  BY DEF Inductive
<1> QED
  BY <1>1, InductiveInvariant, PTL
-----------------------------------------------------------------------------
(* Sums over handlers.  A recursive sum is out of the provers' reach, so   *)
(* the sum of f over S is the number of units that f assigns to S.         *)

Units(f, S) == UNION {{x} \X (1 .. f[x]) : x \in S}
Total(f, S) == Cardinality(Units(f, S))

(* One element has as many units as f gives it. *)
LEMMA UnitsOfOne ==
  ASSUME NEW x, NEW n \in Nat
  PROVE  IsFiniteSet({x} \X (1 .. n)) /\ Cardinality({x} \X (1 .. n)) = n
<1>1. IsFiniteSet({x}) /\ Cardinality({x}) = 1
  BY FS_Singleton
<1>2. IsFiniteSet(1 .. n) /\ Cardinality(1 .. n) = n
  BY FS_Interval
<1>3. \A A, B : IsFiniteSet(A) /\ IsFiniteSet(B) =>
        IsFiniteSet(A \X B) /\ Cardinality(A \X B) = Cardinality(A) * Cardinality(B)
  BY FS_Product
<1>4. /\ IsFiniteSet({x} \X (1 .. n))
      /\ Cardinality({x} \X (1 .. n)) = Cardinality({x}) * Cardinality(1 .. n)
  BY <1>1, <1>2, <1>3, Zenon
<1> QED
  BY <1>1, <1>2, <1>4

(* The sum without x, and x. *)
LEMMA TotalOfRest ==
  ASSUME NEW S, NEW f, NEW x \in S, f[x] \in Nat, IsFiniteSet(Units(f, S \ {x}))
  PROVE  IsFiniteSet(Units(f, S)) /\ Total(f, S) = Total(f, S \ {x}) + f[x]
<1> DEFINE here == {x} \X (1 .. f[x])
           rest == Units(f, S \ {x})
<1>1. Units(f, S) = rest \cup here
  BY DEF Units
<1>2. rest \cap here = {}
  BY DEF Units
<1>3. IsFiniteSet(here) /\ Cardinality(here) = f[x]
  BY UnitsOfOne
<1>4. Cardinality(rest \cap here) = 0
  BY <1>2, FS_EmptySet
<1>5. Cardinality(rest) \in Nat
  BY FS_CardinalityType
<1> HIDE DEF here, rest
<1>6. /\ IsFiniteSet(rest \cup here)
      /\ Cardinality(rest \cup here) = Cardinality(rest) + Cardinality(here) - Cardinality(rest \cap here)
  BY <1>3, FS_Union DEF rest
<1> QED
  BY <1>1, <1>3, <1>4, <1>5, <1>6 DEF Total, rest

(* One element changes. *)
LEMMA TotalChanges ==
  ASSUME NEW S, NEW f, NEW g, NEW x \in S, f[x] \in Nat, g[x] \in Nat,
         IsFiniteSet(Units(f, S)), \A y \in S \ {x} : g[y] = f[y]
  PROVE  IsFiniteSet(Units(g, S)) /\ Total(g, S) = Total(f, S) - f[x] + g[x]
<1>1. Units(f, S \ {x}) \subseteq Units(f, S)
  BY DEF Units
<1>2. Units(g, S \ {x}) = Units(f, S \ {x})
  BY DEF Units
<1>3. IsFiniteSet(Units(f, S \ {x}))
  BY <1>1, FS_Subset
<1>4. Total(f, S) = Total(f, S \ {x}) + f[x]
  BY <1>3, TotalOfRest
<1>5. IsFiniteSet(Units(g, S)) /\ Total(g, S) = Total(g, S \ {x}) + g[x]
  BY <1>2, <1>3, TotalOfRest
<1>6. Total(f, S \ {x}) \in Nat
  BY <1>3, FS_CardinalityType DEF Total
<1>7. Total(g, S \ {x}) = Total(f, S \ {x})
  BY <1>2 DEF Total
<1> QED
  BY <1>4, <1>5, <1>6, <1>7

(* Nothing adds up to nothing. *)
LEMMA TotalOfNothing ==
  ASSUME NEW S, NEW f, \A x \in S : f[x] = 0
  PROVE  IsFiniteSet(Units(f, S)) /\ Total(f, S) = 0
<1>1. Units(f, S) = {}
  BY DEF Units
<1> QED
  BY <1>1, FS_EmptySet DEF Total

-----------------------------------------------------------------------------
(* pendingRelease.  Every release is followed by its confirmation, so what *)
(* is pending is what the handlers between the two are about to confirm.   *)

Owed(j) == IF j # NoJob /\ Head(j.todo).do = "confirm" THEN Head(j.todo).n ELSE 0
Dues(jobs) == [h \in Handlers |-> Owed(jobs[h])]

Paired(todo) ==
  \A i \in 1 .. Len(todo) :
    /\ todo[i].do \in {"release", "confirm"} => todo[i].n \in Nat
    /\ todo[i].do = "release" => i < Len(todo) /\ todo[i + 1] = Confirm(todo[i].n)
    /\ todo[i].do = "confirm" /\ i > 1 => todo[i - 1].do = "release"

(* A list that does not begin between a release and its confirmation. *)
Whole(todo) == Paired(todo) /\ (Len(todo) > 0 => todo[1].do # "confirm")

JobsPaired == \A h \in Handlers : job[h] # NoJob => Paired(job[h].todo)

PendingRight ==
  /\ JobsPaired
  /\ IsFiniteSet(Units(Dues(job), Handlers))
  /\ ~broken => carrier.pending = Total(Dues(job), Handlers)

LEMMA WholeTogether ==
  ASSUME NEW S, NEW a \in Seq(S), NEW b \in Seq(S), Whole(a), Whole(b)
  PROVE  a \o b \in Seq(S) /\ Whole(a \o b)
<1> DEFINE c == a \o b
           m == Len(a)
           n == Len(b)
<1>1. /\ c \in Seq(S) /\ m \in Nat /\ n \in Nat /\ Len(c) = m + n
      /\ \A i \in 1 .. m : c[i] = a[i]
      /\ \A i \in 1 .. n : c[m + i] = b[i]
  OBVIOUS
<1> HIDE DEF c
<1>2. ASSUME NEW i \in 1 .. m + n
      PROVE  /\ c[i].do \in {"release", "confirm"} => c[i].n \in Nat
             /\ c[i].do = "release" => i < m + n /\ c[i + 1] = Confirm(c[i].n)
             /\ c[i].do = "confirm" /\ i > 1 => c[i - 1].do = "release"
  <2>1. CASE i <= m
    <3>1. i \in 1 .. m /\ c[i] = a[i]
      BY <1>1, <2>1
    <3>2. i > 1 => c[i - 1] = a[i - 1]
      <4>1. i > 1 => i - 1 \in 1 .. m
        BY <1>1, <3>1
      <4> QED
        BY <1>1, <4>1
    <3>3. i < m => c[i + 1] = a[i + 1]
      <4>1. i < m => i + 1 \in 1 .. m
        BY <1>1, <3>1
      <4> QED
        BY <1>1, <4>1
    <3>4. /\ a[i].do \in {"release", "confirm"} => a[i].n \in Nat
          /\ a[i].do = "release" => i < m /\ a[i + 1] = Confirm(a[i].n)
          /\ a[i].do = "confirm" /\ i > 1 => a[i - 1].do = "release"
      BY <3>1 DEF Whole, Paired
    <3>5. i < m => i < m + n
      BY <1>1, <3>1
    <3> HIDE DEF m, n
    <3> QED
      BY <3>1, <3>2, <3>3, <3>4, <3>5
  <2>2. CASE i > m
    <3> DEFINE k == i - m
    <3>1. k \in 1 .. n /\ c[i] = b[k]
      <4>1. k \in 1 .. n /\ m + k = i
        BY <1>1, <2>2
      <4> QED
        BY <1>1, <4>1
    <3>2. k > 1 => c[i - 1] = b[k - 1]
      <4>1. k > 1 => k - 1 \in 1 .. n /\ m + (k - 1) = i - 1
        BY <1>1, <3>1
      <4> QED
        BY <1>1, <4>1
    <3>3. k < n => c[i + 1] = b[k + 1]
      <4>1. k < n => k + 1 \in 1 .. n /\ m + (k + 1) = i + 1
        BY <1>1, <3>1
      <4> QED
        BY <1>1, <4>1
    <3>4. k = 1 => c[i].do # "confirm"
      BY <1>1, <3>1 DEF Whole
    <3>5. k > 1 \/ k = 1
      BY <3>1
    <3>6. k < n => i < m + n
      BY <1>1, <3>1
    <3>7. /\ b[k].do \in {"release", "confirm"} => b[k].n \in Nat
          /\ b[k].do = "release" => k < n /\ b[k + 1] = Confirm(b[k].n)
          /\ b[k].do = "confirm" /\ k > 1 => b[k - 1].do = "release"
      BY <3>1 DEF Whole, Paired
    <3> HIDE DEF k, m, n
    <3> QED
      BY <3>1, <3>2, <3>3, <3>4, <3>5, <3>6, <3>7
  <2> QED
    BY <1>1, <2>1, <2>2
<1>3. Len(c) > 0 => c[1].do # "confirm"
  <2>1. CASE m > 0
    BY <1>1, <2>1 DEF Whole
  <2>2. CASE m = 0
    BY <1>1, <2>2 DEF Whole
  <2> QED
    BY <1>1, <2>1, <2>2
<1> QED
  BY <1>1, <1>2, <1>3 DEF Whole, Paired, c

(* Lists that neither release nor confirm, and a payment. *)
LEMMA WholeOthers ==
  ASSUME NEW S, NEW todo \in Seq(S), \A i \in 1 .. Len(todo) : todo[i].do \notin {"release", "confirm"}
  PROVE  Whole(todo)
BY DEF Whole, Paired

LEMMA WholePay ==
  ASSUME NEW n \in Int
  PROVE  /\ n >= 0 => Pay(n) \in Seq(Writes) /\ Whole(Pay(n))
         /\ PayRest(n) \in Seq(Writes) /\ Whole(PayRest(n))
<1>1. ASSUME n >= 0
      PROVE  Pay(n) \in Seq(Writes) /\ Whole(Pay(n))
  <2>1. /\ Release(n) \in Writes /\ Release(n).do = "release" /\ Release(n).n = n
        /\ Confirm(n) \in Writes /\ Confirm(n).do = "confirm" /\ Confirm(n).n = n
    BY <1>1, WriteKinds
  <2>2. /\ Pay(n) \in Seq(Writes) /\ Len(Pay(n)) = 2
        /\ Pay(n)[1] = Release(n) /\ Pay(n)[2] = Confirm(n)
    BY <2>1 DEF Pay
  <2> QED
    BY <1>1, <2>1, <2>2 DEF Whole, Paired
<1>2. << >> \in Seq(Writes) /\ Whole(<< >>)
  BY DEF Whole, Paired
<1> QED
  BY <1>1, <1>2 DEF PayRest

(* The lists of the operations. *)
LEMMA WholeSave ==
  ASSUME NEW row \in Row
  PROVE  <<Save(row)>> \in Seq(Writes) /\ <<Save(row)>> # << >> /\ Whole(<<Save(row)>>)
<1> DEFINE todo == <<Save(row)>>
<1>1. Save(row) \in Writes /\ Save(row).do = "save"
  BY WriteKinds
<1>2. todo \in Seq(Writes) /\ todo # << >> /\ Len(todo) = 1 /\ todo[1] = Save(row)
  BY <1>1
<1> HIDE DEF todo
<1>3. \A i \in 1 .. Len(todo) : todo[i].do \notin {"release", "confirm"}
  BY <1>1, <1>2
<1>4. Whole(todo)
  BY <1>2, <1>3, WholeOthers
<1> QED
  BY <1>2, <1>4 DEF todo

LEMMA WholePair ==
  ASSUME NEW a \in Writes, NEW b \in Writes,
         a.do \notin {"release", "confirm"}, b.do \notin {"release", "confirm"}
  PROVE  <<a, b>> \in Seq(Writes) /\ <<a, b>> # << >> /\ Whole(<<a, b>>)
<1> DEFINE todo == <<a, b>>
<1>1. /\ todo \in Seq(Writes) /\ todo # << >> /\ Len(todo) = 2
      /\ todo[1] = a /\ todo[2] = b
  OBVIOUS
<1> HIDE DEF todo
<1>2. \A i \in 1 .. Len(todo) : todo[i].do \notin {"release", "confirm"}
  BY <1>1
<1>3. Whole(todo)
  BY <1>1, <1>2, WholeOthers
<1> QED
  BY <1>1, <1>3 DEF todo

LEMMA SavedRow ==
  ASSUME NEW row \in Row
  PROVE  /\ \A s \in Statuses : [row EXCEPT !.status = s] \in Row
         /\ \A s \in Statuses, r \in BOOLEAN : [row EXCEPT !.status = s, !.review = r] \in Row
         /\ \A s \in Statuses, d \in Int : [row EXCEPT !.status = s, !.released = @ + d] \in Row
         /\ \A s \in Statuses, d \in Int, r \in BOOLEAN :
              [row EXCEPT !.status = s, !.released = @ + d, !.review = r] \in Row
         /\ \A n \in Nat : [row EXCEPT !.completed = @ + 1, !.sent = @ + n] \in Row
<1>1. /\ row.completed \in Nat /\ row.sent \in Nat /\ row.released \in Int
      /\ row = [status |-> row.status, completed |-> row.completed, sent |-> row.sent,
                released |-> row.released, review |-> row.review, tier |-> row.tier]
      /\ row.status \in Statuses /\ row.review \in BOOLEAN /\ row.tier \in Tiers
  BY DEF Row
<1>2. ASSUME NEW s \in Statuses
      PROVE  [row EXCEPT !.status = s] \in Row
  BY <1>1 DEF Row
<1>3. ASSUME NEW s \in Statuses, NEW r \in BOOLEAN
      PROVE  [row EXCEPT !.status = s, !.review = r] \in Row
  BY <1>1 DEF Row
<1>4. ASSUME NEW s \in Statuses, NEW d \in Int
      PROVE  [row EXCEPT !.status = s, !.released = @ + d] \in Row
  <2>1. row.released + d \in Int
    BY <1>1
  <2> QED
    BY <1>1, <2>1 DEF Row
<1>5. ASSUME NEW s \in Statuses, NEW d \in Int, NEW r \in BOOLEAN
      PROVE  [row EXCEPT !.status = s, !.released = @ + d, !.review = r] \in Row
  <2>1. row.released + d \in Int
    BY <1>1
  <2> QED
    BY <1>1, <2>1 DEF Row
<1>6. ASSUME NEW n \in Nat
      PROVE  [row EXCEPT !.completed = @ + 1, !.sent = @ + n] \in Row
  <2>1. row.completed + 1 \in Nat /\ row.sent + n \in Nat
    BY <1>1
  <2> QED
    BY <1>1, <2>1 DEF Row
<1> QED
  BY <1>2, <1>3, <1>4, <1>5, <1>6

LEMMA WholeAssessed ==
  ASSUME NEW e \in Escrows, NEW row \in Row
  PROVE  Assessed(e, row) \in Seq(Writes) /\ Assessed(e, row) # << >> /\ Whole(Assessed(e, row))
<1>1. /\ "ITIRAZ_SURECINDE" \in Statuses /\ "BLOKEDE" \in Statuses
      /\ "TESLIMAT_BEKLENIYOR" \in Statuses /\ "SERBEST_BIRAKILDI" \in Statuses
      /\ TRUE \in BOOLEAN /\ Price[e] \in Nat /\ Price[e] \in Int /\ Price[e] >= 0
  BY AmountsAssumption DEF Statuses
<1>2. ASSUME NEW rest \in Seq(Writes), Whole(rest)
      PROVE  /\ <<Save(row)>> \o rest \in Seq(Writes) /\ <<Save(row)>> \o rest # << >>
             /\ Whole(<<Save(row)>> \o rest)
  <2>1. <<Save(row)>> \in Seq(Writes) /\ Len(<<Save(row)>>) = 1 /\ Whole(<<Save(row)>>)
    BY WholeSave
  <2>2. <<Save(row)>> \o rest \in Seq(Writes) /\ Whole(<<Save(row)>> \o rest)
    BY <1>2, <2>1, WholeTogether
  <2>3. Len(<<Save(row)>> \o rest) = 1 + Len(rest)
    BY <1>2, <2>1
  <2> QED
    BY <1>2, <2>2, <2>3
<1>3. ASSUME NEW r \in Row
      PROVE  <<Save(r)>> \in Seq(Writes) /\ Whole(<<Save(r)>>)
  BY WholeSave
<1>4. SingleRelease(e, row) \in Seq(Writes) /\ Whole(SingleRelease(e, row))
  <2> DEFINE a == <<Save([row EXCEPT !.status = "TESLIMAT_BEKLENIYOR"])>>
             b == <<Save([row EXCEPT !.status = "SERBEST_BIRAKILDI", !.released = @ + Price[e]])>>
  <2>1. a \in Seq(Writes) /\ Whole(a)
    BY <1>1, <1>3, SavedRow
  <2>2. b \in Seq(Writes) /\ Whole(b)
    BY <1>1, <1>3, SavedRow
  <2>3. Pay(Price[e]) \in Seq(Writes) /\ Whole(Pay(Price[e]))
    BY <1>1, WholePay
  <2> HIDE DEF a, b
  <2>4. a \o Pay(Price[e]) \in Seq(Writes) /\ Whole(a \o Pay(Price[e]))
    BY <2>1, <2>3, WholeTogether
  <2>5. (a \o Pay(Price[e])) \o b \in Seq(Writes) /\ Whole((a \o Pay(Price[e])) \o b)
    BY <2>2, <2>4, WholeTogether
  <2> QED
    BY <2>5 DEF SingleRelease, a, b
<1>5. ASSUME IsMilestone(e)
      PROVE  MilestoneRelease(e, row) \in Seq(Writes) /\ Whole(MilestoneRelease(e, row))
  <2> DEFINE n == Share(e, row.completed + 1)
             next == [row EXCEPT !.completed = @ + 1, !.sent = @ + n]
             a == <<Save([next EXCEPT !.status = "BLOKEDE"])>>
             b == <<Save([next EXCEPT !.status = "SERBEST_BIRAKILDI", !.released = @ + Price[e]])>>
             rest == PayRest(Price[e] - next.sent)
  <2>1. n \in Nat
    BY <1>5, ShareIsNat DEF Row
  <2> HIDE DEF n
  <2>2. next \in Row
    BY <2>1, <1>1, SavedRow
  <2> HIDE DEF next
  <2>3. a \in Seq(Writes) /\ Whole(a) /\ b \in Seq(Writes) /\ Whole(b)
    <3>1. [next EXCEPT !.status = "BLOKEDE"] \in Row
      BY <1>1, <2>2, SavedRow
    <3>2. [next EXCEPT !.status = "SERBEST_BIRAKILDI", !.released = @ + Price[e]] \in Row
      BY <1>1, <2>2, SavedRow
    <3> QED
      BY <1>3, <3>1, <3>2
  <2>4. rest \in Seq(Writes) /\ Whole(rest)
    <3>1. Price[e] - next.sent \in Int
      BY <1>1, <2>2 DEF Row
    <3> QED
      BY <3>1, WholePay
  <2>5. Pay(n) \in Seq(Writes) /\ Whole(Pay(n))
    BY <2>1, WholePay
  <2>6. MilestoneRelease(e, row) =
          Pay(n) \o (IF next.completed < Len(Shares[e]) THEN a ELSE rest \o b)
    BY DEF MilestoneRelease, n, next
  <2> HIDE DEF a, b, rest
  <2>7. rest \o b \in Seq(Writes) /\ Whole(rest \o b)
    BY <2>3, <2>4, WholeTogether
  <2>8. CASE next.completed < Len(Shares[e])
    BY <2>3, <2>5, <2>6, <2>8, WholeTogether
  <2>9. CASE ~(next.completed < Len(Shares[e]))
    BY <2>5, <2>6, <2>7, <2>9, WholeTogether
  <2> QED
    BY <2>8, <2>9
<1>6. CASE row.tier = "high"
  <2>1. [row EXCEPT !.status = "ITIRAZ_SURECINDE"] \in Row
    BY <1>1, SavedRow
  <2> QED
    BY <1>2, <1>3, <1>6, <2>1 DEF Assessed
<1>7. CASE row.tier = "medium"
  <2>1. [row EXCEPT !.status = "BLOKEDE", !.review = TRUE] \in Row
    BY <1>1, SavedRow
  <2>2. Assessed(e, row) = <<Save(row)>> \o <<Save([row EXCEPT !.status = "BLOKEDE", !.review = TRUE])>>
    BY <1>7 DEF Assessed
  <2> QED
    BY <1>2, <1>3, <2>1, <2>2
<1>8. CASE row.tier \notin {"high", "medium"}
  <2>1. Assessed(e, row) = <<Save(row)>> \o (IF IsMilestone(e) THEN MilestoneRelease(e, row)
                                                              ELSE SingleRelease(e, row))
    BY <1>8 DEF Assessed
  <2> QED
    BY <1>2, <1>4, <1>5, <2>1
<1> QED
  BY <1>6, <1>7, <1>8

LEMMA WholeReviewed ==
  ASSUME NEW e \in Escrows, NEW row \in Row,
         NEW decision \in {"approve", "reject", "flag_for_dispute"}
  PROVE  Whole(Reviewed(e, row, decision)) /\ Reviewed(e, row, decision) \in Seq(Writes)
<1> DEFINE rest == IF IsMilestone(e) THEN Price[e] - row.sent ELSE Price[e]
<1>1. /\ "ITIRAZ_SURECINDE" \in Statuses /\ "IPTAL_EDILDI" \in Statuses
      /\ "SERBEST_BIRAKILDI" \in Statuses /\ FALSE \in BOOLEAN
      /\ Price[e] \in Nat /\ rest \in Int
  BY AmountsAssumption DEF Statuses, Row
<1>2. CASE decision = "approve"
  <2> DEFINE last == [row EXCEPT !.status = "SERBEST_BIRAKILDI", !.released = @ + rest,
                                 !.review = FALSE]
  <2>1. last \in Row
    BY <1>1, SavedRow
  <2>2. Reviewed(e, row, decision) = PayRest(rest) \o <<Save(last)>>
    BY <1>2 DEF Reviewed
  <2> HIDE DEF last, rest
  <2>3. <<Save(last)>> \in Seq(Writes) /\ Whole(<<Save(last)>>)
    BY <2>1, WholeSave
  <2>4. PayRest(rest) \in Seq(Writes) /\ Whole(PayRest(rest))
    BY <1>1, WholePay
  <2> QED
    BY <2>2, <2>3, <2>4, WholeTogether
<1>3. CASE decision = "reject"
  <2> DEFINE last == [row EXCEPT !.status = "IPTAL_EDILDI", !.review = FALSE]
  <2>1. last \in Row
    BY <1>1, SavedRow
  <2>2. Reviewed(e, row, decision) = <<CreditShipper(Price[e]), Save(last)>>
    BY <1>3 DEF Reviewed
  <2> HIDE DEF last
  <2> QED
    BY <1>1, <2>1, <2>2, WriteKinds, WholePair
<1>4. CASE decision = "flag_for_dispute"
  <2> DEFINE last == [row EXCEPT !.status = "ITIRAZ_SURECINDE", !.review = FALSE]
  <2>1. last \in Row
    BY <1>1, SavedRow
  <2>2. Reviewed(e, row, decision) = <<Save(last)>>
    BY <1>4 DEF Reviewed
  <2> HIDE DEF last
  <2> QED
    BY <2>1, <2>2, WholeSave
<1> QED
  BY <1>2, <1>3, <1>4

(* A resolution moves money without releasing any. *)
LEMMA WholeResolution ==
  ASSUME NEW e, NEW row, NEW refund,
         NEW kind \in {"full_refund", "partial_refund", "release"}
  PROVE  Whole(Resolution(e, row, kind, refund))
<1> DEFINE S == {Dispute("resolved"), CreditShipper(Price[e]), CreditShipper(refund),
                 CreditCarrier(Price[e] - refund), CreditCarrier(Price[e])}
                \cup {Save(r) : r \in {[row EXCEPT !.status = "IPTAL_EDILDI"],
                        [row EXCEPT !.status = "SERBEST_BIRAKILDI", !.released = Price[e] - refund],
                        [row EXCEPT !.status = "SERBEST_BIRAKILDI", !.released = Price[e]]}}
<1>1. Resolution(e, row, kind, refund) \in Seq(S)
  <2>1. CASE kind = "full_refund"
    BY <2>1 DEF Resolution
  <2>2. CASE kind = "partial_refund"
    BY <2>2 DEF Resolution
  <2>3. CASE kind = "release"
    BY <2>3 DEF Resolution
  <2> QED
    BY <2>1, <2>2, <2>3
<1>2. \A w \in S : w.do \notin {"release", "confirm"}
  BY DEF Dispute, CreditShipper, CreditCarrier, Save
<1> HIDE DEF S
<1>3. \A i \in 1 .. Len(Resolution(e, row, kind, refund)) : Resolution(e, row, kind, refund)[i] \in S
  BY <1>1
<1> QED
  BY <1>1, <1>2, <1>3, WholeOthers

(* The list of one handler changes. *)
LEMMA OneDue ==
  ASSUME NEW before, NEW after, NEW h \in Handlers,
         \A g \in Handlers \ {h} : after[g] = before[g],
         Owed(before[h]) \in Nat, Owed(after[h]) \in Nat,
         IsFiniteSet(Units(Dues(before), Handlers))
  PROVE  /\ IsFiniteSet(Units(Dues(after), Handlers))
         /\ Total(Dues(after), Handlers)
              = Total(Dues(before), Handlers) - Owed(before[h]) + Owed(after[h])
         /\ Total(Dues(before), Handlers) \in Nat
<1> DEFINE f == Dues(before)
           g == Dues(after)
<1>1. /\ f[h] = Owed(before[h]) /\ g[h] = Owed(after[h])
      /\ \A k \in Handlers \ {h} : g[k] = f[k]
  BY DEF Dues
<1> HIDE DEF f, g
<1>2. IsFiniteSet(Units(g, Handlers)) /\ Total(g, Handlers) = Total(f, Handlers) - f[h] + g[h]
  BY <1>1, TotalChanges DEF f
<1>3. Total(f, Handlers) \in Nat
  BY FS_CardinalityType DEF Total, f
<1> QED
  BY <1>1, <1>2, <1>3 DEF f, g

(* The first write of a paired list is made. *)
LEMMA PairedTail ==
  ASSUME NEW S, NEW todo \in Seq(S), todo # << >>, Paired(todo)
  PROVE  /\ Paired(Tail(todo))
         /\ Head(todo).do \in {"release", "confirm"} => Head(todo).n \in Nat
         /\ Head(todo).do = "release" =>
              Tail(todo) # << >> /\ Head(Tail(todo)) = Confirm(Head(todo).n)
         /\ Head(todo).do # "release" /\ Tail(todo) # << >> => Head(Tail(todo)).do # "confirm"
<1> DEFINE rest == Tail(todo)
           n == Len(todo)
<1>0. /\ rest \in Seq(S) /\ n \in Nat /\ n >= 1 /\ Len(rest) = n - 1
      /\ \A i \in 1 .. n - 1 : rest[i] = todo[i + 1]
      /\ Head(todo) = todo[1]
  OBVIOUS
<1>1. /\ rest \in Seq(S) /\ n \in Nat /\ n >= 1 /\ Len(rest) = n - 1
      /\ \A i \in 1 .. n - 1 : rest[i] = todo[i + 1]
      /\ Head(todo) = todo[1]
      /\ n > 1 => rest # << >> /\ Head(rest) = todo[2]
      /\ rest # << >> => n > 1
  <2> HIDE DEF rest
  <2>1. n > 1 => rest # << >> /\ Head(rest) = rest[1] /\ 1 \in 1 .. n - 1 /\ 1 + 1 = 2
    BY <1>0
  <2> QED
    BY <1>0, <2>1
<1> HIDE DEF rest
<1>2. ASSUME NEW i \in 1 .. n - 1
      PROVE  /\ rest[i].do \in {"release", "confirm"} => rest[i].n \in Nat
             /\ rest[i].do = "release" => i < n - 1 /\ rest[i + 1] = Confirm(rest[i].n)
             /\ rest[i].do = "confirm" /\ i > 1 => rest[i - 1].do = "release"
  <2>1. i + 1 \in 1 .. n /\ i + 1 > 1 /\ (i + 1) - 1 = i /\ rest[i] = todo[i + 1]
    BY <1>1
  <2>2. i > 1 => i - 1 \in 1 .. n - 1 /\ (i - 1) + 1 = i /\ rest[i - 1] = todo[i]
    BY <1>1
  <2>3. i + 1 < n => i < n - 1 /\ i + 1 \in 1 .. n - 1 /\ rest[i + 1] = todo[(i + 1) + 1]
    BY <1>1
  <2> QED
    BY <2>1, <2>2, <2>3 DEF Paired
<1>3. Paired(rest)
  BY <1>1, <1>2 DEF Paired
<1>4. 1 \in 1 .. n /\ (n > 1 => 2 \in 1 .. n)
  BY <1>1
<1>5. /\ todo[1].do \in {"release", "confirm"} => todo[1].n \in Nat
      /\ todo[1].do = "release" => n > 1 /\ todo[2] = Confirm(todo[1].n)
      /\ todo[1].do # "release" /\ n > 1 => todo[2].do # "confirm"
  BY <1>1, <1>4 DEF Paired
<1> QED
  BY <1>1, <1>3, <1>5 DEF rest

LEMMA AfterWrite ==
  ASSUME NEW S, NEW j, j # NoJob, j = [op |-> j.op, e |-> j.e, todo |-> j.todo],
         j.todo \in Seq(S), j.todo # << >>, Paired(j.todo),
         NEW next, next = IF Tail(j.todo) = << >> THEN NoJob ELSE [j EXCEPT !.todo = Tail(j.todo)]
  PROVE  /\ next # NoJob => Paired(next.todo)
         /\ Owed(j) \in Nat /\ Owed(next) \in Nat
         /\ Head(j.todo).do = "confirm" => Owed(j) = Head(j.todo).n
         /\ Head(j.todo).do # "confirm" => Owed(j) = 0
         /\ Head(j.todo).do = "release" =>
              Head(j.todo).n \in Nat /\ Tail(j.todo) # << >>
              /\ Owed(next) = IF next = NoJob THEN 0 ELSE Head(j.todo).n
         /\ Head(j.todo).do # "release" => Owed(next) = 0
<1>1. /\ Paired(Tail(j.todo))
      /\ Head(j.todo).do \in {"release", "confirm"} => Head(j.todo).n \in Nat
      /\ Head(j.todo).do = "release" =>
           Tail(j.todo) # << >> /\ Head(Tail(j.todo)) = Confirm(Head(j.todo).n)
      /\ Head(j.todo).do # "release" /\ Tail(j.todo) # << >> => Head(Tail(j.todo)).do # "confirm"
  BY PairedTail
<1>2. Tail(j.todo) # << >> => next.todo = Tail(j.todo)
  OBVIOUS
<1>3. \A n : Confirm(n).do = "confirm" /\ Confirm(n).n = n
  BY DEF Confirm
<1>4. Tail(j.todo) = << >> => next = NoJob
  OBVIOUS
<1>5. /\ Owed(j) \in Nat
      /\ Head(j.todo).do = "confirm" => Owed(j) = Head(j.todo).n
      /\ Head(j.todo).do # "confirm" => Owed(j) = 0
  BY <1>1 DEF Owed
<1>6. CASE Head(j.todo).do = "release"
  BY <1>1, <1>2, <1>3, <1>5, <1>6 DEF Owed
<1>7. CASE Head(j.todo).do # "release"
  BY <1>1, <1>2, <1>4, <1>5, <1>7 DEF Owed
<1> QED
  BY <1>6, <1>7

(* An operation is taken up: its list does not begin with a confirmation.  *)
LEMMA CallWhole ==
  ASSUME TypeOK, NEW h \in Handlers, NEW e \in Escrows, Begin(h, e)
  PROVE  \E op, todo : Take(h, op, e, todo) /\ Whole(todo) /\ Len(todo) \in Nat /\ Len(todo) > 0
<1>0. ASSUME NEW op, NEW todo \in Seq(Writes), Take(h, op, e, todo), Whole(todo), todo # << >>
      PROVE  \E o, t : Take(h, o, e, t) /\ Whole(t) /\ Len(t) \in Nat /\ Len(t) > 0
  BY <1>0
<1>1. /\ escrow[e] # NoRow => escrow[e] \in Row
      /\ Price[e] \in Nat
  BY AmountsAssumption DEF TypeOK
<1>2. /\ "BLOKEDE" \in Statuses /\ "ITIRAZ_SURECINDE" \in Statuses /\ "IPTAL_EDILDI" \in Statuses
      /\ \A tier \in {"low", "medium", "high"} : tier \in Tiers
  BY DEF Statuses, Tiers
<1>4. CASE CreateEscrow(h, e)
  <2>1. Take(h, "create", e, <<LockFunds(Price[e]), Insert>>)
    BY <1>4 DEF CreateEscrow
  <2> QED
    BY <1>0, <1>1, <2>1, WriteKinds, WholePair
<1>5. CASE ConfirmPickup(h, e)
  <2> DEFINE row == [escrow[e] EXCEPT !.status = "BLOKEDE"]
  <2>1. Take(h, "pickup", e, <<Save(row)>>) /\ escrow[e] # NoRow
    BY <1>5 DEF ConfirmPickup
  <2>2. row \in Row
    BY <1>1, <1>2, <2>1, SavedRow
  <2> HIDE DEF row
  <2> QED
    BY <1>0, <2>1, <2>2, WholeSave
<1>6. CASE ReleasePayment(h, e)
  <2>1. PICK tier \in {"low", "medium", "high"} :
          Take(h, "release", e, Assessed(e, [escrow[e] EXCEPT !.tier = tier]))
    BY <1>6 DEF ReleasePayment
  <2>2. [escrow[e] EXCEPT !.tier = tier] \in Row
    <3>1. escrow[e] \in Row /\ tier \in Tiers
      BY <1>1, <1>2, <1>6 DEF ReleasePayment
    <3> QED
      BY <3>1 DEF Row
  <2> QED
    BY <1>0, <2>1, <2>2, WholeAssessed
<1>7. CASE OpenDispute(h, e)
  <2> DEFINE row == [escrow[e] EXCEPT !.status = "ITIRAZ_SURECINDE"]
  <2>1. Take(h, "openDispute", e, <<Save(row), Dispute("open")>>) /\ escrow[e] # NoRow
    BY <1>7 DEF OpenDispute
  <2>2. row \in Row
    BY <1>1, <1>2, <2>1, SavedRow
  <2> HIDE DEF row
  <2> QED
    BY <1>0, <2>1, <2>2, WriteKinds, WholePair
<1>8. CASE ResolveDispute(h, e)
  <2>1. PICK kind \in {"full_refund", "partial_refund", "release"}, refund \in 1 .. Price[e] :
          Take(h, "resolve", e, Resolution(e, escrow[e], kind, refund))
    BY <1>8 DEF ResolveDispute
  <2>2. /\ Len(Resolution(e, escrow[e], kind, refund)) \in Nat
        /\ Len(Resolution(e, escrow[e], kind, refund)) > 0
    <3>1. CASE kind = "full_refund"
      BY <3>1 DEF Resolution
    <3>2. CASE kind = "partial_refund"
      BY <3>2 DEF Resolution
    <3>3. CASE kind = "release"
      BY <3>3 DEF Resolution
    <3> QED
      BY <3>1, <3>2, <3>3
  <2> QED
    BY <2>1, <2>2, WholeResolution
<1>9. CASE AutoRefundExpiredMilestones(h, e)
  <2> DEFINE row == [escrow[e] EXCEPT !.status = "IPTAL_EDILDI"]
  <2>1. Take(h, "autoRefund", e, <<CreditShipper(Price[e]), Save(row)>>) /\ escrow[e] # NoRow
    BY <1>9 DEF AutoRefundExpiredMilestones
  <2>2. row \in Row
    BY <1>1, <1>2, <2>1, SavedRow
  <2> HIDE DEF row
  <2> QED
    BY <1>0, <1>1, <2>1, <2>2, WriteKinds, WholePair
<1>10. CASE TransitScan(h, e)
  <2>1. Take(h, "transit", e, <<Save(escrow[e])>>) /\ escrow[e] # NoRow
    BY <1>10 DEF TransitScan
  <2> QED
    BY <1>0, <1>1, <2>1, WholeSave
<1>11. CASE ReviewFraudCase(h, e)
  <2>1. PICK decision \in {"approve", "reject", "flag_for_dispute"} :
          Take(h, "review", e, Reviewed(e, escrow[e], decision))
    BY <1>11 DEF ReviewFraudCase
  <2>2. /\ Whole(Reviewed(e, escrow[e], decision))
        /\ Reviewed(e, escrow[e], decision) \in Seq(Writes)
    BY <1>1, <1>11, WholeReviewed DEF ReviewFraudCase
  <2>3. Reviewed(e, escrow[e], decision) # << >>
    BY <2>2 DEF Reviewed
  <2> QED
    BY <1>0, <2>1, <2>2, <2>3
<1> QED
  BY <1>4, <1>5, <1>6, <1>7, <1>8, <1>9, <1>10, <1>11 DEF Begin

(* What is pending follows the lists.                                      *)
LEMMA TakePends ==
  ASSUME TypeOK, PendingRight, NEW h \in Handlers, NEW e, NEW op, NEW todo,
         Take(h, op, e, todo), Whole(todo), Len(todo) \in Nat, Len(todo) > 0
  PROVE  PendingRight'
<1> DEFINE new == [op |-> op, e |-> e, todo |-> todo]
<1>1. /\ job[h] = NoJob /\ carrier' = carrier /\ broken' = broken
      /\ job'[h] = new /\ \A g \in Handlers \ {h} : job'[g] = job[g]
  BY DEF Take, TypeOK
<1>2. new.todo = todo /\ Head(todo) = todo[1]
  OBVIOUS
<1>3. Owed(job[h]) = 0 /\ Owed(new) = 0
  BY <1>1, <1>2 DEF Owed, Whole
<1>4. Paired(new.todo)
  BY <1>2 DEF Whole
<1> HIDE DEF new
<1>5. JobsPaired'
  BY <1>1, <1>4 DEF PendingRight, JobsPaired
<1>6. /\ IsFiniteSet(Units(Dues(job'), Handlers))
      /\ Total(Dues(job'), Handlers) = Total(Dues(job), Handlers)
      /\ Total(Dues(job), Handlers) \in Nat
  <2>1. Owed(job[h]) = 0 /\ Owed(job'[h]) = 0
    BY <1>1, <1>3
  <2>2. Owed(job[h]) \in Nat /\ Owed(job'[h]) \in Nat
    BY <2>1
  <2>3. \A g \in Handlers \ {h} : job'[g] = job[g]
    BY <1>1
  <2>4. /\ IsFiniteSet(Units(Dues(job'), Handlers))
        /\ Total(Dues(job'), Handlers)
             = Total(Dues(job), Handlers) - Owed(job[h]) + Owed(job'[h])
        /\ Total(Dues(job), Handlers) \in Nat
    BY <2>2, <2>3, OneDue DEF PendingRight
  <2> QED
    BY <2>1, <2>4
<1> QED
  BY <1>1, <1>5, <1>6 DEF PendingRight

LEMMA AdvancePends ==
  ASSUME TypeOK, PendingRight, NEW h \in Handlers, job[h] # NoJob, Advance(h), carrier' \in Wallet,
         carrier'.pending = carrier.pending
           + (IF Head(job[h].todo).do = "release" THEN Head(job[h].todo).n ELSE 0)
           - (IF Head(job[h].todo).do = "confirm" THEN Head(job[h].todo).n ELSE 0)
  PROVE  PendingRight'
<1> DEFINE todo == job[h].todo
           w == Head(todo)
           next == IF Tail(todo) = << >> THEN NoJob ELSE [job[h] EXCEPT !.todo = Tail(todo)]
<1>1. /\ job[h] \in Job /\ todo \in Seq(Writes) /\ todo # << >>
      /\ job[h] = [op |-> job[h].op, e |-> job[h].e, todo |-> job[h].todo]
  BY DEF TypeOK, Job
<1>2. /\ job'[h] = next /\ \A g \in Handlers \ {h} : job'[g] = job[g]
      /\ broken' = broken
  BY DEF Advance, TypeOK
<1>3. Tail(todo) # << >> => next # NoJob
  <2>0. job[h].op \in Operations /\ job[h].e \in Escrows /\ Tail(todo) \in Seq(Writes)
    BY <1>1 DEF Job
  <2>1. Tail(todo) # << >> => next \in Job
    BY <1>1, <2>0 DEF Job
  <2> QED
    BY <2>1, IdleAssumption
<1>4. Paired(todo)
  BY DEF PendingRight, JobsPaired
<1>5. /\ next # NoJob => Paired(next.todo)
      /\ Owed(job[h]) \in Nat /\ Owed(next) \in Nat
      /\ w.do = "confirm" => Owed(job[h]) = w.n
      /\ w.do # "confirm" => Owed(job[h]) = 0
      /\ w.do = "release" => w.n \in Nat /\ Tail(todo) # << >>
                             /\ Owed(next) = IF next = NoJob THEN 0 ELSE w.n
      /\ w.do # "release" => Owed(next) = 0
  BY <1>1, <1>4, AfterWrite
<1> HIDE DEF next
<1>6. JobsPaired'
  BY <1>2, <1>5 DEF PendingRight, JobsPaired
<1>7. /\ IsFiniteSet(Units(Dues(job'), Handlers))
      /\ Total(Dues(job'), Handlers)
           = Total(Dues(job), Handlers) - Owed(job[h]) + Owed(next)
      /\ Total(Dues(job), Handlers) \in Nat
  <2>1. Owed(job[h]) \in Nat /\ Owed(job'[h]) \in Nat /\ Owed(job'[h]) = Owed(next)
    BY <1>2, <1>5
  <2>2. /\ IsFiniteSet(Units(Dues(job'), Handlers))
        /\ Total(Dues(job'), Handlers)
             = Total(Dues(job), Handlers) - Owed(job[h]) + Owed(job'[h])
        /\ Total(Dues(job), Handlers) \in Nat
    BY <1>2, <2>1, OneDue DEF PendingRight
  <2> QED
    BY <2>1, <2>2
<1>8. carrier'.pending = carrier.pending - Owed(job[h]) + Owed(next)
  <2>1. carrier.pending \in Int
    BY DEF TypeOK, Wallet
  <2>2. CASE w.do = "release"
    <3>1. Owed(job[h]) = 0 /\ Owed(next) = w.n /\ w.n \in Nat
      BY <1>3, <1>5, <2>2
    <3> QED
      BY <2>1, <2>2, <3>1
  <2>3. CASE w.do = "confirm"
    BY <1>5, <2>1, <2>3
  <2>4. CASE w.do \notin {"release", "confirm"}
    BY <1>5, <2>1, <2>4
  <2> QED
    BY <2>2, <2>3, <2>4
<1>9. ~broken' => carrier'.pending = Total(Dues(job'), Handlers)
  BY <1>2, <1>7, <1>8 DEF PendingRight
<1> QED
  BY <1>6, <1>7, <1>9 DEF PendingRight

(* A refused lock or insert ends a list that had released nothing; what an *)
(* operation that breaks had released stays pending, and broken is set.    *)
LEMMA DropPends ==
  ASSUME TypeOK, PendingRight, NEW h \in Handlers, job[h] # NoJob, Drop(h),
         broken' \/ Doing(h, "lock") \/ Doing(h, "insert"), broken => broken'
  PROVE  PendingRight'
<1>1. /\ job'[h] = NoJob /\ \A g \in Handlers \ {h} : job'[g] = job[g]
      /\ carrier' = carrier
  BY DEF Drop, TypeOK
<1>2. Owed(NoJob) = 0 /\ Owed(job[h]) \in Nat
  <2>1. job[h] \in Job /\ job[h].todo \in Seq(Writes) /\ job[h].todo # << >>
    BY DEF TypeOK, Job
  <2>2. Paired(job[h].todo)
    BY DEF PendingRight, JobsPaired
  <2>3. Head(job[h].todo).do = "confirm" => Head(job[h].todo).n \in Nat
    BY <2>1, <2>2, PairedTail
  <2> QED
    BY <2>3 DEF Owed
<1>3. JobsPaired'
  BY <1>1 DEF PendingRight, JobsPaired
<1>4. /\ IsFiniteSet(Units(Dues(job'), Handlers))
      /\ Total(Dues(job'), Handlers)
           = Total(Dues(job), Handlers) - Owed(job[h]) + Owed(NoJob)
      /\ Total(Dues(job), Handlers) \in Nat
  BY <1>1, <1>2, OneDue DEF PendingRight
<1>5. ~broken' => Owed(job[h]) = 0
  BY DEF Doing, Owed
<1> QED
  BY <1>1, <1>2, <1>3, <1>4, <1>5 DEF PendingRight

(* What a handler releases or confirms next is no less than nothing. *)
LEMMA ReleasedIsNat ==
  ASSUME TypeOK, PendingRight, NEW h \in Handlers, job[h] # NoJob,
         Head(job[h].todo).do \in {"release", "confirm"}
  PROVE  Head(job[h].todo).n \in Nat
<1>1. job[h] \in Job /\ job[h].todo \in Seq(Writes) /\ job[h].todo # << >>
  BY DEF TypeOK, Job
<1>2. Paired(job[h].todo)
  BY DEF PendingRight, JobsPaired
<1> QED
  BY <1>1, <1>2, PairedTail

LEMMA NextPends == TypeOK /\ TypeOK' /\ PendingRight /\ [Next]_vars => PendingRight'
<1> SUFFICES ASSUME TypeOK, TypeOK', PendingRight, [Next]_vars PROVE PendingRight'
  OBVIOUS
<1>1. ASSUME NEW h \in Handlers, NEW e \in Escrows, Begin(h, e)
      PROVE  PendingRight'
  BY <1>1, CallWhole, TakePends
<1>2. ASSUME NEW h \in Handlers, Write(h)
      PROVE  PendingRight'
  <2> DEFINE w == Head(job[h].todo)
  <2>0. carrier' \in Wallet /\ carrier \in Wallet /\ carrier.pending \in Int
    BY DEF TypeOK, Wallet
  <2>1. CASE DoLock(h) \/ DoInsert(h) \/ DoSave(h) \/ DoCreditShipper(h) \/ DoDispute(h)
    <3>1. /\ job[h] # NoJob /\ Advance(h) /\ carrier' = carrier
          /\ w.do \notin {"release", "confirm"}
      BY <2>1 DEF DoLock, DoInsert, DoSave, DoCreditShipper, DoDispute, Doing
    <3> QED
      BY <2>0, <3>1, AdvancePends
  <2>2. CASE LockRefused(h) \/ InsertDuplicate(h)
    BY <2>2, DropPends DEF LockRefused, InsertDuplicate, Doing
  <2>3. CASE DoRelease(h)
    <3>1. /\ job[h] # NoJob /\ Advance(h) /\ w.do = "release"
          /\ carrier' = [carrier EXCEPT !.escrow = @ - w.n, !.pending = @ + w.n]
      BY <2>3 DEF DoRelease, Doing, Amount
    <3>2. carrier'.pending = carrier.pending + w.n
      BY <2>0, <3>1 DEF Wallet
    <3>3. w.n \in Int
      BY <3>1, ReleasedIsNat
    <3> QED
      BY <2>0, <3>1, <3>2, <3>3, AdvancePends
  <2>4. CASE DoConfirm(h)
    <3>1. /\ job[h] # NoJob /\ Advance(h) /\ w.do = "confirm"
          /\ carrier' = [carrier EXCEPT !.pending = @ - w.n, !.available = @ + w.n]
      BY <2>4 DEF DoConfirm, Doing, Amount
    <3>2. carrier'.pending = carrier.pending - w.n
      BY <2>0, <3>1 DEF Wallet
    <3>3. w.n \in Int
      BY <3>1, ReleasedIsNat
    <3> QED
      BY <2>0, <3>1, <3>2, <3>3, AdvancePends
  <2>5. CASE DoCreditCarrier(h)
    <3>1. /\ job[h] # NoJob /\ Advance(h) /\ w.do = "creditCarrier"
          /\ carrier' = [carrier EXCEPT !.available = @ + w.n]
      BY <2>5 DEF DoCreditCarrier, Doing, Amount
    <3>2. carrier'.pending = carrier.pending
      BY <2>0, <3>1 DEF Wallet
    <3> QED
      BY <2>0, <3>1, <3>2, AdvancePends
  <2> QED
    BY <1>2, <2>1, <2>2, <2>3, <2>4, <2>5 DEF Write
<1>3. ASSUME NEW h \in Handlers, Break(h)
      PROVE  PendingRight'
  BY <1>3, DropPends DEF Break
<1>4. CASE UNCHANGED vars
  <2>1. job' = job /\ carrier' = carrier /\ broken' = broken
    BY <1>4 DEF vars
  <2> QED
    BY <2>1 DEF PendingRight, JobsPaired
<1> QED
  BY <1>1, <1>2, <1>3, <1>4 DEF Next

LEMMA InitPends == Init => PendingRight
<1> SUFFICES ASSUME Init PROVE PendingRight
  OBVIOUS
<1>1. \A h \in Handlers : job[h] = NoJob
  BY DEF Init
<1>2. \A h \in Handlers : Dues(job)[h] = 0
  BY <1>1 DEF Dues, Owed
<1>3. IsFiniteSet(Units(Dues(job), Handlers)) /\ Total(Dues(job), Handlers) = 0
  BY <1>2, TotalOfNothing
<1>4. carrier.pending = 0
  BY DEF Init
<1> QED
  BY <1>1, <1>3, <1>4 DEF PendingRight, JobsPaired

(* What the carrier's wallet shows as pending is exactly what the handlers *)
(* between a release and its confirmation are about to confirm, until some *)
(* operation breaks.                                                       *)
THEOREM PendingIsOwed == Spec => []PendingRight
BY InitPends, NextPends, TypeCorrect, PTL DEF Spec

(* Once no handler is at work nothing is left in pendingRelease, however   *)
(* many there were, unless one of them broke.                              *)
THEOREM PendingIsDrained == Spec => []PendingDrains
<1>1. PendingRight => PendingDrains
  <2> SUFFICES ASSUME PendingRight, \A h \in Handlers : job[h] = NoJob, ~broken
               PROVE  carrier.pending = 0
    BY DEF PendingDrains
  <2>1. \A h \in Handlers : Dues(job)[h] = 0
    BY DEF Dues, Owed
  <2> QED
    BY <2>1, TotalOfNothing DEF PendingRight
<1> QED
  BY <1>1, PendingIsOwed, PTL
=============================================================================
