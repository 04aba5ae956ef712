------------------------ MODULE InstantBookingProofs ------------------------
(***************************************************************************)
(* Theorems about InstantBooking, for every set of carriers, requests and  *)
(* runs of the job.                                                        *)
(***************************************************************************)
EXTENDS InstantBooking, TLAPS

-----------------------------------------------------------------------------
(* The strengthening.  A save that a handler is about to make stores a row *)
(* that was right when it was read, and it must still be right when it is  *)
(* stored: what it says of its lock is true for ever, because locks are    *)
(* never granted twice under one number nor unconfirmed.  Until a save has *)
(* stored columns of two rows, a row stored is the row that was to be.     *)

RowIsRight(row, granted, known) ==
  /\ row.status \in {"LOCKED", "BOOKED"} => row.lock # 0 /\ row.carrier = granted[row.lock]
  /\ row.status = "BOOKED" => <<row.lock, row.carrier>> \in known
  /\ row.status \in {"AVAILABLE", "EXPIRED"} => row.carrier = Nobody

(* Only locks that were granted are confirmed, each by who was granted it. *)
KnownLocks(granted, known, mix) ==
  /\ known \subseteq (0 .. Len(granted)) \X Carriers
  /\ ~mix => \A x \in known : x[1] \in DOMAIN granted /\ granted[x[1]] = x[2]

Storing(h) == Doing(h, "save") \/ Doing(h, "update")

SaveIsRight(w, granted, known, mix) ==
  /\ w.row.lock \in 0 .. Len(granted)
  /\ ~mix => RowIsRight(w.row, granted, known)
  /\ w.was = "BOOKED" => w.row.status = "AVAILABLE"

SavesAreRight == \A h \in Handlers : Storing(h) => SaveIsRight(Head(job[h]), locks, confirmed, mixed)

(* The row exists from the first insert on. *)
UpdatesFindARow == \A h \in Handlers : Doing(h, "lock") \/ Storing(h) => HasRow

Inductive ==
  TypeOK /\ OneLockPerOpening /\ BookedByHolder /\ SavesAreRight /\ UpdatesFindARow

-----------------------------------------------------------------------------
(* Type correctness. *)

LEMMA WriteTypes ==
  /\ \A row \in Row, was \in BookingStatuses : [do |-> "save", row |-> row, was |-> was] \in Writes
  /\ \A row, saw \in Row, was \in BookingStatuses :
       [do |-> "update", row |-> row, was |-> was, saw |-> saw] \in Writes
  /\ Insert \in Writes
  /\ Cancel \in Writes
  /\ \A c \in Carriers : Lock(c) \in Writes
BY DEF Writes, Insert, Cancel, Lock

LEMMA HeadIsWrite ==
  ASSUME TypeOK, NEW h \in Handlers, job[h] # << >>
  PROVE  Head(job[h]) \in Writes
<1>1. job[h] \in Seq(Writes)
  BY DEF TypeOK
<1> QED
  BY <1>1

(* A handler that takes up a write keeps the types. *)
LEMMA TakeType ==
  ASSUME TypeOK, NEW h \in Handlers, NEW w \in Writes, Take(h, w),
         ops' \in Nat, KnownLocks(locks, confirmed', mixed)
  PROVE  TypeOK'
<1>1. Len(<<w>>) = 1 /\ Head(<<w>>) = w
  OBVIOUS
<1>2. <<w>> \in Seq(Writes)
  OBVIOUS
<1> QED
  BY <1>1, <1>2 DEF TypeOK, Take, HasRow, KnownLocks

-----------------------------------------------------------------------------
(* Requests and the job only take up writes. *)

(* What is right of a row stays right while locks and confirmations grow.  *)
LEMMA StaysRight ==
  ASSUME NEW row, RowIsRight(row, locks, confirmed), UNCHANGED locks, confirmed \subseteq confirmed'
  PROVE  RowIsRight(row, locks', confirmed')
BY DEF RowIsRight

(* What handler h takes up, and what is right about it. *)
TakesUp(h, w) ==
  /\ Take(h, w)
  /\ ops' \in Nat
  /\ confirmed \subseteq confirmed'
  /\ KnownLocks(locks, confirmed', mixed)
  /\ w.do \in {"save", "lock"} => HasRow
  /\ w.do # "update"
  /\ w.do = "save" => SaveIsRight(w, locks', confirmed', mixed')

LEMMA TakesUpSave ==
  ASSUME TypeOK, HasRow, NEW h \in Handlers, NEW row \in Row, Take(h, Save(row)),
         ops' \in Nat, confirmed \subseteq confirmed', KnownLocks(locks, confirmed', mixed),
         row.lock \in 0 .. Len(locks), ~mixed => RowIsRight(row, locks', confirmed'),
         booking.status = "BOOKED" => row.status = "AVAILABLE"
  PROVE  \E w \in Writes : TakesUp(h, w)
<1> DEFINE w == [do |-> "save", row |-> row, was |-> booking.status]
<1>1. w = Save(row)
  BY DEF Save
<1>2. booking.status \in BookingStatuses
  BY DEF TypeOK, HasRow, Row
<1>3. w \in Writes
  BY <1>2, WriteTypes
<1>4. w.do = "save" /\ w.row = row /\ w.was = booking.status
  OBVIOUS
<1> HIDE DEF w
<1>5. TakesUp(h, w)
  BY <1>1, <1>4 DEF TakesUp, SaveIsRight, Take
<1> QED
  BY <1>3, <1>5

LEMMA TakesUpUpdate ==
  ASSUME TypeOK, NEW h \in Handlers, NEW w \in Writes, Take(h, w), w.do \notin {"save", "update"},
         w.do = "lock" => HasRow, Count, UNCHANGED confirmed
  PROVE  \E x \in Writes : TakesUp(h, x)
BY DEF TakesUp, Count, TypeOK, KnownLocks

(* Every request, and the job, takes up a write that is right.  *)
LEMMA CallTakes ==
  ASSUME Inductive, NEW h \in Handlers, Call(h) \/ ExpireStaleLocks(h)
  PROVE  \E w \in Writes : TakesUp(h, w)
<1> USE DEF Inductive
<1>0. HasRow => booking \in Row /\ booking.lock \in 0 .. Len(locks)
  BY DEF TypeOK, HasRow
<1>01. KnownLocks(locks, confirmed, mixed)
  BY DEF TypeOK, KnownLocks
<1>1. CASE EnableInstantBooking(h)
  <2>1. CASE HasRow
    <3> DEFINE row == [booking EXCEPT !.status = "AVAILABLE", !.carrier = Nobody]
    <3>1. row \in Row
      BY <1>0, <2>1 DEF Row, BookingStatuses
    <3>2. RowIsRight(row, locks', confirmed')
      BY <1>0, <2>1 DEF RowIsRight, Row
    <3>3. row.status = "AVAILABLE" /\ row.lock \in 0 .. Len(locks)
      BY <1>0, <2>1 DEF Row
    <3>4. Take(h, Save(row)) /\ Count /\ UNCHANGED confirmed
      BY <1>1, <2>1 DEF EnableInstantBooking
    <3> HIDE DEF row
    <3> QED
      BY <1>01, <2>1, <3>1, <3>2, <3>3, <3>4, TakesUpSave DEF Count, TypeOK
  <2>2. CASE ~HasRow
    BY <1>1, <2>2, WriteTypes, TakesUpUpdate DEF EnableInstantBooking, Insert
  <2> QED
    BY <2>1, <2>2
<1>2. CASE DisableInstantBooking(h)
  BY <1>2, WriteTypes, TakesUpUpdate DEF DisableInstantBooking, Cancel
<1>3. ASSUME NEW c \in Carriers, InstantBook(h, c)
      PROVE  \E w \in Writes : TakesUp(h, w)
  <2>1. Lock(c) \in Writes /\ Lock(c).do = "lock"
    BY WriteTypes DEF Lock
  <2> QED
    BY <1>3, <2>1, TakesUpUpdate DEF InstantBook
<1>4. ASSUME NEW c \in Carriers, ConfirmBooking(h, c)
      PROVE  \E w \in Writes : TakesUp(h, w)
  <2> DEFINE row == [booking EXCEPT !.status = "BOOKED"]
  <2>1. HasRow /\ booking.status = "LOCKED" /\ booking \in Row
    BY <1>0, <1>4 DEF ConfirmBooking, IsLockedBy
  <2>2. row \in Row
    BY <2>1 DEF Row, BookingStatuses
  <2>3. /\ booking.carrier = c /\ booking.lock \in 0 .. Len(locks)
        /\ ~mixed => booking.lock # 0 /\ locks[booking.lock] = c
    BY <1>4, <2>1 DEF BookedByHolder, TypeOK, ConfirmBooking, IsLockedBy
  <2>4. /\ row.lock = booking.lock /\ row.carrier = c /\ row.status = "BOOKED"
        /\ booking.status # "BOOKED"
    BY <2>1, <2>3 DEF Row
  <2>5. Take(h, Save(row)) /\ Count /\ confirmed' = confirmed \cup {<<booking.lock, c>>}
    BY <1>4 DEF ConfirmBooking
  <2>6. ~mixed => RowIsRight(row, locks', confirmed')
    BY <2>3, <2>4, <2>5 DEF RowIsRight, Take
  <2>7. KnownLocks(locks, confirmed', mixed)
    <3>1. locks \in Seq(Carriers) /\ Len(locks) \in Nat
      BY DEF TypeOK
    <3>2. ~mixed => booking.lock \in DOMAIN locks
      BY <2>3, <3>1
    <3> QED
      BY <1>01, <2>3, <2>5, <3>2 DEF KnownLocks
  <2>8. ops' \in Nat /\ confirmed \subseteq confirmed'
    BY <2>5 DEF Count, TypeOK
  <2> HIDE DEF row
  <2> QED
    BY <2>1, <2>2, <2>3, <2>4, <2>5, <2>6, <2>7, <2>8, TakesUpSave
<1>5. ASSUME NEW c \in Carriers, ReleaseLock(h, c)
      PROVE  \E w \in Writes : TakesUp(h, w)
  <2> DEFINE row == [status |-> "AVAILABLE", carrier |-> Nobody, lock |-> 0]
  <2>1. row \in Row /\ row.lock \in 0 .. Len(locks)
    BY DEF Row, BookingStatuses, TypeOK
  <2>2. RowIsRight(row, locks', confirmed')
    BY DEF RowIsRight
  <2>3. Take(h, Save(row)) /\ Count /\ UNCHANGED confirmed /\ HasRow /\ booking.status = "LOCKED"
    BY <1>5 DEF ReleaseLock, IsLockedBy
  <2> QED
    BY <1>01, <2>1, <2>2, <2>3, TakesUpSave DEF Count, TypeOK
<1>6. CASE ExpireStaleLocks(h)
  <2> DEFINE row == [booking EXCEPT !.status = "EXPIRED", !.carrier = Nobody]
  <2>1. HasRow /\ booking.status = "LOCKED" /\ booking \in Row
    BY <1>0, <1>6 DEF ExpireStaleLocks
  <2>2. row \in Row /\ row.lock \in 0 .. Len(locks)
    BY <1>0, <2>1 DEF Row, BookingStatuses
  <2>3. RowIsRight(row, locks', confirmed')
    BY <2>1 DEF RowIsRight, Row
  <2>4. Take(h, Save(row)) /\ UNCHANGED <<ops, confirmed>>
    BY <1>6 DEF ExpireStaleLocks
  <2> HIDE DEF row
  <2> QED
    BY <1>01, <2>1, <2>2, <2>3, <2>4, TakesUpSave DEF TypeOK
<1> QED
  BY <1>1, <1>2, <1>3, <1>4, <1>5, <1>6 DEF Call

(* Taking up a write that is right keeps the invariant. *)
LEMMA TakeKeeps ==
  ASSUME Inductive, NEW h \in Handlers, NEW w \in Writes, TakesUp(h, w)
  PROVE  Inductive'
<1> USE DEF Inductive
<1>1. TypeOK'
  BY TakeType DEF TakesUp
<1>2. UNCHANGED <<booking, lapsed, locks, openings, mixed>> /\ job' = [job EXCEPT ![h] = <<w>>]
  BY DEF TakesUp, Take
<1>3. OneLockPerOpening'
  BY <1>2 DEF OneLockPerOpening, HasRow
<1>4. BookedByHolder'
  BY <1>2 DEF BookedByHolder, HasRow, TakesUp
<1>5. Head(<<w>>) = w
  OBVIOUS
<1>6. SavesAreRight'
  <2> SUFFICES ASSUME NEW g \in Handlers, Storing(g)'
               PROVE  SaveIsRight(Head(job'[g]), locks', confirmed', mixed')
    BY DEF SavesAreRight
  <2>1. CASE g = h
    <3>1. job'[g] = <<w>>
      BY <1>2, <2>1 DEF TypeOK
    <3> QED
      BY <1>5, <3>1 DEF TakesUp, Doing, Storing, SaveIsRight
  <2>2. CASE g # h
    <3>1. job'[g] = job[g]
      BY <1>2, <2>2
    <3>2. Storing(g) /\ Head(job[g]) \in Writes
      BY <3>1, HeadIsWrite DEF Doing, Storing
    <3>3. SaveIsRight(Head(job[g]), locks, confirmed, mixed)
      BY <3>2 DEF SavesAreRight
    <3>4. ~mixed => RowIsRight(Head(job[g]).row, locks', confirmed')
      BY <1>2, <3>3, StaysRight DEF SaveIsRight, TakesUp
    <3> QED
      BY <1>2, <3>1, <3>3, <3>4 DEF SaveIsRight
  <2> QED
    BY <2>1, <2>2
<1>7. UpdatesFindARow'
  <2> SUFFICES ASSUME NEW g \in Handlers, Doing(g, "lock")' \/ Storing(g)'
               PROVE  HasRow
    BY <1>2 DEF UpdatesFindARow, HasRow
  <2>1. CASE g = h
    <3>1. job'[g] = <<w>>
      BY <1>2, <2>1 DEF TypeOK, TakesUp, Take
    <3> QED
      BY <1>5, <3>1 DEF TakesUp, Doing, Storing
  <2>2. CASE g # h
    BY <1>2, <2>2 DEF UpdatesFindARow, Doing, Storing
  <2> QED
    BY <2>1, <2>2
<1> QED
  BY <1>1, <1>3, <1>4, <1>6, <1>7

-----------------------------------------------------------------------------
(* The writes. *)

LEMMA RightAfter ==
  ASSUME TypeOK, NEW w, SaveIsRight(w, locks, confirmed, mixed),
         locks' \in Seq(Carriers), Len(locks) <= Len(locks'),
         \A n \in 1 .. Len(locks) : locks'[n] = locks[n],
         UNCHANGED confirmed, mixed => mixed'
  PROVE  SaveIsRight(w, locks', confirmed', mixed')
<1>1. Len(locks) \in Nat /\ Len(locks') \in Nat
  BY DEF TypeOK
<1>2. w.row.lock \in 0 .. Len(locks')
  BY <1>1 DEF SaveIsRight
<1>3. ~mixed' => RowIsRight(w.row, locks', confirmed')
  BY <1>1 DEF SaveIsRight, RowIsRight
<1> QED
  BY <1>2, <1>3 DEF SaveIsRight

(* What is left after a write of handler h: the other handlers' saves stay *)
(* right, as no write takes back a lock or the row.                        *)
LEMMA DoneKeeps ==
  ASSUME Inductive, NEW h \in Handlers, Done(h), HasRow => HasRow',
         locks' \in Seq(Carriers), Len(locks) <= Len(locks'),
         \A n \in 1 .. Len(locks) : locks'[n] = locks[n],
         UNCHANGED confirmed, mixed' \in BOOLEAN, mixed => mixed'
  PROVE  /\ job' \in [Handlers -> Seq(Writes)]
         /\ \A g \in Handlers : Len(job'[g]) <= 1
         /\ KnownLocks(locks', confirmed', mixed')
         /\ SavesAreRight'
         /\ UpdatesFindARow'
<1> USE DEF Inductive
<1>1. job' = [job EXCEPT ![h] = << >>]
  BY DEF Done
<1>2. << >> \in Seq(Writes)
  OBVIOUS
<1>3. job' \in [Handlers -> Seq(Writes)] /\ \A g \in Handlers : Len(job'[g]) <= 1
  BY <1>1, <1>2 DEF TypeOK
<1>4. KnownLocks(locks', confirmed', mixed')
  <2>1. Len(locks) \in Nat /\ Len(locks') \in Nat /\ locks \in Seq(Carriers)
    BY DEF TypeOK
  <2>2. confirmed \subseteq (0 .. Len(locks')) \X Carriers
    BY <2>1 DEF TypeOK
  <2>3. ~mixed' => \A x \in confirmed : x[1] \in DOMAIN locks' /\ locks'[x[1]] = x[2]
    <3> SUFFICES ASSUME ~mixed', NEW x \in confirmed
                 PROVE  x[1] \in DOMAIN locks' /\ locks'[x[1]] = x[2]
      OBVIOUS
    <3>1. x[1] \in DOMAIN locks /\ locks[x[1]] = x[2]
      BY DEF TypeOK
    <3>2. x[1] \in 1 .. Len(locks)
      BY <2>1, <3>1
    <3> QED
      BY <2>1, <3>1, <3>2
  <2> QED
    BY <2>2, <2>3 DEF KnownLocks
<1>5. \A g \in Handlers : job'[g] # << >> => job'[g] = job[g]
  BY <1>1 DEF TypeOK
<1>6. SavesAreRight'
  <2> SUFFICES ASSUME NEW g \in Handlers, Storing(g)'
               PROVE  SaveIsRight(Head(job'[g]), locks', confirmed', mixed')
    BY DEF SavesAreRight
  <2>1. job'[g] = job[g] /\ Storing(g)
    BY <1>5 DEF Doing, Storing
  <2>2. SaveIsRight(Head(job[g]), locks, confirmed, mixed)
    BY <2>1 DEF SavesAreRight
  <2>3. SaveIsRight(Head(job[g]), locks', confirmed', mixed')
    BY <2>2, RightAfter
  <2> QED
    BY <2>1, <2>3
<1>7. UpdatesFindARow'
  <2> SUFFICES ASSUME NEW g \in Handlers, Doing(g, "lock")' \/ Storing(g)'
               PROVE  HasRow
    BY DEF UpdatesFindARow
  <2> QED
    BY <1>5 DEF Doing, Storing, UpdatesFindARow
<1> QED
  BY <1>3, <1>4, <1>6, <1>7

(* A save that has selected the row goes on to store what it was to store. *)
LEMMA SaveKeeps ==
  ASSUME Inductive, NEW h \in Handlers, DoSave(h)
  PROVE  Inductive'
<1> USE DEF Inductive
<1> DEFINE w == Head(job[h])
           u == [do |-> "update", row |-> w.row, was |-> w.was, saw |-> booking]
<1>1. /\ Doing(h, "save") /\ job' = [job EXCEPT ![h] = <<u>>]
      /\ UNCHANGED <<booking, lapsed, ops, locks, confirmed, openings, mixed>>
  BY DEF DoSave, Update, history
<1>2. w \in Writes /\ w.do = "save" /\ HasRow /\ SaveIsRight(w, locks, confirmed, mixed)
  BY <1>1, HeadIsWrite DEF Doing, Storing, SavesAreRight, UpdatesFindARow
<1>3. u \in Writes
  <2>1. w.row \in Row /\ w.was \in BookingStatuses
    BY <1>2 DEF Writes
  <2>2. booking \in Row
    BY <1>2 DEF TypeOK, HasRow
  <2> QED
    BY <2>1, <2>2, WriteTypes
<1>4. SaveIsRight(u, locks, confirmed, mixed)
  BY <1>2 DEF SaveIsRight
<1> HIDE DEF u
<1>5. <<u>> \in Seq(Writes) /\ Len(<<u>>) = 1 /\ Head(<<u>>) = u
  BY <1>3
<1>6. TypeOK'
  BY <1>1, <1>5 DEF TypeOK, HasRow, KnownLocks
<1>7. OneLockPerOpening' /\ BookedByHolder'
  BY <1>1 DEF OneLockPerOpening, BookedByHolder, HasRow
<1>8. job'[h] = <<u>> /\ \A g \in Handlers \ {h} : job'[g] = job[g]
  BY <1>1 DEF TypeOK
<1>9. SavesAreRight'
  <2> SUFFICES ASSUME NEW g \in Handlers, Storing(g)'
               PROVE  SaveIsRight(Head(job'[g]), locks', confirmed', mixed')
    BY DEF SavesAreRight
  <2>1. CASE g = h
    BY <1>1, <1>4, <1>5, <1>8, <2>1
  <2>2. CASE g # h
    <3>1. job'[g] = job[g]
      BY <1>8, <2>2
    <3>2. Storing(g)
      BY <3>1 DEF Storing, Doing
    <3> QED
      BY <1>1, <3>1, <3>2 DEF SavesAreRight
  <2> QED
    BY <2>1, <2>2
<1>10. UpdatesFindARow'
  BY <1>1, <1>2 DEF UpdatesFindARow, HasRow
<1> QED
  BY <1>6, <1>7, <1>9, <1>10

(* Unless columns of two rows meet, the row stored is the one that was to  *)
(* be stored, and that is right.                                           *)
LEMMA UpdateKeeps ==
  ASSUME Inductive, NEW h \in Handlers, DoUpdate(h)
  PROVE  Inductive'
<1> USE DEF Inductive
<1> DEFINE u == Head(job[h])
<1>1. /\ Doing(h, "update") /\ Done(h) /\ booking' = Updated(u)
      /\ UNCHANGED <<lapsed, ops, locks, confirmed>>
      /\ openings' = openings + IF Opens(booking') THEN 1 ELSE 0
      /\ mixed' = (mixed \/ booking' # u.row)
  BY DEF DoUpdate
<1>2. u \in Writes /\ u.do = "update" /\ HasRow /\ SaveIsRight(u, locks, confirmed, mixed)
  BY <1>1, HeadIsWrite DEF Doing, Storing, SavesAreRight, UpdatesFindARow
<1>3. u.row \in Row /\ booking \in Row /\ booking.lock \in 0 .. Len(locks)
  BY <1>2 DEF Writes, TypeOK, HasRow
<1> HIDE DEF u
<1>4. booking' \in Row /\ booking'.lock \in 0 .. Len(locks)
  <2>1. u.row.lock \in 0 .. Len(locks)
    BY <1>2 DEF SaveIsRight
  <2> QED
    BY <1>1, <1>3, <2>1 DEF Updated, Written, Row
<1>5. HasRow'
  BY <1>4, MarkerAssumption DEF HasRow
<1>6. mixed' \in BOOLEAN /\ (mixed => mixed') /\ (~mixed' => booking' = u.row)
  BY <1>1 DEF TypeOK
<1>7. /\ job' \in [Handlers -> Seq(Writes)] /\ \A g \in Handlers : Len(job'[g]) <= 1
      /\ KnownLocks(locks', confirmed', mixed') /\ SavesAreRight' /\ UpdatesFindARow'
  BY <1>1, <1>5, <1>6, DoneKeeps DEF TypeOK
<1>8. TypeOK'
  BY <1>1, <1>4, <1>6, <1>7 DEF TypeOK, KnownLocks
<1>9. OneLockPerOpening'
  <2>1. Len(locks) \in Nat /\ openings \in Nat
    BY DEF TypeOK
  <2> QED
    BY <1>1, <1>2, <1>5, <2>1 DEF OneLockPerOpening, Opens
<1>10. BookedByHolder'
  <2> SUFFICES ASSUME ~mixed'
               PROVE  RowIsRight(booking', locks', confirmed')
    BY DEF BookedByHolder, RowIsRight
  <2> QED
    BY <1>1, <1>2, <1>6 DEF SaveIsRight
<1> QED
  BY <1>7, <1>8, <1>9, <1>10

LEMMA InsertKeeps ==
  ASSUME Inductive, NEW h \in Handlers, DoInsert(h)
  PROVE  Inductive'
<1> USE DEF Inductive
<1> DEFINE row == [status |-> "AVAILABLE", carrier |-> Nobody, lock |-> 0]
<1>1. row \in Row
  BY DEF Row, BookingStatuses
<1>2. /\ Done(h) /\ UNCHANGED <<lapsed, ops, locks, confirmed, mixed>>
      /\ IF HasRow THEN UNCHANGED <<booking, openings>>
                   ELSE booking' = row /\ openings' = openings + 1
  BY DEF DoInsert
<1>3. HasRow'
  BY <1>1, <1>2, MarkerAssumption DEF HasRow
<1>4. /\ job' \in [Handlers -> Seq(Writes)] /\ \A g \in Handlers : Len(job'[g]) <= 1
      /\ KnownLocks(locks', confirmed', mixed') /\ SavesAreRight' /\ UpdatesFindARow'
  BY <1>2, <1>3, DoneKeeps DEF TypeOK
<1>5. Len(locks) \in Nat /\ openings \in Nat
  BY DEF TypeOK
<1>6. TypeOK'
  BY <1>1, <1>2, <1>4, <1>5 DEF TypeOK, HasRow, KnownLocks
<1>7. OneLockPerOpening'
  BY <1>2, <1>5 DEF OneLockPerOpening, HasRow
<1>8. BookedByHolder'
  BY <1>2 DEF BookedByHolder, HasRow
<1> QED
  BY <1>4, <1>6, <1>7, <1>8

LEMMA CancelKeeps ==
  ASSUME Inductive, NEW h \in Handlers, DoCancel(h)
  PROVE  Inductive'
<1> USE DEF Inductive
<1>1. /\ Done(h) /\ UNCHANGED <<lapsed, ops, locks, confirmed, openings, mixed>>
      /\ booking' = IF HasRow THEN [booking EXCEPT !.status = "CANCELLED"] ELSE booking
  BY DEF DoCancel, history
<1>2. /\ HasRow => booking \in Row /\ booking' \in Row /\ booking'.status = "CANCELLED"
                              /\ booking'.lock = booking.lock
      /\ ~HasRow => booking' = NoRow
  BY <1>1 DEF TypeOK, HasRow, Row, BookingStatuses
<1>3. HasRow => HasRow'
  BY <1>2, MarkerAssumption DEF HasRow
<1>4. /\ job' \in [Handlers -> Seq(Writes)] /\ \A g \in Handlers : Len(job'[g]) <= 1
      /\ KnownLocks(locks', confirmed', mixed') /\ SavesAreRight' /\ UpdatesFindARow'
  BY <1>1, <1>3, DoneKeeps DEF TypeOK
<1>5. TypeOK'
  BY <1>1, <1>2, <1>4 DEF TypeOK, HasRow
<1>6. OneLockPerOpening'
  BY <1>1, <1>2 DEF OneLockPerOpening, HasRow, TypeOK
<1>7. BookedByHolder'
  BY <1>2 DEF BookedByHolder, HasRow
<1> QED
  BY <1>4, <1>5, <1>6, <1>7

LEMMA LockKeeps ==
  ASSUME Inductive, NEW h \in Handlers, NEW c \in Carriers, DoLock(h), Head(job[h]).carrier = c
  PROVE  Inductive'
<1> USE DEF Inductive
<1> DEFINE row == [status |-> "LOCKED", carrier |-> c, lock |-> Len(locks) + 1]
<1>1. /\ Doing(h, "lock") /\ Done(h) /\ UNCHANGED <<lapsed, ops, confirmed, openings, mixed>>
      /\ IF booking.status = "AVAILABLE"
         THEN booking' = row /\ locks' = Append(locks, c)
         ELSE UNCHANGED <<booking, locks>>
  BY DEF DoLock
<1>2. HasRow /\ booking \in Row
  BY <1>1 DEF UpdatesFindARow, TypeOK, HasRow
<1>3. /\ locks \in Seq(Carriers) /\ Len(locks) \in Nat /\ openings \in Nat
      /\ mixed \in BOOLEAN /\ lapsed \subseteq DOMAIN locks
  BY DEF TypeOK
<1>4. row \in Row
  BY <1>3 DEF Row, BookingStatuses
<1>5. HasRow'
  BY <1>1, <1>2, <1>4, MarkerAssumption DEF HasRow
<1>6. /\ locks' \in Seq(Carriers) /\ Len(locks') \in Nat /\ Len(locks) <= Len(locks')
      /\ \A n \in 1 .. Len(locks) : locks'[n] = locks[n]
      /\ booking.status = "AVAILABLE" =>
           Len(locks') = Len(locks) + 1 /\ locks'[Len(locks) + 1] = c
  BY SMTT(30), <1>1, <1>3
<1>7. /\ job' \in [Handlers -> Seq(Writes)] /\ \A g \in Handlers : Len(job'[g]) <= 1
      /\ KnownLocks(locks', confirmed', mixed') /\ SavesAreRight' /\ UpdatesFindARow'
  BY <1>1, <1>3, <1>5, <1>6, DoneKeeps
<1>8. TypeOK'
  BY <1>1, <1>2, <1>3, <1>4, <1>6, <1>7 DEF TypeOK, KnownLocks
<1>9. OneLockPerOpening'
  BY <1>1, <1>2, <1>3, <1>6 DEF OneLockPerOpening, HasRow
<1>10. BookedByHolder'
  BY <1>1, <1>2, <1>3, <1>6 DEF BookedByHolder, HasRow
<1> QED
  BY <1>7, <1>8, <1>9, <1>10

LEMMA BreakKeeps ==
  ASSUME Inductive, NEW h \in Handlers, Break(h)
  PROVE  Inductive'
<1> USE DEF Inductive
<1>1. Done(h) /\ UNCHANGED <<booking, lapsed, locks, confirmed, openings, mixed>> /\ ops' = ops + 1
  BY DEF Break, Count, history
<1>2. /\ job' \in [Handlers -> Seq(Writes)] /\ \A g \in Handlers : Len(job'[g]) <= 1
      /\ KnownLocks(locks', confirmed', mixed') /\ SavesAreRight' /\ UpdatesFindARow'
  BY <1>1, DoneKeeps DEF TypeOK, HasRow
<1>3. TypeOK'
  BY <1>1, <1>2 DEF TypeOK, HasRow, KnownLocks
<1>4. OneLockPerOpening' /\ BookedByHolder'
  BY <1>1 DEF OneLockPerOpening, BookedByHolder, HasRow
<1> QED
  BY <1>2, <1>3, <1>4

(* A lock that lapses, and a step that changes nothing. *)
LEMMA LapseKeeps ==
  ASSUME Inductive, Lapse \/ UNCHANGED vars
  PROVE  Inductive'
<1> USE DEF Inductive
<1>1. UNCHANGED <<booking, job, ops, locks, confirmed, openings, mixed>>
  BY DEF Lapse, history, vars
<1>2. lapsed' \subseteq DOMAIN locks
  BY DEF Lapse, vars, TypeOK
<1>3. TypeOK'
  BY <1>1, <1>2 DEF TypeOK, HasRow
<1>4. OneLockPerOpening' /\ BookedByHolder'
  BY <1>1 DEF OneLockPerOpening, BookedByHolder, HasRow
<1>5. SavesAreRight' /\ UpdatesFindARow'
  BY <1>1 DEF SavesAreRight, UpdatesFindARow, HasRow, Storing, Doing
<1> QED
  BY <1>3, <1>4, <1>5

-----------------------------------------------------------------------------
(* The invariant. *)

LEMMA InitInductive == Init => Inductive
<1> SUFFICES ASSUME Init
             PROVE  Inductive
  OBVIOUS
<1>1. booking = NoRow /\ lapsed = {} /\ ops = 0 /\ locks = << >> /\ confirmed = {} /\ openings = 0 /\ mixed = FALSE
      /\ job = [h \in Handlers |-> << >>] /\ ~HasRow
  BY DEF Init, HasRow
<1>2. << >> \in Seq(Writes) /\ << >> \in Seq(Carriers) /\ Len(<< >>) = 0
  OBVIOUS
<1>3. TypeOK
  <2>1. job \in [Handlers -> Seq(Writes)] /\ \A h \in Handlers : Len(job[h]) <= 1
    BY <1>1, <1>2
  <2>2. /\ confirmed \subseteq (0 .. Len(locks)) \X Carriers
        /\ \A x \in confirmed : x[1] \in DOMAIN locks /\ locks[x[1]] = x[2]
    BY <1>1
  <2> QED
    BY <1>1, <1>2, <2>1, <2>2 DEF TypeOK
<1>4. OneLockPerOpening /\ BookedByHolder
  BY <1>1, <1>2 DEF OneLockPerOpening, BookedByHolder
<1>5. SavesAreRight /\ UpdatesFindARow
  BY <1>1 DEF SavesAreRight, UpdatesFindARow, Storing, Doing
<1> QED
  BY <1>3, <1>4, <1>5 DEF Inductive

LEMMA NextInductive == Inductive /\ [Next]_vars => Inductive'
<1> SUFFICES ASSUME Inductive, [Next]_vars
             PROVE  Inductive'
  OBVIOUS
<1>1. ASSUME NEW h \in Handlers, Call(h) \/ ExpireStaleLocks(h)
      PROVE  Inductive'
  BY <1>1, CallTakes, TakeKeeps
<1>2. ASSUME NEW h \in Handlers, DoLock(h)
      PROVE  Inductive'
  <2>1. Head(job[h]) \in Writes /\ Head(job[h]).do = "lock"
    BY <1>2, HeadIsWrite DEF DoLock, Doing, Inductive
  <2>2. Head(job[h]).carrier \in Carriers
    BY <2>1 DEF Writes
  <2> QED
    BY <1>2, <2>2, LockKeeps
<1>3. ASSUME NEW h \in Handlers, Write(h) \/ Break(h)
      PROVE  Inductive'
  BY <1>2, <1>3, SaveKeeps, UpdateKeeps, InsertKeeps, CancelKeeps, BreakKeeps DEF Write
<1> QED
  BY <1>1, <1>3, LapseKeeps DEF Next, Handlers

(* The strengthening holds in every state of the system. *)
THEOREM InductiveInvariant == Spec => []Inductive
BY InitInductive, NextInductive, PTL DEF Spec

(* The row, the locks and the writes under way keep their types.           *)
THEOREM TypeCorrect == Spec => []TypeOK
BY InductiveInvariant, PTL DEF Inductive

(* instantBook's "FCFS": no matter how many carriers ask at once, through  *)
(* how many replicas, each time the load is opened one at most locks it.   *)
THEOREM FirstComeFirstServed == Spec => []OneLockPerOpening
BY InductiveInvariant, PTL DEF Inductive

(* confirmBooking and the saves that race it: a booked load is booked for  *)
(* the carrier that held the row's lock and confirmed it, as long as no    *)
(* row was stored that holds columns of two.                               *)
THEOREM HolderBooks == Spec => []BookedByHolder
BY InductiveInvariant, PTL DEF Inductive

-----------------------------------------------------------------------------
(* A confirmed booking is taken away only by the shipper or by an          *)
(* operation that had read the row before.                                 *)

StandsStep ==
  HasRow /\ booking.status = "BOOKED" /\ booking'.status # "BOOKED" =>
    \E h \in Handlers : job'[h] # job[h] /\ (ByShipper(h) \/ ReadUnbooked(h))

(* A handler that has made its write is idle.                              *)
LEMMA DoneMoves ==
  ASSUME TypeOK, NEW h \in Handlers, job[h] # << >>, Done(h)
  PROVE  job'[h] # job[h]
BY DEF TypeOK, Done

LEMMA StandsInStep ==
  ASSUME Inductive, [Next]_vars
  PROVE  StandsStep
<1> SUFFICES ASSUME HasRow, booking.status = "BOOKED", booking'.status # "BOOKED"
             PROVE  \E h \in Handlers : job'[h] # job[h] /\ (ByShipper(h) \/ ReadUnbooked(h))
  BY DEF StandsStep
<1>1. PICK h \in Handlers : DoUpdate(h) \/ DoCancel(h)
  <2>1. booking' # booking
    OBVIOUS
  <2>2. ASSUME NEW h \in Handlers, Call(h) \/ ExpireStaleLocks(h)
        PROVE  FALSE
    BY <2>1, <2>2, CallTakes DEF TakesUp, Take
  <2>3. ~Lapse /\ ~UNCHANGED vars
    BY <2>1 DEF Lapse, vars
  <2>4. ASSUME NEW h \in Handlers, DoSave(h) \/ DoInsert(h) \/ DoLock(h) \/ Break(h)
        PROVE  FALSE
    BY <2>1, <2>4 DEF DoSave, DoInsert, DoLock, Break
  <2> QED
    BY <2>2, <2>3, <2>4 DEF Next, Write, Handlers
<1>2. job'[h] # job[h]
  BY <1>1, DoneMoves DEF DoUpdate, DoCancel, Doing, Inductive
<1>3. ByShipper(h) \/ ReadUnbooked(h)
  BY <1>1 DEF DoUpdate, DoCancel, ByShipper, ReadUnbooked, Inductive, SavesAreRight, SaveIsRight, Storing
<1> QED
  BY <1>2, <1>3

(* "Kilidi onayla -> kesin rezervasyon": nothing that begins after the     *)
(* confirmation was stored takes the booking away, save the shipper.       *)
THEOREM ConfirmedStands == Spec => BookingStands
<1>1. Inductive /\ [Next]_vars => [StandsStep]_vars
  BY StandsInStep
<1> QED
  BY <1>1, InductiveInvariant, PTL DEF Spec, BookingStands, StandsStep
=============================================================================
