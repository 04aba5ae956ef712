--------------------------- MODULE InstantBooking ---------------------------
(***************************************************************************)
(* The instant booking of one load (instant-booking/                       *)
(* instant-booking.service.ts): the shipper opens and closes it, the first *)
(* carrier to ask locks it for five minutes, then confirms or releases the *)
(* lock, and a job expires locks whose time is over.                       *)
(*                                                                         *)
(* instantBook takes the lock with a conditional update.  All other        *)
(* operations read the row, change the copy and save it.  A save looks at  *)
(* the row once more and then updates the columns in which the copy        *)
(* differs from what it saw, whatever the row has become meanwhile.        *)
(*                                                                         *)
(* A lock, in the code its lockedAt, is known by the order in which it was *)
(* granted; 0 is none.  Prices and fees are left out.                      *)
(***************************************************************************)
EXTENDS Naturals, Sequences

CONSTANTS
  Carriers,
  Requests,     \* handlers of the controller's requests
  Sweepers,     \* runs of the job; one per replica of the server
  Nobody,       \* no carrier
  NoRow,        \* the load was never opened for instant booking
  MaxOps        \* bound: requests begun and operations broken off

ASSUME InstantAssumption ==
  /\ Nobody \notin Carriers
  /\ Requests \cap Sweepers = {}
  /\ MaxOps \in Nat

VARIABLES
  booking,      \* the load's row of `instant_bookings`, or NoRow
  lapsed,       \* locks that are older than LOCK_TIMEOUT_MINUTES
  job,          \* job[h]: the write handler h is about to make; none when it is idle
  ops,          \* requests and broken operations so far
  locks,        \* history: locks[n]: who was granted lock n
  confirmed,    \* history: the locks that were confirmed, each with the carrier that did
  openings,     \* history: times the row became AVAILABLE
  mixed         \* history: a save left a row that is not the one it was to store

history == <<locks, confirmed, openings, mixed>>
vars == <<booking, lapsed, job, ops, history>>

BookingStatuses == {"AVAILABLE", "LOCKED", "BOOKED", "EXPIRED", "CANCELLED"}
Row == [status : BookingStatuses, carrier : Carriers \cup {Nobody}, lock : Nat]
ASSUME MarkerAssumption == NoRow \notin Row
Handlers == Requests \cup Sweepers

(* The writes: a save of a row whose status was `was` when it was read,    *)
(* first to be compared and then, against the row it saw, to be stored;    *)
(* the insert of the first row; and updates, which name their conditions.  *)
Save(row) == [do |-> "save", row |-> row, was |-> booking.status]
Update(save) == [do |-> "update", row |-> save.row, was |-> save.was, saw |-> booking]
Insert == [do |-> "insert"]
Cancel == [do |-> "cancel"]
Lock(c) == [do |-> "lock", carrier |-> c]

Writes == [do : {"save"}, row : Row, was : BookingStatuses]
          \cup [do : {"update"}, row : Row, was : BookingStatuses, saw : Row]
          \cup [do : {"insert", "cancel"}] \cup [do : {"lock"}, carrier : Carriers]

Init ==
  /\ booking = NoRow
  /\ lapsed = {}
  /\ job = [h \in Handlers |-> << >>]
  /\ ops = 0
  /\ locks = << >>
  /\ confirmed = {}
  /\ openings = 0
  /\ mixed = FALSE

(* Handler h has read the row and goes on to write. *)
Take(h, write) ==
  /\ job[h] = << >>
  /\ job' = [job EXCEPT ![h] = <<write>>]
  /\ UNCHANGED <<booking, lapsed, locks, openings, mixed>>

Count == ops < MaxOps /\ ops' = ops + 1

HasRow == booking # NoRow
IsLockedBy(c) == HasRow /\ booking.status = "LOCKED" /\ booking.carrier = c

-----------------------------------------------------------------------------

(* Mutant: the row keeps its carrier. *)
EnableKeepingCarrier(h) ==
  /\ Take(h, IF HasRow THEN Save([booking EXCEPT !.status = "AVAILABLE"]) ELSE Insert)
  /\ Count
  /\ UNCHANGED confirmed

EnableInstantBooking(h) ==
  /\ Take(h, IF HasRow
             THEN Save([booking EXCEPT !.status = "AVAILABLE", !.carrier = Nobody])
             ELSE Insert)
  /\ Count
  /\ UNCHANGED confirmed

DisableInstantBooking(h) ==
  /\ Take(h, Cancel)
  /\ Count
  /\ UNCHANGED confirmed

InstantBook(h, c) ==
  /\ HasRow
  /\ booking.status = "AVAILABLE"
  /\ Take(h, Lock(c))
  /\ Count
  /\ UNCHANGED confirmed

(* Mutant: the row is looked up by its load only. *)
ConfirmAnyLock(h, c) ==
  /\ HasRow
  /\ Take(h, Save([booking EXCEPT !.status = "BOOKED", !.carrier = c]))
  /\ Count
  /\ confirmed' = confirmed \cup {<<booking.lock, c>>}

ConfirmBooking(h, c) ==
  /\ IsLockedBy(c)
  /\ Take(h, Save([booking EXCEPT !.status = "BOOKED"]))
  /\ Count
  /\ confirmed' = confirmed \cup {<<booking.lock, c>>}

ReleaseLock(h, c) ==
  /\ IsLockedBy(c)
  /\ Take(h, Save([status |-> "AVAILABLE", carrier |-> Nobody, lock |-> 0]))
  /\ Count
  /\ UNCHANGED confirmed

(* Mutant: the query looks at the age of the lock only.                    *)
ExpireAnyStatus(h) ==
  /\ HasRow
  /\ booking.lock \in lapsed
  /\ Take(h, Save([booking EXCEPT !.status = "EXPIRED", !.carrier = Nobody]))
  /\ UNCHANGED <<ops, confirmed>>

(* Mutant: the query looks for locks that are younger than the timeout.    *)
ExpireFreshLocks(h) ==
  /\ HasRow
  /\ booking.status = "LOCKED"
  /\ booking.lock \notin lapsed
  /\ Take(h, Save([booking EXCEPT !.status = "EXPIRED", !.carrier = Nobody]))
  /\ UNCHANGED <<ops, confirmed>>

(* The job reads the locks that lapsed and saves each as expired.          *)
ExpireStaleLocks(h) ==
  /\ HasRow
  /\ booking.status = "LOCKED"
  /\ booking.lock \in lapsed
  /\ Take(h, Save([booking EXCEPT !.status = "EXPIRED", !.carrier = Nobody]))
  /\ UNCHANGED <<ops, confirmed>>

-----------------------------------------------------------------------------
(* The writes. *)

Doing(h, what) == job[h] # << >> /\ Head(job[h]).do = what
Done(h) == job' = [job EXCEPT ![h] = << >>]

Opens(row) == row.status = "AVAILABLE" /\ (HasRow => booking.status # "AVAILABLE")

(* The save selects the row that is there now. *)
DoSave(h) ==
  /\ Doing(h, "save")
  /\ job' = [job EXCEPT ![h] = <<Update(Head(@))>>]
  /\ UNCHANGED <<booking, lapsed, ops, history>>

(* A column in which the copy differs from what was selected is written.   *)
Written(new, saw, now) == IF new # saw THEN new ELSE now

Updated(u) ==
  [status  |-> Written(u.row.status, u.saw.status, booking.status),
   carrier |-> Written(u.row.carrier, u.saw.carrier, booking.carrier),
   lock    |-> Written(u.row.lock, u.saw.lock, booking.lock)]

DoUpdate(h) ==
  LET u == Head(job[h]) IN
  /\ Doing(h, "update")
  /\ booking' = Updated(u)
  /\ openings' = openings + IF Opens(booking') THEN 1 ELSE 0
  /\ mixed' = (mixed \/ booking' # u.row)
  /\ Done(h)
  /\ UNCHANGED <<lapsed, ops, locks, confirmed>>

(* The unique index on loadId refuses a second row. *)
DoInsert(h) ==
  LET row == [status |-> "AVAILABLE", carrier |-> Nobody, lock |-> 0] IN
  /\ Doing(h, "insert")
  /\ IF HasRow THEN UNCHANGED <<booking, openings>>
               ELSE booking' = row /\ openings' = openings + 1
  /\ Done(h)
  /\ UNCHANGED <<lapsed, ops, locks, confirmed, mixed>>

DoCancel(h) ==
  /\ Doing(h, "cancel")
  /\ booking' = IF HasRow THEN [booking EXCEPT !.status = "CANCELLED"] ELSE booking
  /\ Done(h)
  /\ UNCHANGED <<lapsed, ops, history>>

(* Mutant: the update names the load only. *)
DoLockAnyStatus(h) ==
  LET c == Head(job[h]).carrier IN
  /\ Doing(h, "lock")
  /\ booking' = [status |-> "LOCKED", carrier |-> c, lock |-> Len(locks) + 1]
  /\ locks' = Append(locks, c)
  /\ Done(h)
  /\ UNCHANGED <<lapsed, ops, confirmed, openings, mixed>>

(* ... WHERE loadId AND status = AVAILABLE: the first to come is served.   *)
DoLock(h) ==
  LET c == Head(job[h]).carrier IN
  /\ Doing(h, "lock")
  /\ IF booking.status = "AVAILABLE"
     THEN /\ booking' = [status |-> "LOCKED", carrier |-> c, lock |-> Len(locks) + 1]
          /\ locks' = Append(locks, c)
     ELSE UNCHANGED <<booking, locks>>
  /\ Done(h)
  /\ UNCHANGED <<lapsed, ops, confirmed, openings, mixed>>

(* An exception, a lost connection or a crash before the write. *)
Break(h) ==
  /\ job[h] # << >>
  /\ Count
  /\ Done(h)
  /\ UNCHANGED <<booking, lapsed, history>>

(* Five minutes pass. *)
Lapse ==
  /\ HasRow
  /\ booking.lock \in DOMAIN locks \ lapsed
  /\ lapsed' = lapsed \cup {booking.lock}
  /\ UNCHANGED <<booking, job, ops, history>>

Call(h) ==
  \/ EnableInstantBooking(h) \/ DisableInstantBooking(h)
  \/ \E c \in Carriers : InstantBook(h, c) \/ ConfirmBooking(h, c) \/ ReleaseLock(h, c)

Write(h) == DoSave(h) \/ DoUpdate(h) \/ DoInsert(h) \/ DoCancel(h) \/ DoLock(h)

Next ==
  \/ \E h \in Requests : Call(h)
  \/ \E h \in Sweepers : ExpireStaleLocks(h)
  \/ \E h \in Handlers : Write(h) \/ Break(h)
  \/ Lapse

(* Time passes, the job runs every thirty seconds, and a write that was    *)
(* sent is made or broken off.                                             *)
Fairness ==
  /\ WF_vars(Lapse)
  /\ \A h \in Sweepers : WF_vars(ExpireStaleLocks(h))
  /\ \A h \in Handlers : WF_vars(Write(h))

Spec == Init /\ [][Next]_vars /\ Fairness

-----------------------------------------------------------------------------

(* Type invariant: the row, the locks, who confirmed them and the writes   *)
(* under way.                                                              *)
TypeOK ==
  /\ booking \in Row \cup {NoRow}
  /\ HasRow => booking.lock \in 0 .. Len(locks)
  /\ lapsed \subseteq DOMAIN locks
  /\ job \in [Handlers -> Seq(Writes)]
  /\ \A h \in Handlers : Len(job[h]) <= 1
  /\ ops \in Nat
  /\ locks \in Seq(Carriers)
  /\ confirmed \subseteq (0 .. Len(locks)) \X Carriers
  /\ ~mixed => \A x \in confirmed : x[1] \in DOMAIN locks /\ locks[x[1]] = x[2]
  /\ openings \in Nat
  /\ mixed \in BOOLEAN

(* "FCFS: Ilk gelen alir": however requests race, each time the load is    *)
(* opened at most one carrier is granted the lock.                         *)
OneLockPerOpening ==
  Len(locks) + (IF HasRow /\ booking.status = "AVAILABLE" THEN 1 ELSE 0) <= openings

(* A booked load is booked for the carrier that held the row's lock and    *)
(* confirmed it, and a locked one locked for the holder, although saves of *)
(* old locks and of the job may overwrite each other, unless an update     *)
(* fell on a row that was no longer the one its own save had selected and  *)
(* so stored some columns of two rows.                                     *)
BookedByHolder ==
  ~mixed =>
    /\ HasRow /\ booking.status \in {"LOCKED", "BOOKED"} =>
         booking.lock # 0 /\ booking.carrier = locks[booking.lock]
    /\ HasRow /\ booking.status = "BOOKED" => <<booking.lock, booking.carrier>> \in confirmed
    /\ HasRow /\ booking.status \in {"AVAILABLE", "EXPIRED"} => booking.carrier = Nobody

IsLocked(n) == HasRow /\ booking.status = "LOCKED" /\ booking.lock = n

(* A lock does not stay: it is confirmed, released or closed, or the job   *)
(* expires it once its five minutes are over.  (A lock takes two requests, *)
(* so MaxOps \div 2 bounds their number.)                                  *)
LockSettles ==
  \A n \in 1 .. MaxOps \div 2 : IsLocked(n) ~> ~IsLocked(n)

ByShipper(h) ==
  \/ Doing(h, "cancel")
  \/ Doing(h, "update") /\ Head(job[h]).row.status = "AVAILABLE"
ReadUnbooked(h) == Doing(h, "update") /\ Head(job[h]).was # "BOOKED"

(* "Kilidi onayla -> kesin rezervasyon": once a booking is confirmed, only *)
(* the shipper takes it away, by opening or closing the load, or a         *)
(* conflicting operation that had read the row before the confirmation was *)
(* stored; nothing that begins afterwards does, the job included.          *)
BookingStands ==
  [][HasRow /\ booking.status = "BOOKED" /\ booking'.status # "BOOKED" =>
       \E h \in Handlers : job'[h] # job[h] /\ (ByShipper(h) \/ ReadUnbooked(h))]_vars
=============================================================================
