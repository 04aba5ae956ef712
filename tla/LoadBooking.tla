----------------------------- MODULE LoadBooking -----------------------------
(***************************************************************************)
(* The row of one load and everything that may take it: bids               *)
(* (bids/bids.service.ts), the instant booking of loads/loads.service.ts,  *)
(* the carrier API (carrier-api/carrier-api.service.ts), the delivery      *)
(* (pod/pod.service.ts), and the short reservations of                     *)
(* return-loads/return-loads.service.ts; and what saves it for another     *)
(* reason, the shipper API and the insurance.  Loads are independent, so   *)
(* one stands for all.                                                     *)
(*                                                                         *)
(* An operation reads once, decides, and makes its writes one awaited call *)
(* after another, as in EscrowService.  The writes differ in what they     *)
(* check: saves store the whole row as it was read, the reservation and    *)
(* the instant booking are conditional updates, and clearing a             *)
(* reservation is an update that looks at nothing but the id.              *)
(*                                                                         *)
(* A reservation is known by the order in which it was granted; 0 is none. *)
(* `lapsed` are those whose reservationExpiresAt has passed.               *)
(***************************************************************************)
EXTENDS Naturals, Sequences, FiniteSets

CONSTANTS
  Carriers,
  Bids,
  BidOf,        \* BidOf[b]: the carrier that places bid b
  Handlers,     \* requests and jobs that run concurrently
  Nobody,       \* no carrier
  NoBid,        \* the bid has not been placed
  MaxOps        \* bound: operations begun in a behaviour, placing bids aside

ASSUME BookingAssumption ==
  /\ BidOf \in [Bids -> Carriers]
  /\ Nobody \notin Carriers
  /\ MaxOps \in Nat

VARIABLES
  load,         \* the row of `loads`
  bid,          \* bid[b]: status in `bids`, or NoBid
  funded,       \* bids and carriers whose escrow exists
  lapsed,       \* reservations whose time is over
  job,          \* job[h]: the writes handler h has left; none when it is idle
  ops,          \* operations begun
  owner,        \* history: owner[r]: who was granted reservation r
  believed,     \* history: reservations their owner was granted and has not given back
  wiped,        \* history: a write that checks no version removed a believed reservation,
                \* or brought an earlier version back
  chosen,       \* history: carriers and bids a shipper, a booking or the API has chosen
  instantTakes, \* history: instant bookings that succeeded
  openings,     \* history: times the load became BEKLEMEDE
  unsettled     \* history: ways in which a bid may outlive the acceptance of another

reservations == <<owner, believed, wiped>>
takes == <<chosen, instantTakes, openings>>
vars == <<load, bid, funded, lapsed, job, ops, reservations, takes, unsettled>>

LoadStatuses == {"BEKLEMEDE", "YOLDA", "TESLIM_EDILDI", "IPTAL"}
BidStatuses == {"PENDING", "COUNTERED", "ACCEPTED", "REJECTED", "EXPIRED"}
ASSUME MarkerAssumption == NoBid \notin BidStatuses

LoadRow == [status : LoadStatuses, receiver : Carriers \cup {Nobody},
            reservation : Nat, version : Nat]

-----------------------------------------------------------------------------
(* The carrier API's state machine and its two conversions.  Eight states  *)
(* of a shipment are kept in four of a load.                               *)

ShipmentState(status) ==
  CASE status = "BEKLEMEDE"     -> "ASSIGNED"
    [] status = "YOLDA"         -> "IN_TRANSIT"
    [] status = "TESLIM_EDILDI" -> "COMPLETED"
    [] status = "IPTAL"         -> "CANCELLED"

(* Mutant: a state is stored as it is. *)
LoadStatusUnmapped(state) == state

LoadStatus(state) ==
  CASE state \in {"ASSIGNED", "DISPATCHED"} -> "BEKLEMEDE"
    [] state \in {"IN_TRANSIT", "ARRIVED", "UNLOADING", "DELAYED"} -> "YOLDA"
    [] state = "COMPLETED" -> "TESLIM_EDILDI"
    [] state = "CANCELLED" -> "IPTAL"

Transitions(state) ==
  CASE state = "ASSIGNED"   -> {"DISPATCHED", "CANCELLED"}
    [] state = "DISPATCHED" -> {"IN_TRANSIT", "CANCELLED"}
    [] state = "IN_TRANSIT" -> {"ARRIVED", "DELAYED"}
    [] state = "ARRIVED"    -> {"UNLOADING"}
    [] state = "UNLOADING"  -> {"COMPLETED"}
    [] state = "DELAYED"    -> {"IN_TRANSIT", "CANCELLED"}
    [] OTHER -> {}

-----------------------------------------------------------------------------
(* The writes an operation is made of. *)

SaveBid(b, status) == [do |-> "saveBid", b |-> b, status |-> status]
RejectOthers == [do |-> "rejectOthers"]             \* bidRepo.update of the pending bids
SaveLoad(row, c) == [do |-> "saveLoad", row |-> row, by |-> c]  \* loadRepo.save
Reserve(c, version) == [do |-> "reserve", c |-> c, version |-> version]
Clear == [do |-> "clear"]                           \* loadRepo.update by id
Book(c) == [do |-> "book", c |-> c]                 \* conditional update
Fund(key) == [do |-> "fund", key |-> key]           \* the escrow, in a try

Writes ==
  [do : {"saveBid"}, b : Bids, status : BidStatuses]
  \cup [do : {"rejectOthers", "clear"}]
  \cup [do : {"saveLoad"}, row : LoadRow, by : Carriers \cup {Nobody}]
  \cup [do : {"reserve"}, c : Carriers, version : Nat]
  \cup [do : {"book"}, c : Carriers]
  \cup [do : {"fund"}, key : Bids \cup Carriers]

(* A reservation that is there and whose time is not over. *)
Live(r) == r # 0 /\ r \notin lapsed

Init ==
  /\ load = [status |-> "BEKLEMEDE", receiver |-> Nobody, reservation |-> 0, version |-> 0]
  /\ bid = [b \in Bids |-> NoBid]
  /\ funded = {}
  /\ lapsed = {}
  /\ job = [h \in Handlers |-> << >>]
  /\ ops = 0
  /\ owner = << >>
  /\ believed = {}
  /\ wiped = FALSE
  /\ chosen = {}
  /\ instantTakes = 0
  /\ openings = 1
  /\ unsettled = {}

(* A handler takes up an operation, having read what it needs. *)
Take(h, todo) ==
  /\ job[h] = << >>
  /\ ops < MaxOps
  /\ job' = [job EXCEPT ![h] = todo]
  /\ ops' = ops + 1
  /\ UNCHANGED <<load, bid, funded, lapsed, owner, wiped, takes>>

-----------------------------------------------------------------------------
(* BidsService.  No operation looks at the load's status.                  *)

Accepting(h) == RejectOthers \in {job[h][i] : i \in DOMAIN job[h]}

Excuse(reason, holds) == unsettled' = unsettled \cup IF holds THEN {reason} ELSE {}

PlaceBid(b) ==
  /\ bid[b] = NoBid
  /\ bid' = [bid EXCEPT ![b] = "PENDING"]
  /\ Excuse("late", "ACCEPTED" \in {bid[x] : x \in Bids} \/ \E h \in Handlers : Accepting(h))
  /\ UNCHANGED <<load, funded, lapsed, job, ops, reservations, takes>>

(* Mutant: the load is given to the carrier before the bid is accepted.    *)
AcceptBidLoadFirst(h, b) ==
  /\ bid[b] \in {"PENDING", "COUNTERED"}
  /\ Take(h, <<SaveLoad([load EXCEPT !.status = "YOLDA", !.receiver = BidOf[b]], Nobody),
               SaveBid(b, "ACCEPTED"), RejectOthers, Fund(b)>>)
  /\ Excuse("raced", \E g \in Handlers : Accepting(g))
  /\ UNCHANGED believed

(* The load is read together with the bid and saved whole, whatever it is  *)
(* by then.                                                                *)
AcceptBid(h, b) ==
  /\ bid[b] \in {"PENDING", "COUNTERED"}
  /\ Take(h, <<SaveBid(b, "ACCEPTED"),
               SaveLoad([load EXCEPT !.status = "YOLDA", !.receiver = BidOf[b]], Nobody),
               RejectOthers, Fund(b)>>)
  /\ Excuse("raced", \E g \in Handlers : Accepting(g))
  /\ UNCHANGED believed

(* The carrier accepts the counter-offer; the load is left as it is.       *)
AcceptCounter(h, b) ==
  /\ bid[b] = "COUNTERED"
  /\ Take(h, <<SaveBid(b, "ACCEPTED"), RejectOthers, Fund(b)>>)
  /\ Excuse("raced", \E g \in Handlers : Accepting(g))
  /\ UNCHANGED believed

RejectBid(h, b) ==
  /\ bid[b] # NoBid
  /\ Take(h, <<SaveBid(b, "REJECTED")>>)
  /\ UNCHANGED <<believed, unsettled>>

(* A countered bid is no longer PENDING, which is what RejectOthers looks  *)
(* for.                                                                    *)
CounterBid(h, b) ==
  /\ bid[b] # NoBid
  /\ Take(h, <<SaveBid(b, "COUNTERED")>>)
  /\ Excuse("countered", TRUE)
  /\ UNCHANGED believed

CancelBid(h, b) ==
  /\ bid[b] \notin {NoBid, "ACCEPTED"}
  /\ Take(h, <<SaveBid(b, "EXPIRED")>>)
  /\ UNCHANGED <<believed, unsettled>>

-----------------------------------------------------------------------------
(* LoadsService, the carrier API and the delivery *)

InstantBook(h, c) ==
  /\ load.status = "BEKLEMEDE"
  /\ Take(h, <<Book(c), Fund(c)>>)
  /\ UNCHANGED <<believed, unsettled>>

AcceptLoad(h, c) ==
  /\ load.status = "BEKLEMEDE"
  /\ Take(h, <<SaveLoad([load EXCEPT !.status = "YOLDA", !.receiver = c], c)>>)
  /\ UNCHANGED <<believed, unsettled>>

(* Any carrier may report any state that the state machine allows.         *)
UpdateStatus(h) ==
  /\ \E state \in Transitions(ShipmentState(load.status)) :
       Take(h, <<SaveLoad([load EXCEPT !.status = LoadStatus(state)], Nobody)>>)
  /\ UNCHANGED <<believed, unsettled>>

(* InsuranceService.issuePolicy notes the policy in the row it read.       *)
IssuePolicy(h) ==
  /\ Take(h, <<SaveLoad(load, Nobody)>>)
  /\ UNCHANGED <<believed, unsettled>>

(* The shipper API asks for nothing but the load's id. *)
CancelShipment(h) ==
  /\ Take(h, <<SaveLoad([load EXCEPT !.status = "IPTAL"], Nobody)>>)
  /\ UNCHANGED <<believed, unsettled>>

(* PodService.checkDeliveryCompletion *)
Deliver(h) ==
  /\ load.status # "TESLIM_EDILDI"
  /\ Take(h, <<SaveLoad([load EXCEPT !.status = "TESLIM_EDILDI"], Nobody)>>)
  /\ UNCHANGED <<believed, unsettled>>

-----------------------------------------------------------------------------
(* ReturnLoadsService *)

OwnerOf(r) == IF r = 0 THEN Nobody ELSE owner[r]

ReserveLoad(h, c) ==
  /\ Live(load.reservation) => OwnerOf(load.reservation) = c
  /\ Take(h, <<Reserve(c, load.version)>>)
  /\ UNCHANGED <<believed, unsettled>>

(* Whoever gives a reservation back no longer counts on it. *)
ReleaseReservation(h, c) ==
  /\ OwnerOf(load.reservation) = c
  /\ Take(h, <<Clear>>)
  /\ believed' = {r \in believed : owner[r] # c}
  /\ UNCHANGED unsettled

(* The job that runs each minute: the rows it found are cleared one by one.*)
ExpireStaleReservations(h) ==
  /\ load.reservation \in lapsed
  /\ Take(h, <<Clear>>)
  /\ UNCHANGED <<believed, unsettled>>

(* Time passes: reservationExpiresAt is over. *)
Lapse(r) ==
  /\ r \in DOMAIN owner \ lapsed
  /\ lapsed' = lapsed \cup {r}
  /\ UNCHANGED <<load, bid, funded, job, ops, reservations, takes, unsettled>>

-----------------------------------------------------------------------------
(* The writes. *)

Doing(h, what) == job[h] # << >> /\ Head(job[h]).do = what
Advance(h) == job' = [job EXCEPT ![h] = Tail(@)] /\ UNCHANGED ops
Drop(h) == job' = [job EXCEPT ![h] = << >>] /\ UNCHANGED ops

DoSaveBid(h) ==
  LET w == Head(job[h]) IN
  /\ Doing(h, "saveBid")
  /\ bid' = [bid EXCEPT ![w.b] = w.status]
  /\ chosen' = chosen \cup IF w.status = "ACCEPTED" THEN {w.b, BidOf[w.b]} ELSE {}
  /\ Advance(h)
  /\ UNCHANGED <<load, funded, lapsed, reservations, instantTakes, openings, unsettled>>

(* Mutant: only countered bids are rejected. *)
DoRejectCountered(h) ==
  /\ Doing(h, "rejectOthers")
  /\ bid' = [b \in Bids |-> IF bid[b] = "COUNTERED" THEN "REJECTED" ELSE bid[b]]
  /\ Advance(h)
  /\ UNCHANGED <<load, funded, lapsed, reservations, takes, unsettled>>

DoRejectOthers(h) ==
  /\ Doing(h, "rejectOthers")
  /\ bid' = [b \in Bids |-> IF bid[b] = "PENDING" THEN "REJECTED" ELSE bid[b]]
  /\ Advance(h)
  /\ UNCHANGED <<load, funded, lapsed, reservations, takes, unsettled>>

(* The reservation in the table is one its owner counts on, and goes. *)
Wipes(reservation) ==
  /\ load.reservation \in believed
  /\ Live(load.reservation)
  /\ reservation # load.reservation

DoSaveLoad(h) ==
  LET w == Head(job[h]) IN
  /\ Doing(h, "saveLoad")
  /\ load' = w.row
  /\ wiped' = (wiped \/ Wipes(w.row.reservation) \/ w.row.version < load.version)
  /\ chosen' = chosen \cup ({w.by} \ {Nobody})
  /\ openings' = openings + IF load.status # "BEKLEMEDE" /\ w.row.status = "BEKLEMEDE"
                            THEN 1 ELSE 0
  /\ Advance(h)
  /\ UNCHANGED <<bid, funded, lapsed, owner, believed, instantTakes, unsettled>>

(* A new reservation of c: what c held before is replaced. *)
Grant(c) ==
  /\ owner' = Append(owner, c)
  /\ believed' = {r \in believed : owner[r] # c} \cup {Len(owner) + 1}
  /\ UNCHANGED wiped

Granted == Len(owner) + 1

(* Mutant: the update names the load only, not its version. *)
DoReserveUnversioned(h) ==
  LET w == Head(job[h]) IN
  /\ Doing(h, "reserve")
  /\ load' = [load EXCEPT !.reservation = Granted, !.version = w.version + 1]
  /\ Grant(w.c)
  /\ Advance(h)
  /\ UNCHANGED <<bid, funded, lapsed, takes, unsettled>>

(* The update takes effect on the version that was read, or on no row. *)
DoReserve(h) ==
  LET w == Head(job[h]) IN
  /\ Doing(h, "reserve")
  /\ IF load.version = w.version
     THEN /\ load' = [load EXCEPT !.reservation = Granted, !.version = w.version + 1]
          /\ Grant(w.c)
          /\ Advance(h)
     ELSE Drop(h) /\ UNCHANGED <<load, reservations>>
  /\ UNCHANGED <<bid, funded, lapsed, takes, unsettled>>

DoClear(h) ==
  /\ Doing(h, "clear")
  /\ load' = [load EXCEPT !.reservation = 0]
  /\ wiped' = (wiped \/ Wipes(0))
  /\ Advance(h)
  /\ UNCHANGED <<bid, funded, lapsed, owner, believed, takes, unsettled>>

(* Mutant: the update does not ask for the load's status. *)
DoBookAnyStatus(h) ==
  LET c == Head(job[h]).c IN
  /\ Doing(h, "book")
  /\ ~Live(load.reservation)
  /\ load' = [status |-> "YOLDA", receiver |-> c, reservation |-> Granted,
              version |-> load.version + 1]
  /\ Grant(c)
  /\ chosen' = chosen \cup {c}
  /\ instantTakes' = instantTakes + 1
  /\ Advance(h)
  /\ UNCHANGED <<bid, funded, lapsed, openings, unsettled>>

(* ... WHERE status = 'beklemede' AND (reservedById IS NULL OR              *)
(* reservationExpiresAt < now)                                              *)
DoBook(h) ==
  LET c == Head(job[h]).c IN
  /\ Doing(h, "book")
  /\ load.status = "BEKLEMEDE"
  /\ ~Live(load.reservation)
  /\ load' = [status |-> "YOLDA", receiver |-> c, reservation |-> Granted,
              version |-> load.version + 1]
  /\ Grant(c)
  /\ chosen' = chosen \cup {c}
  /\ instantTakes' = instantTakes + 1
  /\ Advance(h)
  /\ UNCHANGED <<bid, funded, lapsed, openings, unsettled>>

BookRefused(h) ==
  /\ Doing(h, "book")
  /\ load.status # "BEKLEMEDE" \/ Live(load.reservation)
  /\ Drop(h)
  /\ UNCHANGED <<load, bid, funded, lapsed, reservations, takes, unsettled>>

(* The escrow is created where the bid or the load asks for one; a failure *)
(* is caught, and the operation ends as if nothing had happened.           *)
DoFund(h) ==
  /\ Doing(h, "fund")
  /\ funded' \in {funded, funded \cup {Head(job[h]).key}}
  /\ Advance(h)
  /\ UNCHANGED <<load, bid, lapsed, reservations, takes, unsettled>>

(* An exception, a lost connection or a crash between two writes. *)
Break(h) ==
  /\ job[h] # << >>
  /\ Drop(h)
  /\ Excuse("broken", TRUE)
  /\ UNCHANGED <<load, bid, funded, lapsed, reservations, takes>>

BidCall(h, b) ==
  \/ AcceptBid(h, b) \/ AcceptCounter(h, b)
  \/ RejectBid(h, b) \/ CounterBid(h, b) \/ CancelBid(h, b)

LoadCall(h) ==
  \/ \E c \in Carriers : InstantBook(h, c) \/ AcceptLoad(h, c)
  \/ UpdateStatus(h) \/ Deliver(h)
  \/ IssuePolicy(h) \/ CancelShipment(h)

ReservationCall(h) ==
  \/ \E c \in Carriers : ReserveLoad(h, c) \/ ReleaseReservation(h, c)
  \/ ExpireStaleReservations(h)

Write(h) ==
  \/ DoSaveBid(h) \/ DoRejectOthers(h)
  \/ DoSaveLoad(h) \/ DoReserve(h) \/ DoClear(h)
  \/ DoBook(h) \/ BookRefused(h)
  \/ DoFund(h)

Next ==
  \/ \E b \in Bids : PlaceBid(b)
  \/ \E r \in DOMAIN owner : Lapse(r)
  \/ \E h \in Handlers :
       \/ \E b \in Bids : BidCall(h, b)
       \/ LoadCall(h) \/ ReservationCall(h)
       \/ Write(h) \/ Break(h)

Spec == Init /\ [][Next]_vars

-----------------------------------------------------------------------------

(* Type invariant: the row, the bids and the writes each handler has left. *)
TypeOK ==
  /\ load \in LoadRow
  /\ bid \in [Bids -> BidStatuses \cup {NoBid}]
  /\ funded \subseteq Bids \cup Carriers
  /\ owner \in Seq(Carriers)
  /\ load.reservation \in 0 .. Len(owner)
  /\ lapsed \subseteq DOMAIN owner
  /\ believed \subseteq DOMAIN owner
  /\ job \in [Handlers -> Seq(Writes)]
  /\ ops \in Nat
  /\ wiped \in BOOLEAN
  /\ chosen \subseteq Bids \cup Carriers
  /\ instantTakes \in Nat
  /\ openings \in Nat
  /\ unsettled \subseteq {"late", "raced", "countered", "broken"}

(* "Ilk gelen alir": each time the load is open, one instant booking takes *)
(* it.  Only the save of a row that was read while it was open opens it    *)
(* again.                                                                  *)
OneInstantTake == instantTakes <= openings

(* "Optimistic Locking ... mukerrer rezervasyonlar engellenir": two        *)
(* carriers never both count on a live reservation, however reserveLoad,   *)
(* instantBook, expiry and saves interleave, unless a write that checks no *)
(* version wiped the first one's or brought back a version that an earlier *)
(* reader still holds.                                                     *)
OneLiveReservation ==
  Cardinality({r \in believed : Live(r)}) > 1 => wiped

(* Neither the load nor an escrow goes to a carrier before the choice of   *)
(* that carrier is stored: a crash between the writes of an acceptance     *)
(* leaves a choice without a load, never a load without a choice.          *)
UnderWayToChosen ==
  /\ load.status = "YOLDA" => load.receiver \in chosen
  /\ funded \subseteq chosen

(* Accepting a bid closes the others: two bids of a load are accepted only *)
(* if one was countered, came after the first acceptance, raced with it,   *)
(* or an acceptance broke half way.                                        *)
OneAcceptedBid ==
  Cardinality({b \in Bids : bid[b] = "ACCEPTED"}) > 1 => unsettled # {}
=============================================================================
