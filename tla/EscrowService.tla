---------------------------- MODULE EscrowService ----------------------------
(***************************************************************************)
(* escrow/escrow.service.ts: the life of an escrow between one shipper and *)
(* one carrier, served by handlers that run concurrently.                  *)
(*                                                                         *)
(* Every operation reads the escrow row once, decides, and then performs   *)
(* its writes one awaited call after another.  A handler is therefore the  *)
(* list of the writes it has left, and each write is a step of its own.    *)
(* Nothing locks the row between the read and the writes, and save(entity) *)
(* stores every column as the handler read or set it, so a save brings     *)
(* back what it read however old that is.                                  *)
(*                                                                         *)
(* WalletService operations are atomic here, as WalletService guarantees.  *)
(***************************************************************************)
EXTENDS Integers, Sequences

CONSTANTS
  Escrows,      \* idempotency keys of escrows: a row of the table each
  Price,        \* Price[e]: the amount of e
  Shares,       \* Shares[e]: the amounts of its milestones; << >> for a single payment
  Deposit,      \* what the shipper has in its wallet to begin with
  Handlers,     \* request handlers that run concurrently
  NoRow,        \* no such escrow
  NoJob,        \* the handler is idle
  MaxOps        \* bound: operations begun in a behaviour

ASSUME AmountsAssumption ==
  /\ Price \in [Escrows -> Nat \ {0}]
  /\ Shares \in [Escrows -> Seq(Nat)]
  /\ Deposit \in Nat
  /\ MaxOps \in Nat

VARIABLES
  escrow,     \* rows of `escrow_transactions`
  dispute,    \* dispute[e]: the last dispute about e: "none", "open" or "resolved"
  shipper,    \* the shipper's wallet
  carrier,    \* the carrier's wallet
  job,        \* job[h]: what handler h is doing
  ops,        \* operations begun
  locked,     \* history: amounts locked for e in the shipper's wallet
  paid,       \* history: amounts that reached the carrier's available balance for e
  refunded,   \* history: amounts credited back to the shipper for e
  broken      \* history: some operation failed half way

vars == <<escrow, dispute, shipper, carrier, job, ops, locked, paid, refunded, broken>>
books == <<locked, paid, refunded>>

Statuses == {"BEKLEMEDE", "BLOKEDE", "TESLIMAT_BEKLENIYOR", "SERBEST_BIRAKILDI",
             "IPTAL_EDILDI", "ITIRAZ_SURECINDE"}
Tiers == {"none", "low", "medium", "high"}

Row == [status : Statuses, completed : Nat, sent : Nat, released : Int,
        review : BOOLEAN, tier : Tiers]

NewRow == [status |-> "BEKLEMEDE", completed |-> 0, sent |-> 0, released |-> 0,
           review |-> FALSE, tier |-> "none"]

Wallet == [available : Int, escrow : Int, pending : Int]

-----------------------------------------------------------------------------
(* The writes an operation is made of. *)

LockFunds(n) == [do |-> "lock", n |-> n]                \* walletService.lockEscrow
Insert == [do |-> "insert"]                             \* escrowRepo.save of a new row
Save(row) == [do |-> "save", row |-> row]               \* escrowRepo.save of a read row
Release(n) == [do |-> "release", n |-> n]               \* walletService.releaseEscrow
Confirm(n) == [do |-> "confirm", n |-> n]               \* walletService.confirmRelease
CreditCarrier(n) == [do |-> "creditCarrier", n |-> n]   \* walletService.credit
CreditShipper(n) == [do |-> "creditShipper", n |-> n]
Dispute(status) == [do |-> "dispute", status |-> status]  \* disputeRepo.save

Writes ==
  [do : {"lock", "release", "confirm", "creditCarrier", "creditShipper"}, n : Int]
  \cup [do : {"insert"}] \cup [do : {"save"}, row : Row]
  \cup [do : {"dispute"}, status : {"open", "resolved"}]

Operations == {"create", "pickup", "release", "openDispute", "resolve", "autoRefund",
               "transit", "review"}

Job == [op : Operations, e : Escrows, todo : Seq(Writes)]

ASSUME IdleAssumption == NoJob \notin Job

IsMilestone(e) == Len(Shares[e]) > 0

(* milestonePercentages?.[i] ?? 100 / totalMilestones *)
Share(e, i) == IF i \in DOMAIN Shares[e] THEN Shares[e][i] ELSE Price[e] \div Len(Shares[e])

(* Mutant: the release is never confirmed. *)
PayUnconfirmed(n) == <<Release(n)>>

Pay(n) == <<Release(n), Confirm(n)>>
PayRest(n) == IF n > 0 THEN Pay(n) ELSE << >>

SingleRelease(e, row) ==
  <<Save([row EXCEPT !.status = "TESLIMAT_BEKLENIYOR"])>>
  \o Pay(Price[e])
  \o <<Save([row EXCEPT !.status = "SERBEST_BIRAKILDI", !.released = @ + Price[e]])>>

(* Mutant: the milestone is booked before it is paid. *)
MilestoneBookedFirst(e, row) ==
  LET n == Share(e, row.completed + 1)
      next == [row EXCEPT !.completed = @ + 1, !.sent = @ + n]
  IN  IF next.completed < Len(Shares[e])
      THEN <<Save([next EXCEPT !.status = "BLOKEDE"])>> \o Pay(n)
      ELSE Pay(n) \o PayRest(Price[e] - next.sent)
           \o <<Save([next EXCEPT !.status = "SERBEST_BIRAKILDI", !.released = @ + Price[e]])>>

MilestoneRelease(e, row) ==
  LET n == Share(e, row.completed + 1)
      next == [row EXCEPT !.completed = @ + 1, !.sent = @ + n]
  IN  Pay(n) \o
      IF next.completed < Len(Shares[e])
      THEN <<Save([next EXCEPT !.status = "BLOKEDE"])>>
      ELSE PayRest(Price[e] - next.sent)
           \o <<Save([next EXCEPT !.status = "SERBEST_BIRAKILDI", !.released = @ + Price[e]])>>

(* The assessment is saved first, then acted upon. *)
Assessed(e, row) ==
  <<Save(row)>> \o
  CASE row.tier = "high"   -> <<Save([row EXCEPT !.status = "ITIRAZ_SURECINDE"])>>
    [] row.tier = "medium" -> <<Save([row EXCEPT !.status = "BLOKEDE", !.review = TRUE])>>
    [] OTHER -> IF IsMilestone(e) THEN MilestoneRelease(e, row) ELSE SingleRelease(e, row)

Resolution(e, row, kind, refund) ==
  <<Dispute("resolved")>> \o
  CASE kind = "full_refund" ->
         <<CreditShipper(Price[e]), Save([row EXCEPT !.status = "IPTAL_EDILDI"])>>
    [] kind = "partial_refund" ->
         <<CreditShipper(refund), CreditCarrier(Price[e] - refund),
           Save([row EXCEPT !.status = "SERBEST_BIRAKILDI", !.released = Price[e] - refund])>>
    [] kind = "release" ->
         <<CreditCarrier(Price[e]),
           Save([row EXCEPT !.status = "SERBEST_BIRAKILDI", !.released = Price[e]])>>

Reviewed(e, row, decision) ==
  LET rest == IF IsMilestone(e) THEN Price[e] - row.sent ELSE Price[e]
  IN  CASE decision = "approve" ->
             PayRest(rest) \o <<Save([row EXCEPT !.status = "SERBEST_BIRAKILDI",
                                                 !.released = @ + rest, !.review = FALSE])>>
        [] decision = "reject" ->
             <<CreditShipper(Price[e]),
               Save([row EXCEPT !.status = "IPTAL_EDILDI", !.review = FALSE])>>
        [] decision = "flag_for_dispute" ->
             <<Save([row EXCEPT !.status = "ITIRAZ_SURECINDE", !.review = FALSE])>>

-----------------------------------------------------------------------------

Init ==
  /\ escrow = [e \in Escrows |-> NoRow]
  /\ dispute = [e \in Escrows |-> "none"]
  /\ shipper = [available |-> Deposit, escrow |-> 0, pending |-> 0]
  /\ carrier = [available |-> 0, escrow |-> 0, pending |-> 0]
  /\ job = [h \in Handlers |-> NoJob]
  /\ ops = 0
  /\ locked = [e \in Escrows |-> 0]
  /\ paid = [e \in Escrows |-> 0]
  /\ refunded = [e \in Escrows |-> 0]
  /\ broken = FALSE

(* A handler takes up operation op on e, having read what it needs. *)
Take(h, op, e, todo) ==
  /\ job[h] = NoJob
  /\ ops < MaxOps
  /\ job' = [job EXCEPT ![h] = [op |-> op, e |-> e, todo |-> todo]]
  /\ ops' = ops + 1
  /\ UNCHANGED <<escrow, dispute, shipper, carrier, books, broken>>

(* Mutant: the row is saved before the funds are locked. *)
CreateEscrowFirst(h, e) ==
  /\ escrow[e] = NoRow
  /\ Take(h, "create", e, <<Insert, LockFunds(Price[e])>>)

(* The idempotency key is looked up before the funds are locked. *)
CreateEscrow(h, e) ==
  /\ escrow[e] = NoRow
  /\ Take(h, "create", e, <<LockFunds(Price[e]), Insert>>)

ConfirmPickup(h, e) ==
  /\ escrow[e] # NoRow
  /\ escrow[e].status = "BEKLEMEDE"
  /\ Take(h, "pickup", e, <<Save([escrow[e] EXCEPT !.status = "BLOKEDE"])>>)

(* Called by the release endpoint, by a delivery or milestone scan and by  *)
(* the listener of the delivery event; the tier is the fraud assessment's. *)
ReleasePayment(h, e) ==
  /\ escrow[e] # NoRow
  /\ \E tier \in {"low", "medium", "high"} :
       Take(h, "release", e, Assessed(e, [escrow[e] EXCEPT !.tier = tier]))

OpenDispute(h, e) ==
  /\ escrow[e] # NoRow
  /\ Take(h, "openDispute", e,
          <<Save([escrow[e] EXCEPT !.status = "ITIRAZ_SURECINDE"]), Dispute("open")>>)

(* The dispute's own status is not looked at.  A refund above the amount   *)
(* is left out: it would credit the carrier with a negative amount.        *)
ResolveDispute(h, e) ==
  /\ dispute[e] # "none"
  /\ escrow[e] # NoRow
  /\ \E kind \in {"full_refund", "partial_refund", "release"}, refund \in 1 .. Price[e] :
       Take(h, "resolve", e, Resolution(e, escrow[e], kind, refund))

(* Mutant: the row is saved before the refund. *)
AutoRefundSavedFirst(h, e) ==
  /\ escrow[e] # NoRow
  /\ IsMilestone(e)
  /\ escrow[e].status \in {"BEKLEMEDE", "BLOKEDE"}
  /\ Take(h, "autoRefund", e,
          <<Save([escrow[e] EXCEPT !.status = "IPTAL_EDILDI"]), CreditShipper(Price[e])>>)

(* updatedAt plus the timeout may have passed at any time. *)
AutoRefundExpiredMilestones(h, e) ==
  /\ escrow[e] # NoRow
  /\ IsMilestone(e)
  /\ escrow[e].status \in {"BEKLEMEDE", "BLOKEDE"}
  /\ Take(h, "autoRefund", e,
          <<CreditShipper(Price[e]), Save([escrow[e] EXCEPT !.status = "IPTAL_EDILDI"])>>)

(* A TRANSIT scan saves the row to store the scan's data. *)
TransitScan(h, e) ==
  /\ escrow[e] # NoRow
  /\ Take(h, "transit", e, <<Save(escrow[e])>>)

ReviewFraudCase(h, e) ==
  /\ escrow[e] # NoRow
  /\ escrow[e].review \/ escrow[e].tier \in {"medium", "high"}
  /\ \E decision \in {"approve", "reject", "flag_for_dispute"} :
       Take(h, "review", e, Reviewed(e, escrow[e], decision))

-----------------------------------------------------------------------------
(* The writes. *)

Doing(h, what) == job[h] # NoJob /\ Head(job[h].todo).do = what
Amount(h) == Head(job[h].todo).n

(* Mutant: the handler does not answer after the last write. *)
AdvanceForever(h) ==
  /\ job' = [job EXCEPT ![h].todo = Tail(@)]
  /\ UNCHANGED <<ops, broken>>

(* The write is done; the handler goes on, or answers after the last one. *)
Advance(h) ==
  LET rest == Tail(job[h].todo) IN
  /\ job' = [job EXCEPT ![h] = IF rest = << >> THEN NoJob ELSE [job[h] EXCEPT !.todo = rest]]
  /\ UNCHANGED <<ops, broken>>

(* The write throws, and the writes after it are never made. *)
Drop(h) ==
  /\ job' = [job EXCEPT ![h] = NoJob]
  /\ UNCHANGED <<escrow, dispute, shipper, carrier, ops, books>>

DoLock(h) ==
  LET n == Amount(h) IN
  /\ Doing(h, "lock")
  /\ shipper.available >= n
  /\ shipper' = [shipper EXCEPT !.available = @ - n, !.escrow = @ + n]
  /\ locked' = [locked EXCEPT ![job[h].e] = @ + n]
  /\ Advance(h)
  /\ UNCHANGED <<escrow, dispute, carrier, paid, refunded>>

LockRefused(h) ==
  /\ Doing(h, "lock")
  /\ shipper.available < Amount(h)
  /\ Drop(h)
  /\ UNCHANGED broken

DoInsert(h) ==
  /\ Doing(h, "insert")
  /\ escrow[job[h].e] = NoRow
  /\ escrow' = [escrow EXCEPT ![job[h].e] = NewRow]
  /\ Advance(h)
  /\ UNCHANGED <<dispute, shipper, carrier, books>>

(* The unique index on idempotencyKey: another handler inserted the row. *)
InsertDuplicate(h) ==
  /\ Doing(h, "insert")
  /\ escrow[job[h].e] # NoRow
  /\ Drop(h)
  /\ UNCHANGED broken

DoSave(h) ==
  /\ Doing(h, "save")
  /\ escrow' = [escrow EXCEPT ![job[h].e] = Head(job[h].todo).row]
  /\ Advance(h)
  /\ UNCHANGED <<dispute, shipper, carrier, books>>

(* The funds were locked in the shipper's wallet; the carrier's is debited. *)
DoRelease(h) ==
  LET n == Amount(h) IN
  /\ Doing(h, "release")
  /\ carrier' = [carrier EXCEPT !.escrow = @ - n, !.pending = @ + n]
  /\ Advance(h)
  /\ UNCHANGED <<escrow, dispute, shipper, books>>

DoConfirm(h) ==
  LET n == Amount(h) IN
  /\ Doing(h, "confirm")
  /\ carrier' = [carrier EXCEPT !.pending = @ - n, !.available = @ + n]
  /\ paid' = [paid EXCEPT ![job[h].e] = @ + n]
  /\ Advance(h)
  /\ UNCHANGED <<escrow, dispute, shipper, locked, refunded>>

DoCreditCarrier(h) ==
  LET n == Amount(h) IN
  /\ Doing(h, "creditCarrier")
  /\ carrier' = [carrier EXCEPT !.available = @ + n]
  /\ paid' = [paid EXCEPT ![job[h].e] = @ + n]
  /\ Advance(h)
  /\ UNCHANGED <<escrow, dispute, shipper, locked, refunded>>

DoCreditShipper(h) ==
  LET n == Amount(h) IN
  /\ Doing(h, "creditShipper")
  /\ shipper' = [shipper EXCEPT !.available = @ + n]
  /\ refunded' = [refunded EXCEPT ![job[h].e] = @ + n]
  /\ Advance(h)
  /\ UNCHANGED <<escrow, dispute, carrier, locked, paid>>

DoDispute(h) ==
  /\ Doing(h, "dispute")
  /\ dispute' = [dispute EXCEPT ![job[h].e] = Head(job[h].todo).status]
  /\ Advance(h)
  /\ UNCHANGED <<escrow, shipper, carrier, books>>

(* An exception, a lost connection or a crash between two writes. *)
Break(h) ==
  /\ job[h] # NoJob
  /\ Drop(h)
  /\ broken' = TRUE

Begin(h, e) ==
  \/ CreateEscrow(h, e)
  \/ ConfirmPickup(h, e)
  \/ ReleasePayment(h, e)
  \/ OpenDispute(h, e)
  \/ ResolveDispute(h, e)
  \/ AutoRefundExpiredMilestones(h, e)
  \/ TransitScan(h, e)
  \/ ReviewFraudCase(h, e)

Write(h) ==
  \/ DoLock(h) \/ LockRefused(h)
  \/ DoInsert(h) \/ InsertDuplicate(h)
  \/ DoSave(h)
  \/ DoRelease(h) \/ DoConfirm(h)
  \/ DoCreditCarrier(h) \/ DoCreditShipper(h)
  \/ DoDispute(h)

Next == \E h \in Handlers : (\E e \in Escrows : Begin(h, e)) \/ Write(h) \/ Break(h)

Spec == Init /\ [][Next]_vars

-----------------------------------------------------------------------------

(* Type invariant: rows, wallets and the writes each handler has left. *)
TypeOK ==
  /\ escrow \in [Escrows -> Row \cup {NoRow}]
  /\ dispute \in [Escrows -> {"none", "open", "resolved"}]
  /\ shipper \in Wallet
  /\ carrier \in Wallet
  /\ job \in [Handlers -> Job \cup {NoJob}]
  /\ \A h \in Handlers : job[h] # NoJob => job[h].todo # << >>
  /\ ops \in Nat
  /\ locked \in [Escrows -> Nat]
  /\ paid \in [Escrows -> Nat]
  /\ refunded \in [Escrows -> Nat]
  /\ broken \in BOOLEAN

(* "Tum odemeler escrow hesapta tutulur": no escrow row exists before its  *)
(* amount was locked in the shipper's wallet, whichever of the handlers    *)
(* that raced to create it won, and whatever failed between.               *)
EscrowRowsAreFunded == \A e \in Escrows : escrow[e] # NoRow => locked[e] >= Price[e]

(* A row never says SERBEST_BIRAKILDI or IPTAL_EDILDI before the money has *)
(* moved: stale saves, races and failures may pay twice, but never leave a *)
(* settled row unpaid.                                                     *)
SettledMeansPaid ==
  \A e \in Escrows :
    escrow[e] # NoRow =>
      /\ escrow[e].status = "SERBEST_BIRAKILDI" => paid[e] + refunded[e] >= Price[e]
      /\ escrow[e].status = "IPTAL_EDILDI" => refunded[e] >= Price[e]

(* milestoneReleasedAmount, from which the last milestone and the fraud    *)
(* review compute what is left to pay, never runs ahead of the payments.   *)
MilestonesArePaid == \A e \in Escrows : escrow[e] # NoRow => escrow[e].sent <= paid[e]

(* releaseEscrow and confirmRelease come in pairs: once no operation is    *)
(* running, nothing is left in the carrier's pendingRelease, unless one    *)
(* broke between the two.                                                  *)
PendingDrains == (\A h \in Handlers : job[h] = NoJob) /\ ~broken => carrier.pending = 0

-----------------------------------------------------------------------------

(* "duplicate payment -> idempotent reject": an escrow pays out and        *)
(* refunds, together, no more than its amount.                             *)
NeverOverpaid == \A e \in Escrows : paid[e] + refunded[e] <= Price[e]
=============================================================================
