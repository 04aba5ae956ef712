--------------------------- MODULE DeliveryRelease ---------------------------
(***************************************************************************)
(* What a signed delivery sets off: pod/pod.service.ts marks the load as   *)
(* delivered and emits `delivery.completed.verified`, and two listeners    *)
(* hear it, EscrowService.handleDeliveryCompletedVerified and              *)
(* PaymentGatewayService.handleQuickPay.  EventEmitter2 starts both        *)
(* without waiting for either, so they run concurrently with each other    *)
(* and with everything else; an invocation that throws is not repeated.    *)
(*                                                                         *)
(* The escrow's own operations and writes are those of EscrowService.  The *)
(* load of an escrow is named by the escrow.                               *)
(***************************************************************************)
EXTENDS EscrowService, FiniteSetsExt

CONSTANTS
  MaxSignatures,   \* bound: signatures saved in a behaviour
  QuickPay,        \* QUICK_PAY_ENABLED
  Commission       \* Commission[e]: what quick pay keeps of e's amount

ASSUME QuickPayAssumption ==
  /\ QuickPay \in BOOLEAN
  /\ Commission \in [Escrows -> Nat]
  /\ MaxSignatures \in Nat

VARIABLES
  delivered,    \* loads with status TESLIM_EDILDI
  signing,      \* signing[e]: signatures of e under way, by what they do next
  signatures,   \* signatures saved
  heard,        \* heard[e]: invocations of each listener under way
  announced,    \* history: announced[e]: times the delivery of e was announced
  quickPaid     \* escrows with a ledger row of key quick_pay_<id>

podVars == <<delivered, signing, signatures, heard, announced, quickPaid>>
deliveryVars == <<vars, podVars>>

Listening == {"escrow", "release", "quickPay"}

DeliveryInit ==
  /\ Init
  /\ delivered = {}
  /\ signing = [e \in Escrows |-> [mark |-> 0, emit |-> 0]]
  /\ signatures = 0
  /\ heard = [e \in Escrows |-> [l \in Listening |-> 0]]
  /\ announced = [e \in Escrows |-> 0]
  /\ quickPaid = {}

-----------------------------------------------------------------------------
(* PodService.saveSignature and checkDeliveryCompletion *)

(* Mutant: the event is emitted before the load is marked. *)
SaveSignatureEmitFirst(e) ==
  /\ signatures < MaxSignatures
  /\ signatures' = signatures + 1
  /\ signing' = [signing EXCEPT ![e].emit = @ + 1]
  /\ UNCHANGED <<vars, delivered, heard, announced, quickPaid>>

(* The signature is saved, then the load is read: a delivered one is done. *)
SaveSignature(e) ==
  /\ signatures < MaxSignatures
  /\ signatures' = signatures + 1
  /\ signing' = IF e \in delivered THEN signing ELSE [signing EXCEPT ![e].mark = @ + 1]
  /\ UNCHANGED <<vars, delivered, heard, announced, quickPaid>>

MarkDelivered(e) ==
  /\ signing[e].mark > 0
  /\ delivered' = delivered \cup {e}
  /\ signing' = [signing EXCEPT ![e].mark = @ - 1, ![e].emit = @ + 1]
  /\ UNCHANGED <<vars, signatures, heard, announced, quickPaid>>

(* The event reaches both listeners at once. *)
EmitVerified(e) ==
  /\ signing[e].emit > 0
  /\ heard' = [heard EXCEPT ![e].escrow = @ + 1,
                            ![e].quickPay = @ + IF QuickPay THEN 1 ELSE 0]
  /\ announced' = [announced EXCEPT ![e] = @ + 1]
  /\ signing' = [signing EXCEPT ![e].emit = @ - 1]
  /\ UNCHANGED <<vars, delivered, signatures, quickPaid>>

(* The process dies before the save, or between the save and the event. *)
SignerDies(e) ==
  /\ \E at \in {"mark", "emit"} :
       /\ signing[e][at] > 0
       /\ signing' = [signing EXCEPT ![e][at] = @ - 1]
  /\ broken' = TRUE
  /\ UNCHANGED <<escrow, dispute, shipper, carrier, job, ops, books>>
  /\ UNCHANGED <<delivered, signatures, heard, announced, quickPaid>>

(* saveDamageReport opens a dispute and leaves the escrow's status alone.  *)
SaveDamageReport(h, e) ==
  /\ escrow[e] # NoRow
  /\ Take(h, "damage", e, <<Dispute("open")>>)

-----------------------------------------------------------------------------
(* The listeners *)

Blocked(e) == escrow[e] # NoRow /\ escrow[e].status = "BLOKEDE"

(* handleDeliveryCompletedVerified looks for a blocked escrow, ... *)
FindBlocked(e) ==
  /\ heard[e].escrow > 0
  /\ heard' = [heard EXCEPT ![e].escrow = @ - 1,
                            ![e].release = @ + IF Blocked(e) THEN 1 ELSE 0]
  /\ UNCHANGED <<vars, delivered, signing, signatures, announced, quickPaid>>

(* Mutant: the event is not taken off, and is handled again. *)
ReleaseOnDeliveryAgain(h, e) ==
  /\ heard[e].release > 0
  /\ ReleasePayment(h, e)
  /\ UNCHANGED podVars

(* ... and releasePayment reads the row again, whatever it has become. *)
ReleaseOnDelivery(h, e) ==
  /\ heard[e].release > 0
  /\ heard' = [heard EXCEPT ![e].release = @ - 1]
  /\ ReleasePayment(h, e)
  /\ UNCHANGED <<delivered, signing, signatures, announced, quickPaid>>

Payout(e) == Price[e] - Commission[e]

QuickConfirm(n) == [do |-> "quickConfirm", n |-> n]   \* confirmRelease, key quick_pay_<id>

(* The row is settled before the money moves, and nothing was released. *)
HandleQuickPay(h, e) ==
  /\ heard[e].quickPay > 0
  /\ heard' = [heard EXCEPT ![e].quickPay = @ - 1]
  /\ IF Blocked(e)
     THEN Take(h, "quickPay", e,
               <<Save([escrow[e] EXCEPT !.status = "SERBEST_BIRAKILDI", !.released = Payout(e)]),
                 QuickConfirm(Payout(e))>>)
     ELSE UNCHANGED vars
  /\ UNCHANGED <<delivered, signing, signatures, announced, quickPaid>>

(* Mutant: confirmRelease is called without an idempotency key. *)
DoQuickConfirmUnkeyed(h) ==
  /\ Doing(h, "quickConfirm")
  /\ carrier' = [carrier EXCEPT !.pending = @ - Amount(h), !.available = @ + Amount(h)]
  /\ paid' = [paid EXCEPT ![job[h].e] = @ + Amount(h)]
  /\ quickPaid' = quickPaid \cup {job[h].e}
  /\ Advance(h)
  /\ UNCHANGED <<escrow, dispute, shipper, locked, refunded>>
  /\ UNCHANGED <<delivered, signing, signatures, heard, announced>>

(* confirmRelease finds the ledger row of an earlier payout, or writes it. *)
DoQuickConfirm(h) ==
  LET n == Amount(h)
      e == job[h].e
      moved == IF e \in quickPaid THEN 0 ELSE n
  IN
  /\ Doing(h, "quickConfirm")
  /\ carrier' = [carrier EXCEPT !.pending = @ - moved, !.available = @ + moved]
  /\ paid' = [paid EXCEPT ![e] = @ + moved]
  /\ quickPaid' = quickPaid \cup {e}
  /\ Advance(h)
  /\ UNCHANGED <<escrow, dispute, shipper, locked, refunded>>
  /\ UNCHANGED <<delivered, signing, signatures, heard, announced>>

-----------------------------------------------------------------------------

(* The escrow is made and picked up; no one calls the release endpoint.    *)
Escrowed(h) ==
  /\ \/ \E e \in Escrows : CreateEscrow(h, e) \/ ConfirmPickup(h, e)
     \/ \E e \in Escrows : OpenDispute(h, e) \/ SaveDamageReport(h, e)
     \/ Write(h)
     \/ Break(h)
  /\ UNCHANGED podVars

Listen(e) ==
  \/ FindBlocked(e)
  \/ \E h \in Handlers : ReleaseOnDelivery(h, e) \/ HandleQuickPay(h, e)

Sign(e) == MarkDelivered(e) \/ EmitVerified(e)

DeliveryNext ==
  \/ \E h \in Handlers : Escrowed(h) \/ DoQuickConfirm(h)
  \/ \E e \in Escrows : SaveSignature(e) \/ Sign(e) \/ SignerDies(e) \/ Listen(e)

-----------------------------------------------------------------------------

(* Type invariant, with the write that quick pay adds to EscrowService's.  *)
DeliveryTypeOK ==
  /\ escrow \in [Escrows -> Row \cup {NoRow}]
  /\ \A h \in Handlers :
       job[h] # NoJob =>
         /\ job[h].op \in Operations \cup {"quickPay", "damage"}
         /\ job[h].todo \in Seq(Writes \cup [do : {"quickConfirm"}, n : Int]) \ {<< >>}
  /\ delivered \subseteq Escrows
  /\ signing \in [Escrows -> [mark : Nat, emit : Nat]]
  /\ signatures \in 0 .. MaxSignatures
  /\ heard \in [Escrows -> [Listening -> Nat]]
  /\ announced \in [Escrows -> Nat]
  /\ quickPaid \subseteq Escrows

(* Quick pay confirms what was never released, so pendingRelease goes      *)
(* below zero, but only by one payout for an escrow: the key               *)
(* quick_pay_<id> keeps a second announcement from taking it again.        *)
QuickPaysOnce == carrier.pending >= -MapThenSumSet(Payout, quickPaid)
=============================================================================
