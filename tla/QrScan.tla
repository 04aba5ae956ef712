-------------------------------- MODULE QrScan --------------------------------
(***************************************************************************)
(* qr/qr.service.ts: the codes that are scanned at the checkpoints of a    *)
(* load, and what a scan does to its escrow (EscrowService.processQrScan). *)
(* It is the other way, beside a signed delivery, by which an escrow is    *)
(* paid without a person deciding so.                                      *)
(*                                                                         *)
(* validateQR reads the code, rejects one that is used, has expired, or is *)
(* scanned in the wrong place, saves the code as used, and only then turns *)
(* to the escrow.  Any code may be rejected at any time, so a rejected     *)
(* scan, which stores no more than an audit row, is no step here.  What    *)
(* the escrow throws is swallowed, and the code stays used.                *)
(***************************************************************************)
EXTENDS DeliveryRelease

CONSTANTS
  Codes,      \* codes that may be generated
  NoCode,     \* the code is not generated yet
  Overlap     \* bound: scans of one code under way at a time

Checkpoints == {"pickup", "transit", "delivery", "milestone"}

ASSUME OverlapAssumption == Overlap \in Nat

VARIABLES
  code,     \* rows of `qr_codes`
  scans     \* scans[q]: scans of q under way, by what they do next

qrVars == <<code, scans>>
allVars == <<deliveryVars, qrVars>>

Code == [e : Escrows, checkpoint : Checkpoints, used : BOOLEAN]
ASSUME MarkerAssumption == NoCode \notin Code

QrInit ==
  /\ DeliveryInit
  /\ code = [q \in Codes |-> NoCode]
  /\ scans = [q \in Codes |-> [save |-> 0, process |-> 0]]

-----------------------------------------------------------------------------

(* By the endpoint, or by the listener of `escrow.created` for a pickup.   *)
GenerateQR(q, e, checkpoint) ==
  /\ code[q] = NoCode
  /\ code' = [code EXCEPT ![q] = [e |-> e, checkpoint |-> checkpoint, used |-> FALSE]]
  /\ UNCHANGED <<deliveryVars, scans>>

(* validateQR finds the code unused, and everything else about it right. *)
CheckCode(q) ==
  /\ code[q] # NoCode
  /\ ~code[q].used
  /\ scans[q].save + scans[q].process < Overlap
  /\ scans' = [scans EXCEPT ![q].save = @ + 1]
  /\ UNCHANGED <<deliveryVars, code>>

(* Mutant: the escrow is processed, and the code left as it was. *)
SaveUsedNever(q) ==
  /\ scans[q].save > 0
  /\ scans' = [scans EXCEPT ![q].save = @ - 1, ![q].process = @ + 1]
  /\ UNCHANGED <<deliveryVars, code>>

(* A scan that dies before this leaves the code unused, one that dies      *)
(* after it leaves it used: neither takes another step.                    *)
SaveUsed(q) ==
  /\ scans[q].save > 0
  /\ code' = [code EXCEPT ![q].used = TRUE]
  /\ scans' = [scans EXCEPT ![q].save = @ - 1, ![q].process = @ + 1]
  /\ UNCHANGED deliveryVars

OpenMilestone(e) ==
  escrow[e] # NoRow /\ IsMilestone(e) /\ escrow[e].completed < Len(Shares[e])

(* The escrow's part of a scan, as the operation it amounts to. *)
Checkpointed(h, c) ==
  CASE c.checkpoint = "pickup"    -> ConfirmPickup(h, c.e)
    [] c.checkpoint = "transit"   -> TransitScan(h, c.e)
    [] c.checkpoint = "delivery"  -> ReleasePayment(h, c.e)
    [] c.checkpoint = "milestone" -> OpenMilestone(c.e) /\ ReleasePayment(h, c.e)

(* No row, a row past its pickup, or no milestone left: nothing to do. *)
Ineffective(c) ==
  escrow[c.e] # NoRow =>
    \/ c.checkpoint = "pickup" /\ escrow[c.e].status # "BEKLEMEDE"
    \/ c.checkpoint = "milestone" /\ ~OpenMilestone(c.e)

ProcessQrScan(q) ==
  /\ scans[q].process > 0
  /\ scans' = [scans EXCEPT ![q].process = @ - 1]
  /\ \/ \E h \in Handlers : Checkpointed(h, code[q])
     \/ Ineffective(code[q]) /\ UNCHANGED vars
  /\ UNCHANGED <<podVars, code>>

-----------------------------------------------------------------------------

Scan(q) == CheckCode(q) \/ SaveUsed(q) \/ ProcessQrScan(q)

QrNext ==
  \/ DeliveryNext /\ UNCHANGED qrVars
  \/ \E q \in Codes, e \in Escrows, c \in Checkpoints : GenerateQR(q, e, c)
  \/ \E q \in Codes : Scan(q)

QrSpec == QrInit /\ [][QrNext]_allVars

-----------------------------------------------------------------------------

(* Type invariant, with DeliveryRelease's. *)
QrTypeOK ==
  /\ DeliveryTypeOK
  /\ code \in [Codes -> Code \cup {NoCode}]
  /\ scans \in [Codes -> [save : Nat, process : Nat]]
  /\ \A q \in Codes :
       /\ scans[q].save + scans[q].process <= Overlap
       /\ scans[q].save + scans[q].process > 0 => code[q] # NoCode

(* Codes of e that were scanned where their scan pays. *)
PayingCodes(e) ==
  {q \in Codes : /\ code[q] # NoCode
                 /\ code[q].used
                 /\ code[q].e = e
                 /\ code[q].checkpoint \in {"delivery", "milestone"}}

(* "Sadece dogrulanmis teslimat sonrasi release edilir": no money reaches  *)
(* the carrier before the load is marked as delivered or a code of its     *)
(* delivery is used up, whatever dies between the steps of either way.     *)
PaidOnEvidence == \A e \in Escrows : paid[e] > 0 => e \in delivered \/ PayingCodes(e) # {}

(* What all the ways to be paid may pay together: quick pay its payout     *)
(* once, however often the delivery is announced, the release the amount   *)
(* once for each announcement, and a code once for each scan of it that    *)
(* overlaps the first: one that starts later finds it used.                *)
PaidPerEvidence ==
  \A e \in Escrows :
    paid[e] <= Price[e] * (announced[e] + Cardinality(PayingCodes(e)) * Overlap)
                 + IF e \in quickPaid THEN Payout(e) ELSE 0
=============================================================================
