----------------------------- MODULE QrScanProofs -----------------------------
(***************************************************************************)
(* Theorems about QrScan, and so about DeliveryRelease and EscrowService   *)
(* together, for any escrows, prices and milestones, any codes, and any    *)
(* number of signatures, scans and handlers.                               *)
(*                                                                         *)
(* Evidence of a delivery is looked for once, when an announcement or a    *)
(* scan is begun, and the money moves many steps later.  So the first      *)
(* invariant follows it from place to place: the announcement that is to   *)
(* be made, the listeners that have heard it, the scan that has saved its  *)
(* code, and the lists of writes that pay.  The others add up what is      *)
(* under way: what quick pay has taken out of pendingRelease, and how much *)
(* the releases that have begun, or still may, can pay for an escrow.      *)
(***************************************************************************)
EXTENDS QrScan, EscrowServiceProofs

-----------------------------------------------------------------------------
(* The strengthening. *)

Evidence(e) == e \in delivered \/ PayingCodes(e) # {}

Pays(w) == w.do \in {"confirm", "creditCarrier", "quickConfirm"}

Elements(todo) == {todo[i] : i \in 1 .. Len(todo)}

(* A list of writes none of which pays. *)
Unpaying(todo) ==
  /\ todo # << >>
  /\ todo \in Seq(Elements(todo))
  /\ \A i \in 1 .. Len(todo) : ~Pays(todo[i])

JobsEvidenced ==
  \A h \in Handlers, e \in Escrows :
    job[h] # NoJob /\ job[h].e = e => Unpaying(job[h].todo) \/ Evidence(e)

AnnouncedIsDelivered ==
  \A e \in Escrows :
    signing[e].emit > 0 \/ (\E l \in Listening : heard[e][l] > 0) => e \in delivered

ScannedIsUsed ==
  \A q \in Codes :
    /\ scans[q].save > 0 \/ scans[q].process > 0 => code[q] # NoCode
    /\ scans[q].process > 0 => code[q].used

JobsTyped ==
  /\ job = [h \in Handlers |-> job[h]]
  /\ \A h \in Handlers :
       job[h] # NoJob => job[h] = [op |-> job[h].op, e |-> job[h].e, todo |-> job[h].todo]

PaidTyped == paid = [e \in Escrows |-> paid[e]]

DeliveryTyped ==
  /\ signing \in [Escrows -> [mark : Nat, emit : Nat]]
  /\ heard = [e \in Escrows |-> heard[e]]

CodesTyped ==
  /\ code \in [Codes -> Code \cup {NoCode}]
  /\ scans \in [Codes -> [save : Nat, process : Nat]]

PaymentsRight == PaidTyped /\ PaidOnEvidence /\ JobsTyped /\ JobsEvidenced
AnnouncementsRight == DeliveryTyped /\ AnnouncedIsDelivered
CodesRight == CodesTyped /\ ScannedIsUsed

Evidenced == PaymentsRight /\ AnnouncementsRight /\ CodesRight

-----------------------------------------------------------------------------
(* Lists of writes. *)

(* The lists that the operations which do not pay begin with. *)
LEMMA ListsUnpaying ==
  ASSUME NEW a, NEW b, ~Pays(a), ~Pays(b)
  PROVE  Unpaying(<<a>>) /\ Unpaying(<<a, b>>)
<1>1. Unpaying(<<a>>)
  BY DEF Unpaying, Elements
<1>2. Unpaying(<<a, b>>)
  <2>1. /\ Len(<<a, b>>) = 2 /\ <<a, b>>[1] = a /\ <<a, b>>[2] = b
    OBVIOUS
  <2>2. a \in Elements(<<a, b>>) /\ b \in Elements(<<a, b>>)
    BY <2>1 DEF Elements
  <2>3. <<a, b>> \in Seq(Elements(<<a, b>>))
    BY <2>2
  <2> QED
    BY <2>1, <2>3 DEF Unpaying
<1> QED
  BY <1>1, <1>2

(* The first write of an unpaying list does not pay, nor do the others. *)
LEMMA TailUnpaying ==
  ASSUME NEW todo, Unpaying(todo)
  PROVE  ~Pays(Head(todo)) /\ (Tail(todo) # << >> => Unpaying(Tail(todo)))
<1> DEFINE rest == Tail(todo)
<1>1. todo \in Seq(Elements(todo)) /\ todo # << >> /\ \A i \in 1 .. Len(todo) : ~Pays(todo[i])
  BY DEF Unpaying
<1>2. /\ Head(todo) = todo[1] /\ 1 \in 1 .. Len(todo)
      /\ rest \in Seq(Elements(todo)) /\ Len(rest) = Len(todo) - 1
      /\ Len(todo) \in Nat /\ \A i \in 1 .. Len(rest) : rest[i] = todo[i + 1]
  BY <1>1
<1>3. \A i \in 1 .. Len(rest) : ~Pays(rest[i])
  BY <1>1, <1>2
<1>4. rest \in Seq(Elements(rest))
  <2> HIDE DEF rest
  <2>1. \A i \in 1 .. Len(rest) : rest[i] \in Elements(rest)
    BY DEF Elements
  <2> QED
    BY <1>2, <2>1
<1> QED
  BY <1>1, <1>2, <1>3, <1>4 DEF Unpaying

-----------------------------------------------------------------------------
(* Evidence is never taken back: a load stays delivered, a code used.      *)

CodesStay ==
  \A q \in Codes :
    code[q] # NoCode /\ code[q].used =>
      /\ code'[q] # NoCode
      /\ code'[q].used
      /\ code'[q].e = code[q].e
      /\ code'[q].checkpoint = code[q].checkpoint

(* A step that keeps used codes used keeps what evidence there is.         *)
LEMMA EvidenceGrows ==
  ASSUME delivered \subseteq delivered', CodesStay, NEW e, Evidence(e)
  PROVE  Evidence(e)'
<1>1. CASE e \in delivered
  BY <1>1 DEF Evidence
<1>2. CASE PayingCodes(e) # {}
  <2>1. PICK q \in Codes : q \in PayingCodes(e)
    BY <1>2 DEF PayingCodes
  <2>2. q \in PayingCodes(e)'
    BY <2>1 DEF PayingCodes, CodesStay
  <2> QED
    BY <2>2 DEF Evidence
<1> QED
  BY <1>1, <1>2 DEF Evidence

(* Most steps write no code at all.                                        *)
LEMMA CodesUnchanged == ASSUME UNCHANGED code PROVE CodesStay
BY DEF CodesStay

-----------------------------------------------------------------------------
(* What a handler does to the payments. *)

(* It takes up an operation: one that pays has its evidence already.       *)
LEMMA TakeKeepsEvidence ==
  ASSUME PaymentsRight, delivered \subseteq delivered', CodesStay,
         NEW h \in Handlers, NEW op, NEW e \in Escrows, NEW todo,
         Take(h, op, e, todo), Unpaying(todo) \/ Evidence(e)
  PROVE  PaymentsRight'
<1>1. paid' = paid /\ job' = [job EXCEPT ![h] = [op |-> op, e |-> e, todo |-> todo]]
  BY DEF Take, books
<1>2. PaidTyped'
  BY <1>1 DEF PaidTyped, PaymentsRight
<1>3. PaidOnEvidence'
  <2> SUFFICES ASSUME NEW x \in Escrows, paid'[x] > 0
               PROVE  Evidence(x)'
    BY DEF PaidOnEvidence, Evidence
  <2>1. Evidence(x)
    BY <1>1 DEF PaymentsRight, PaidOnEvidence, Evidence
  <2> QED
    BY <2>1, EvidenceGrows
<1>4. JobsTyped'
  BY <1>1 DEF PaymentsRight, JobsTyped
<1>5. JobsEvidenced'
  <2> SUFFICES ASSUME NEW g \in Handlers, NEW x \in Escrows, job'[g] # NoJob, job'[g].e = x
               PROVE  Unpaying(job'[g].todo) \/ Evidence(x)'
    BY DEF JobsEvidenced
  <2>1. Evidence(x) => Evidence(x)'
    BY EvidenceGrows
  <2>2. CASE g = h
    <3>1. x = e /\ job'[g].todo = todo
      BY <1>1, <2>2 DEF PaymentsRight, JobsTyped
    <3> QED
      BY <2>1, <3>1
  <2>3. CASE g # h
    <3>1. job'[g] = job[g]
      BY <1>1, <2>3 DEF PaymentsRight, JobsTyped
    <3> QED
      BY <2>1, <3>1 DEF PaymentsRight, JobsEvidenced
  <2> QED
    BY <2>2, <2>3
<1> QED
  BY <1>2, <1>3, <1>4, <1>5 DEF PaymentsRight

(* It makes its first write or gives up: it pays only what the write pays. *)
Written(h) ==
  /\ job[h] # NoJob
  /\ \/ job' = [job EXCEPT ![h] = NoJob]
     \/ /\ Tail(job[h].todo) # << >>
        /\ job' = [job EXCEPT ![h] = [job[h] EXCEPT !.todo = Tail(job[h].todo)]]
  /\ \/ paid' = paid
     \/ /\ Pays(Head(job[h].todo))
        /\ \E n : paid' = [paid EXCEPT ![job[h].e] = n]

(* A list that pays has its evidence, so what its write pays has it too.   *)
LEMMA WrittenKeeps ==
  ASSUME PaymentsRight, delivered \subseteq delivered', CodesStay,
         NEW h \in Handlers, Written(h)
  PROVE  PaymentsRight'
<1>1. PaidTyped'
  BY DEF Written, PaidTyped, PaymentsRight
<1>2. PaidOnEvidence'
  <2> SUFFICES ASSUME NEW x \in Escrows, paid'[x] > 0
               PROVE  Evidence(x)'
    BY DEF PaidOnEvidence, Evidence
  <2>1. CASE job[h].e = x /\ Pays(Head(job[h].todo))
    <3>1. Evidence(x)
      BY <2>1, TailUnpaying DEF PaymentsRight, JobsEvidenced, Written
    <3> QED
      BY <3>1, EvidenceGrows
  <2>2. CASE ~(job[h].e = x /\ Pays(Head(job[h].todo)))
    <3>1. paid'[x] = paid[x]
      BY <2>2 DEF Written, PaymentsRight, PaidTyped
    <3>2. Evidence(x)
      BY <3>1 DEF PaymentsRight, PaidOnEvidence, Evidence
    <3> QED
      BY <3>2, EvidenceGrows
  <2> QED
    BY <2>1, <2>2
<1>3. JobsTyped'
  <2>1. job' = [g \in Handlers |-> job'[g]]
    BY DEF Written, PaymentsRight, JobsTyped
  <2>2. \A g \in Handlers : g # h => job'[g] = job[g]
    BY DEF Written, PaymentsRight, JobsTyped
  <2>3. job'[h] # NoJob =>
          job'[h] = [op |-> job[h].op, e |-> job[h].e, todo |-> Tail(job[h].todo)]
    BY DEF Written, PaymentsRight, JobsTyped
  <2> QED
    BY <2>1, <2>2, <2>3 DEF PaymentsRight, JobsTyped
<1>4. JobsEvidenced'
  <2> SUFFICES ASSUME NEW g \in Handlers, NEW x \in Escrows, job'[g] # NoJob, job'[g].e = x
               PROVE  Unpaying(job'[g].todo) \/ Evidence(x)'
    BY DEF JobsEvidenced
  <2>1. Evidence(x) => Evidence(x)'
    BY EvidenceGrows
  <2>2. CASE g = h
    <3>1. /\ job[h] # NoJob /\ job[h].e = x
          /\ job'[h].todo = Tail(job[h].todo) /\ Tail(job[h].todo) # << >>
      BY <2>2 DEF Written, PaymentsRight, JobsTyped
    <3> QED
      BY <2>1, <2>2, <3>1, TailUnpaying DEF PaymentsRight, JobsEvidenced
  <2>3. CASE g # h
    <3>1. job'[g] = job[g]
      BY <2>3 DEF Written, PaymentsRight, JobsTyped
    <3> QED
      BY <2>1, <3>1 DEF PaymentsRight, JobsEvidenced
  <2> QED
    BY <2>2, <2>3
<1> QED
  BY <1>1, <1>2, <1>3, <1>4 DEF PaymentsRight

(* Nothing is done by a handler. *)
LEMMA IdleKeeps ==
  ASSUME PaymentsRight, delivered \subseteq delivered', CodesStay, UNCHANGED <<paid, job>>
  PROVE  PaymentsRight'
<1>1. PaidTyped' /\ JobsTyped'
  BY DEF PaymentsRight, PaidTyped, JobsTyped
<1>2. PaidOnEvidence'
  <2> SUFFICES ASSUME NEW x \in Escrows, paid'[x] > 0
               PROVE  Evidence(x)'
    BY DEF PaidOnEvidence, Evidence
  <2>1. Evidence(x)
    BY DEF PaymentsRight, PaidOnEvidence, Evidence
  <2> QED
    BY <2>1, EvidenceGrows
<1>3. JobsEvidenced'
  <2> SUFFICES ASSUME NEW g \in Handlers, NEW x \in Escrows, job'[g] # NoJob, job'[g].e = x
               PROVE  Unpaying(job'[g].todo) \/ Evidence(x)'
    BY DEF JobsEvidenced
  <2>1. Evidence(x) => Evidence(x)'
    BY EvidenceGrows
  <2> QED
    BY <2>1 DEF PaymentsRight, JobsEvidenced
<1> QED
  BY <1>1, <1>2, <1>3 DEF PaymentsRight

-----------------------------------------------------------------------------
(* The writes. *)

(* The write succeeds, and the handler goes on or answers.                 *)
LEMMA AdvanceIsWritten ==
  ASSUME NEW h, job[h] # NoJob, Advance(h),
         \/ paid' = paid
         \/ Pays(Head(job[h].todo)) /\ \E n : paid' = [paid EXCEPT ![job[h].e] = n]
  PROVE  Written(h)
<1>1. CASE Tail(job[h].todo) = << >>
  <2>1. job' = [job EXCEPT ![h] = NoJob]
    BY <1>1 DEF Advance
  <2> QED
    BY <2>1 DEF Written
<1>2. CASE Tail(job[h].todo) # << >>
  <2>1. job' = [job EXCEPT ![h] = [job[h] EXCEPT !.todo = Tail(job[h].todo)]]
    BY <1>2 DEF Advance
  <2> QED
    BY <1>2, <2>1 DEF Written
<1> QED
  BY <1>1, <1>2

(* The write throws, and nothing is paid.                                  *)
LEMMA DropIsWritten == ASSUME NEW h, job[h] # NoJob, Drop(h) PROVE Written(h)
BY DEF Drop, Written, books

(* Only confirmRelease and the credit of the carrier pay.                  *)
LEMMA WriteIsWritten == ASSUME NEW h, Write(h) PROVE Written(h)
<1>1. CASE DoLock(h)
  BY <1>1, AdvanceIsWritten DEF DoLock, Doing
<1>2. CASE LockRefused(h)
  BY <1>2, DropIsWritten DEF LockRefused, Doing
<1>3. CASE DoInsert(h)
  BY <1>3, AdvanceIsWritten DEF DoInsert, Doing, books
<1>4. CASE InsertDuplicate(h)
  BY <1>4, DropIsWritten DEF InsertDuplicate, Doing
<1>5. CASE DoSave(h)
  BY <1>5, AdvanceIsWritten DEF DoSave, Doing, books
<1>6. CASE DoRelease(h)
  BY <1>6, AdvanceIsWritten DEF DoRelease, Doing, books
<1>7. CASE DoConfirm(h)
  <2>1. Pays(Head(job[h].todo))
    BY <1>7 DEF DoConfirm, Doing, Pays
  <2>2. \E n : paid' = [paid EXCEPT ![job[h].e] = n]
    BY <1>7 DEF DoConfirm
  <2> QED
    BY <1>7, <2>1, <2>2, AdvanceIsWritten DEF DoConfirm, Doing
<1>8. CASE DoCreditCarrier(h)
  <2>1. Pays(Head(job[h].todo))
    BY <1>8 DEF DoCreditCarrier, Doing, Pays
  <2>2. \E n : paid' = [paid EXCEPT ![job[h].e] = n]
    BY <1>8 DEF DoCreditCarrier
  <2> QED
    BY <1>8, <2>1, <2>2, AdvanceIsWritten DEF DoCreditCarrier, Doing
<1>9. CASE DoCreditShipper(h)
  BY <1>9, AdvanceIsWritten DEF DoCreditShipper, Doing
<1>10. CASE DoDispute(h)
  BY <1>10, AdvanceIsWritten DEF DoDispute, Doing, books
<1> QED
  BY <1>1, <1>2, <1>3, <1>4, <1>5, <1>6, <1>7, <1>8, <1>9, <1>10 DEF Write

(* Quick pay's confirmRelease pays as well, when its key is new.           *)
LEMMA QuickConfirmIsWritten == ASSUME NEW h, DoQuickConfirm(h) PROVE Written(h)
<1>1. Pays(Head(job[h].todo))
  BY DEF DoQuickConfirm, Doing, Pays
<1>2. \E n : paid' = [paid EXCEPT ![job[h].e] = n]
  BY DEF DoQuickConfirm
<1> QED
  BY <1>1, <1>2, AdvanceIsWritten DEF DoQuickConfirm, Doing

-----------------------------------------------------------------------------
(* The operations of the escrow that begin with a list that does not pay. *)

(* createEscrow, confirmPickup, openDispute, saveDamageReport, a transit   *)
(* scan: none of them pays.                                                *)
LEMMA UnpayingOperations ==
  ASSUME PaymentsRight, delivered \subseteq delivered', CodesStay,
         NEW h \in Handlers, NEW e \in Escrows,
         \/ CreateEscrow(h, e) \/ ConfirmPickup(h, e) \/ TransitScan(h, e)
         \/ OpenDispute(h, e) \/ SaveDamageReport(h, e)
  PROVE  PaymentsRight'
<1>1. ASSUME NEW n PROVE ~Pays(LockFunds(n))
  BY DEF LockFunds, Pays
<1>2. ~Pays(Insert)
  BY DEF Insert, Pays
<1>3. ASSUME NEW row PROVE ~Pays(Save(row))
  BY DEF Save, Pays
<1>4. ASSUME NEW status PROVE ~Pays(Dispute(status))
  BY DEF Dispute, Pays
<1>5. \E op, todo : Take(h, op, e, todo) /\ Unpaying(todo)
  <2>1. CASE CreateEscrow(h, e)
    BY <1>1, <1>2, <2>1, ListsUnpaying DEF CreateEscrow
  <2>2. CASE ConfirmPickup(h, e)
    BY <1>3, <2>2, ListsUnpaying DEF ConfirmPickup
  <2>3. CASE TransitScan(h, e)
    BY <1>3, <2>3, ListsUnpaying DEF TransitScan
  <2>4. CASE OpenDispute(h, e)
    BY <1>3, <1>4, <2>4, ListsUnpaying DEF OpenDispute
  <2>5. CASE SaveDamageReport(h, e)
    BY <1>4, <2>5, ListsUnpaying DEF SaveDamageReport
  <2> QED
    BY <2>1, <2>2, <2>3, <2>4, <2>5
<1> QED
  BY <1>5, TakeKeepsEvidence

(* Those that pay are begun by who has the evidence. *)
LEMMA PayingOperations ==
  ASSUME PaymentsRight, delivered \subseteq delivered', CodesStay,
         NEW h \in Handlers, NEW e \in Escrows, Evidence(e),
         \/ ReleasePayment(h, e)
         \/ \E todo : Take(h, "quickPay", e, todo)
  PROVE  PaymentsRight'
<1>1. \E op, todo : Take(h, op, e, todo)
  BY DEF ReleasePayment
<1> QED
  BY <1>1, TakeKeepsEvidence

-----------------------------------------------------------------------------
(* The delivery. *)

(* Most steps neither sign nor announce.                                   *)
LEMMA AnnouncementsUnchanged ==
  ASSUME AnnouncementsRight, UNCHANGED <<delivered, signing, heard>>
  PROVE  AnnouncementsRight'
BY DEF AnnouncementsRight, DeliveryTyped, AnnouncedIsDelivered

(* The delivery writes no code.                                            *)
LEMMA CodesKept == ASSUME CodesRight, UNCHANGED qrVars PROVE CodesRight' /\ CodesStay
BY DEF CodesRight, CodesTyped, ScannedIsUsed, qrVars, CodesStay

(* The load is marked before the event is emitted. *)
LEMMA SigningKeeps ==
  ASSUME AnnouncementsRight, NEW e \in Escrows,
         SaveSignature(e) \/ MarkDelivered(e) \/ EmitVerified(e) \/ SignerDies(e)
  PROVE  AnnouncementsRight' /\ delivered \subseteq delivered' /\ UNCHANGED <<paid, job>>
<1>1. /\ signing \in [Escrows -> [mark : Nat, emit : Nat]]
      /\ heard = [x \in Escrows |-> heard[x]]
      /\ \A x \in Escrows :
           signing[x].emit > 0 \/ (\E l \in Listening : heard[x][l] > 0) => x \in delivered
  BY DEF AnnouncementsRight, DeliveryTyped, AnnouncedIsDelivered
<1>2. CASE SaveSignature(e)
  <2>1. /\ signing' \in [Escrows -> [mark : Nat, emit : Nat]]
        /\ \A x \in Escrows : signing'[x].emit = signing[x].emit
    BY <1>1, <1>2 DEF SaveSignature
  <2> QED
    BY <1>1, <1>2, <2>1
       DEF SaveSignature, vars, books, AnnouncementsRight, DeliveryTyped, AnnouncedIsDelivered
<1>3. CASE MarkDelivered(e)
  <2>1. /\ signing' \in [Escrows -> [mark : Nat, emit : Nat]]
        /\ \A x \in Escrows : x # e => signing'[x] = signing[x]
        /\ delivered' = delivered \cup {e}
    BY <1>1, <1>3 DEF MarkDelivered
  <2> QED
    BY <1>1, <1>3, <2>1
       DEF MarkDelivered, vars, books, AnnouncementsRight, DeliveryTyped, AnnouncedIsDelivered
<1>4. CASE EmitVerified(e)
  <2>1. e \in delivered /\ delivered' = delivered
    BY <1>1, <1>4 DEF EmitVerified
  <2>2. /\ signing' \in [Escrows -> [mark : Nat, emit : Nat]]
        /\ \A x \in Escrows : x # e => signing'[x] = signing[x]
    BY <1>1, <1>4 DEF EmitVerified
  <2>3. /\ heard' = [x \in Escrows |-> heard'[x]]
        /\ \A x \in Escrows : x # e => heard'[x] = heard[x]
    BY <1>1, <1>4 DEF EmitVerified
  <2> QED
    BY <1>1, <1>4, <2>1, <2>2, <2>3
       DEF EmitVerified, vars, books, AnnouncementsRight, DeliveryTyped, AnnouncedIsDelivered
<1>5. CASE SignerDies(e)
  <2>1. /\ signing' \in [Escrows -> [mark : Nat, emit : Nat]]
        /\ \A x \in Escrows : signing'[x].emit > 0 => signing[x].emit > 0
    BY <1>1, <1>5 DEF SignerDies
  <2> QED
    BY <1>1, <1>5, <2>1
       DEF SignerDies, books, AnnouncementsRight, DeliveryTyped, AnnouncedIsDelivered
<1> QED
  BY <1>2, <1>3, <1>4, <1>5

(* What a listener has heard is delivered, also when it turns to the next. *)
LEMMA HearingKeeps ==
  ASSUME AnnouncementsRight, NEW e \in Escrows, UNCHANGED <<delivered, signing>>,
         \E l \in Listening : heard[e][l] > 0,
         \E f : heard' = [heard EXCEPT ![e] = f]
  PROVE  AnnouncementsRight' /\ e \in delivered
<1>1. /\ heard = [x \in Escrows |-> heard[x]]
      /\ \A x \in Escrows :
           signing[x].emit > 0 \/ (\E l \in Listening : heard[x][l] > 0) => x \in delivered
  BY DEF AnnouncementsRight, DeliveryTyped, AnnouncedIsDelivered
<1>2. e \in delivered
  BY <1>1
<1>3. /\ heard' = [x \in Escrows |-> heard'[x]]
      /\ \A x \in Escrows : x # e => heard'[x] = heard[x]
  BY <1>1
<1> QED
  BY <1>1, <1>2, <1>3 DEF AnnouncementsRight, DeliveryTyped, AnnouncedIsDelivered

(* The listeners pay for what was delivered. *)
LEMMA ListeningKeeps ==
  ASSUME PaymentsRight, AnnouncementsRight, CodesStay, NEW e \in Escrows, Listen(e)
  PROVE  PaymentsRight' /\ AnnouncementsRight'
<1>1. UNCHANGED <<delivered, signing>> /\ delivered \subseteq delivered'
  BY DEF Listen, FindBlocked, ReleaseOnDelivery, HandleQuickPay
<1>2. /\ \E l \in Listening : heard[e][l] > 0
      /\ \E f : heard' = [heard EXCEPT ![e] = f]
  <2>1. CASE FindBlocked(e)
    <3>1. heard[e]["escrow"] > 0 /\ "escrow" \in Listening
      BY <2>1 DEF FindBlocked, Listening
    <3>2. \E f : heard' = [heard EXCEPT ![e] = f]
      BY <2>1 DEF FindBlocked
    <3> QED
      BY <3>1, <3>2
  <2>2. ASSUME NEW h \in Handlers, ReleaseOnDelivery(h, e)
        PROVE  /\ \E l \in Listening : heard[e][l] > 0
               /\ \E f : heard' = [heard EXCEPT ![e] = f]
    <3>1. heard[e]["release"] > 0 /\ "release" \in Listening
      BY <2>2 DEF ReleaseOnDelivery, Listening
    <3>2. \E f : heard' = [heard EXCEPT ![e] = f]
      BY <2>2 DEF ReleaseOnDelivery
    <3> QED
      BY <3>1, <3>2
  <2>3. ASSUME NEW h \in Handlers, HandleQuickPay(h, e)
        PROVE  /\ \E l \in Listening : heard[e][l] > 0
               /\ \E f : heard' = [heard EXCEPT ![e] = f]
    <3>1. heard[e]["quickPay"] > 0 /\ "quickPay" \in Listening
      BY <2>3 DEF HandleQuickPay, Listening
    <3>2. \E f : heard' = [heard EXCEPT ![e] = f]
      BY <2>3 DEF HandleQuickPay
    <3> QED
      BY <3>1, <3>2
  <2> QED
    BY <2>1, <2>2, <2>3 DEF Listen
<1>3. AnnouncementsRight' /\ Evidence(e)
  BY <1>1, <1>2, HearingKeeps DEF Evidence
<1>4. PaymentsRight'
  <2>1. CASE FindBlocked(e)
    BY <1>1, <2>1, IdleKeeps DEF FindBlocked, vars, books
  <2>2. ASSUME NEW h \in Handlers, ReleaseOnDelivery(h, e)
        PROVE  PaymentsRight'
    BY <1>1, <1>3, <2>2, PayingOperations DEF ReleaseOnDelivery
  <2>3. ASSUME NEW h \in Handlers, HandleQuickPay(h, e)
        PROVE  PaymentsRight'
    <3>1. CASE Blocked(e)
      <4>1. \E todo : Take(h, "quickPay", e, todo)
        BY <2>3, <3>1 DEF HandleQuickPay
      <4> QED
        BY <1>1, <1>3, <4>1, PayingOperations
    <3>2. CASE ~Blocked(e)
      BY <1>1, <2>3, <3>2, IdleKeeps DEF HandleQuickPay, vars, books
    <3> QED
      BY <3>1, <3>2
  <2> QED
    BY <2>1, <2>2, <2>3 DEF Listen
<1> QED
  BY <1>3, <1>4

(* Every step of DeliveryRelease, while no code is scanned.                *)
LEMMA DeliveryKeeps ==
  ASSUME Evidenced, DeliveryNext, UNCHANGED qrVars
  PROVE  Evidenced'
<1>1. PaymentsRight /\ AnnouncementsRight /\ CodesRight' /\ CodesStay
  BY CodesKept DEF Evidenced
<1>2. ASSUME NEW h \in Handlers, Escrowed(h) \/ DoQuickConfirm(h)
      PROVE  PaymentsRight' /\ AnnouncementsRight'
  <2>1. UNCHANGED <<delivered, signing, heard>> /\ delivered \subseteq delivered'
    BY <1>2 DEF Escrowed, DoQuickConfirm, podVars
  <2>2. AnnouncementsRight'
    BY <1>1, <2>1, AnnouncementsUnchanged
  <2>3. CASE \/ \E e \in Escrows : CreateEscrow(h, e) \/ ConfirmPickup(h, e)
             \/ \E e \in Escrows : OpenDispute(h, e) \/ SaveDamageReport(h, e)
    BY <1>1, <2>1, <2>2, <2>3, UnpayingOperations
  <2>4. CASE Write(h) \/ Break(h) \/ DoQuickConfirm(h)
    <3>1. Written(h)
      BY <2>4, WriteIsWritten, QuickConfirmIsWritten, DropIsWritten DEF Break
    <3> QED
      BY <1>1, <2>1, <2>2, <3>1, WrittenKeeps
  <2> QED
    BY <1>2, <2>3, <2>4 DEF Escrowed
<1>3. ASSUME NEW e \in Escrows, SaveSignature(e) \/ Sign(e) \/ SignerDies(e)
      PROVE  PaymentsRight' /\ AnnouncementsRight'
  <2>1. AnnouncementsRight' /\ delivered \subseteq delivered' /\ UNCHANGED <<paid, job>>
    BY <1>1, <1>3, SigningKeeps DEF Sign
  <2> QED
    BY <1>1, <2>1, IdleKeeps
<1>4. ASSUME NEW e \in Escrows, Listen(e)
      PROVE  PaymentsRight' /\ AnnouncementsRight'
  BY <1>1, <1>4, ListeningKeeps
<1> QED
  BY <1>1, <1>2, <1>3, <1>4 DEF DeliveryNext, Evidenced

-----------------------------------------------------------------------------
(* The codes. *)

(* generateQR: a new code is unused, and takes no other's place.           *)
LEMMA GenerateKeeps ==
  ASSUME Evidenced, NEW q \in Codes, NEW e \in Escrows, NEW checkpoint \in Checkpoints,
         GenerateQR(q, e, checkpoint)
  PROVE  Evidenced'
<1>1. CodesTyped /\ ScannedIsUsed
  BY DEF Evidenced, CodesRight
<1> DEFINE new == [e |-> e, checkpoint |-> checkpoint, used |-> FALSE]
<1>2. new \in Code /\ new # NoCode
  <2>1. new \in Code
    BY DEF Code
  <2> QED
    BY <2>1, MarkerAssumption
<1>3. /\ code' = [code EXCEPT ![q] = new]
      /\ code[q] = NoCode /\ scans' = scans
  BY DEF GenerateQR
<1> HIDE DEF new
<1>4. \A p \in Codes : code[p] # NoCode => code'[p] = code[p] /\ code'[p] # NoCode
  BY <1>1, <1>3 DEF CodesTyped
<1>5. CodesStay
  BY <1>4 DEF CodesStay
<1>6. CodesTyped'
  BY <1>1, <1>2, <1>3 DEF CodesTyped
<1>7. ScannedIsUsed'
  BY <1>1, <1>3, <1>4 DEF ScannedIsUsed
<1>8. UNCHANGED <<delivered, signing, heard, paid, job>>
  BY DEF GenerateQR, deliveryVars, vars, books, podVars
<1> QED
  BY <1>5, <1>6, <1>7, <1>8, IdleKeeps, AnnouncementsUnchanged DEF Evidenced, CodesRight

(* validateQR checks the code, and writes nothing yet.                     *)
LEMMA CheckKeeps ==
  ASSUME Evidenced, NEW q \in Codes, CheckCode(q)
  PROVE  Evidenced'
<1>1. CodesTyped /\ ScannedIsUsed
  BY DEF Evidenced, CodesRight
<1>2. /\ code' = code /\ CodesStay
      /\ UNCHANGED <<delivered, signing, heard, paid, job>>
  BY CodesUnchanged DEF CheckCode, deliveryVars, vars, books, podVars
<1>3. /\ scans' \in [Codes -> [save : Nat, process : Nat]]
      /\ code[q] # NoCode
      /\ scans'[q].process = scans[q].process
      /\ \A p \in Codes : p # q => scans'[p] = scans[p]
  BY <1>1 DEF CheckCode, CodesTyped
<1>4. CodesTyped' /\ ScannedIsUsed'
  BY <1>1, <1>2, <1>3 DEF CodesTyped, ScannedIsUsed
<1> QED
  BY <1>2, <1>4, IdleKeeps, AnnouncementsUnchanged DEF Evidenced, CodesRight

(* The code is used before the scan turns to the escrow. *)
LEMMA SaveUsedKeeps ==
  ASSUME Evidenced, NEW q \in Codes, SaveUsed(q)
  PROVE  Evidenced'
<1>1. CodesTyped /\ ScannedIsUsed
  BY DEF Evidenced, CodesRight
<1>2. UNCHANGED <<delivered, signing, heard, paid, job>>
  BY DEF SaveUsed, deliveryVars, vars, books, podVars
<1>3. code[q] \in Code
  BY <1>1 DEF SaveUsed, CodesTyped, ScannedIsUsed
<1>4. /\ code'[q] = [code[q] EXCEPT !.used = TRUE]
      /\ code' \in [Codes -> Code \cup {NoCode}]
      /\ \A p \in Codes : p # q => code'[p] = code[p]
  BY <1>1, <1>3 DEF SaveUsed, CodesTyped, Code
<1>5. /\ code'[q] # NoCode /\ code'[q].used
      /\ code'[q].e = code[q].e /\ code'[q].checkpoint = code[q].checkpoint
  BY <1>3, <1>4, MarkerAssumption DEF Code
<1>6. CodesStay
  BY <1>4, <1>5 DEF CodesStay
<1>7. /\ scans' \in [Codes -> [save : Nat, process : Nat]]
      /\ \A p \in Codes : p # q => scans'[p] = scans[p]
  BY <1>1 DEF SaveUsed, CodesTyped
<1>8. CodesTyped' /\ ScannedIsUsed'
  BY <1>1, <1>4, <1>5, <1>7 DEF CodesTyped, ScannedIsUsed
<1> QED
  BY <1>2, <1>6, <1>8, IdleKeeps, AnnouncementsUnchanged DEF Evidenced, CodesRight

(* processQrScan pays only for a delivery or a milestone, of a used code.  *)
LEMMA ProcessKeeps ==
  ASSUME Evidenced, NEW q \in Codes, ProcessQrScan(q)
  PROVE  Evidenced'
<1>1. CodesTyped /\ ScannedIsUsed /\ PaymentsRight
  BY DEF Evidenced, CodesRight
<1>2. /\ code' = code /\ CodesStay /\ delivered \subseteq delivered'
      /\ UNCHANGED <<delivered, signing, heard>>
  BY CodesUnchanged DEF ProcessQrScan, podVars
<1>3. /\ scans' \in [Codes -> [save : Nat, process : Nat]]
      /\ \A p \in Codes : p # q => scans'[p] = scans[p]
      /\ scans'[q].save = scans[q].save /\ scans[q].process > 0
  BY <1>1 DEF ProcessQrScan, CodesTyped
<1>4. CodesTyped' /\ ScannedIsUsed'
  BY <1>1, <1>2, <1>3 DEF CodesTyped, ScannedIsUsed
<1>5. code[q] \in Code /\ code[q] # NoCode /\ code[q].used
  BY <1>1, <1>3 DEF CodesTyped, ScannedIsUsed
<1>6. PICK e \in Escrows, c \in Checkpoints : code[q].e = e /\ code[q].checkpoint = c
  BY <1>5 DEF Code
<1>7. PaymentsRight'
  <2>1. ASSUME NEW h \in Handlers, Checkpointed(h, code[q])
        PROVE  PaymentsRight'
    <3>1. CASE c = "pickup"
      <4>1. ConfirmPickup(h, e)
        BY <1>6, <2>1, <3>1 DEF Checkpointed
      <4> QED
        BY <1>1, <1>2, <4>1, UnpayingOperations
    <3>2. CASE c = "transit"
      <4>1. TransitScan(h, e)
        BY <1>6, <2>1, <3>2 DEF Checkpointed
      <4> QED
        BY <1>1, <1>2, <4>1, UnpayingOperations
    <3>3. CASE c \in {"delivery", "milestone"}
      <4>1. ReleasePayment(h, e)
        BY <1>6, <2>1, <3>3 DEF Checkpointed
      <4>2. Evidence(e)
        BY <1>5, <1>6, <3>3 DEF Evidence, PayingCodes
      <4> QED
        BY <1>1, <1>2, <4>1, <4>2, PayingOperations
    <3> QED
      BY <3>1, <3>2, <3>3 DEF Checkpoints
  <2>2. CASE UNCHANGED vars
    BY <1>1, <1>2, <2>2, IdleKeeps DEF vars, books
  <2> QED
    BY <2>1, <2>2 DEF ProcessQrScan
<1> QED
  BY <1>2, <1>4, <1>7, AnnouncementsUnchanged DEF Evidenced, CodesRight


-----------------------------------------------------------------------------
(* What a step does to the money, whoever takes it. *)

QuickWrites == Writes \cup [do : {"quickConfirm"}, n : Int]

QuickJob == [op : Operations \cup {"quickPay", "damage"}, e : Escrows,
             todo : Seq(QuickWrites) \ {<< >>}]

BooksTyped ==
  /\ escrow \in [Escrows -> Row \cup {NoRow}]
  /\ job = [h \in Handlers |-> job[h]]
  /\ \A h \in Handlers : job[h] # NoJob => job[h] \in QuickJob
  /\ carrier \in Wallet
  /\ paid \in [Escrows -> Int]
  /\ quickPaid \subseteq Escrows

(* The lists that operations take up here. *)
Listed(op, e, todo) ==
  \/ op = "release" /\ \E row \in Row : todo = Assessed(e, row)
  \/ op = "quickPay" /\ \E row \in Row : todo = <<Save(row), QuickConfirm(Payout(e))>>
  \/ /\ op \in Operations \cup {"damage"}
     /\ todo \in Seq(Writes) \ {<< >>}
     /\ \A i \in 1 .. Len(todo) : todo[i].do \notin {"release", "confirm", "creditCarrier"}

Rests == UNCHANGED <<escrow, job, carrier, paid, quickPaid>>

(* A release is begun by a listener that has heard of the delivery, or by  *)
(* the scan of a code that pays.                                           *)
Permit(e) ==
  \/ /\ heard[e].release > 0
     /\ heard' = [heard EXCEPT ![e].release = @ - 1]
     /\ UNCHANGED <<announced, code, scans>>
  \/ \E q \in PayingCodes(e) :
       /\ scans[q].process > 0
       /\ scans' = [scans EXCEPT ![q].process = @ - 1]
       /\ UNCHANGED <<heard, announced, code>>

Begins(h, op, e, todo) ==
  /\ Take(h, op, e, todo)
  /\ Listed(op, e, todo)
  /\ op = "release" => Permit(e)
  /\ quickPaid' = quickPaid

Stops(h) == job[h] # NoJob /\ Drop(h) /\ quickPaid' = quickPaid

(* What the first write of h pays. *)
Payment(h) ==
  LET w == Head(job[h].todo) IN
  IF \/ w.do = "confirm" \/ w.do = "creditCarrier"
     \/ w.do = "quickConfirm" /\ job[h].e \notin quickPaid
  THEN w.n ELSE 0

(* What it adds to the carrier's pendingRelease. *)
Pending(h) ==
  LET w == Head(job[h].todo) IN
  IF w.do = "release" THEN w.n ELSE IF w.do = "creditCarrier" THEN 0 ELSE 0 - Payment(h)

Makes(h) ==
  LET w == Head(job[h].todo)
      e == job[h].e
  IN
  /\ job[h] # NoJob /\ Advance(h)
  /\ \/ escrow' = escrow
     \/ escrow' = [escrow EXCEPT ![e] = NewRow]
     \/ w.do = "save" /\ escrow' = [escrow EXCEPT ![e] = w.row]
  /\ carrier' \in Wallet /\ carrier'.pending = carrier.pending + Pending(h)
  /\ paid' = [paid EXCEPT ![e] = @ + Payment(h)]
  /\ quickPaid' = IF w.do = "quickConfirm" THEN quickPaid \cup {e} ELSE quickPaid

Handled ==
  \/ Rests
  \/ \E h \in Handlers, e \in Escrows : \E op, todo : Begins(h, op, e, todo)
  \/ \E h \in Handlers : Makes(h) \/ Stops(h)

(* The lists with one or two writes that pay nothing. *)
LEMMA OneListed ==
  ASSUME NEW op \in Operations \cup {"damage"}, NEW e, NEW a \in Writes,
         a.do \notin {"release", "confirm", "creditCarrier"}
  PROVE  Listed(op, e, <<a>>)
<1> DEFINE todo == <<a>>
<1>1. todo \in Seq(Writes) /\ todo # << >> /\ Len(todo) = 1 /\ todo[1] = a
  OBVIOUS
<1> HIDE DEF todo
<1> QED
  BY <1>1 DEF Listed, todo

LEMMA TwoListed ==
  ASSUME NEW op \in Operations \cup {"damage"}, NEW e, NEW a \in Writes, NEW b \in Writes,
         a.do \notin {"release", "confirm", "creditCarrier"},
         b.do \notin {"release", "confirm", "creditCarrier"}
  PROVE  Listed(op, e, <<a, b>>)
<1> DEFINE todo == <<a, b>>
<1>1. todo \in Seq(Writes) /\ todo # << >> /\ Len(todo) = 2 /\ todo[1] = a /\ todo[2] = b
  OBVIOUS
<1> HIDE DEF todo
<1> QED
  BY <1>1 DEF Listed, todo

(* What the escrow's own operations begin with.                            *)
LEMMA OperationsListed ==
  ASSUME BooksTyped, NEW h \in Handlers, NEW e \in Escrows, quickPaid' = quickPaid,
         \/ CreateEscrow(h, e) \/ ConfirmPickup(h, e) \/ TransitScan(h, e)
         \/ OpenDispute(h, e) \/ SaveDamageReport(h, e)
         \/ ReleasePayment(h, e) /\ Permit(e)
  PROVE  Handled
<1> SUFFICES \E op, todo : /\ Take(h, op, e, todo) /\ Listed(op, e, todo)
                           /\ op = "release" => Permit(e)
  BY DEF Handled, Begins
<1>1. /\ escrow[e] # NoRow => escrow[e] \in Row
      /\ Price[e] \in Nat
      /\ {"create", "pickup", "openDispute", "transit"} \subseteq Operations
  BY AmountsAssumption DEF BooksTyped, Operations
<1>2. /\ "BLOKEDE" \in Statuses /\ "ITIRAZ_SURECINDE" \in Statuses
      /\ \A tier \in {"low", "medium", "high"} : tier \in Tiers
  BY DEF Statuses, Tiers
<1>3. CASE CreateEscrow(h, e)
  <2>1. Take(h, "create", e, <<LockFunds(Price[e]), Insert>>)
    BY <1>3 DEF CreateEscrow
  <2>2. /\ LockFunds(Price[e]) \in Writes /\ LockFunds(Price[e]).do = "lock"
        /\ Insert \in Writes /\ Insert.do = "insert"
    BY <1>1, WriteKinds
  <2> QED
    BY <1>1, <2>1, <2>2, TwoListed
<1>4. CASE ConfirmPickup(h, e)
  <2> DEFINE row == [escrow[e] EXCEPT !.status = "BLOKEDE"]
  <2>1. Take(h, "pickup", e, <<Save(row)>>) /\ escrow[e] # NoRow
    BY <1>4 DEF ConfirmPickup
  <2>2. row \in Row
    BY <1>1, <1>2, <2>1, SavedRow
  <2> HIDE DEF row
  <2> QED
    <3>1. Save(row) \in Writes /\ Save(row).do = "save"
      BY <2>2, WriteKinds
    <3> QED
      BY <1>1, <2>1, <3>1, OneListed
<1>5. CASE TransitScan(h, e)
  <2>1. Take(h, "transit", e, <<Save(escrow[e])>>) /\ escrow[e] # NoRow
    BY <1>5 DEF TransitScan
  <2>2. Save(escrow[e]) \in Writes /\ Save(escrow[e]).do = "save"
    BY <1>1, <2>1, WriteKinds
  <2> QED
    BY <1>1, <2>1, <2>2, OneListed
<1>6. CASE OpenDispute(h, e)
  <2> DEFINE row == [escrow[e] EXCEPT !.status = "ITIRAZ_SURECINDE"]
  <2>1. Take(h, "openDispute", e, <<Save(row), Dispute("open")>>) /\ escrow[e] # NoRow
    BY <1>6 DEF OpenDispute
  <2>2. row \in Row
    BY <1>1, <1>2, <2>1, SavedRow
  <2> HIDE DEF row
  <2> QED
    <3>1. /\ Save(row) \in Writes /\ Save(row).do = "save"
          /\ Dispute("open") \in Writes /\ Dispute("open").do = "dispute"
      BY <2>2, WriteKinds
    <3> QED
      BY <1>1, <2>1, <3>1, TwoListed
<1>7. CASE SaveDamageReport(h, e)
  <2>1. Take(h, "damage", e, <<Dispute("open")>>)
    BY <1>7 DEF SaveDamageReport
  <2>2. Dispute("open") \in Writes /\ Dispute("open").do = "dispute"
    BY WriteKinds
  <2> QED
    BY <2>1, <2>2, OneListed
<1>8. CASE ReleasePayment(h, e) /\ Permit(e)
  <2>1. PICK tier \in {"low", "medium", "high"} :
          Take(h, "release", e, Assessed(e, [escrow[e] EXCEPT !.tier = tier]))
    BY <1>8 DEF ReleasePayment
  <2>2. [escrow[e] EXCEPT !.tier = tier] \in Row
    <3>1. escrow[e] \in Row /\ tier \in Tiers
      BY <1>1, <1>2, <1>8 DEF ReleasePayment
    <3> QED
      BY <3>1 DEF Row
  <2> QED
    BY <1>8, <2>1, <2>2 DEF Listed
<1> QED
  BY <1>3, <1>4, <1>5, <1>6, <1>7, <1>8

(* What each write of a list carries.                                      *)
LEMMA CarriedTyped ==
  ASSUME NEW w \in QuickWrites
  PROVE  /\ w.do \in {"lock", "release", "confirm", "creditCarrier", "creditShipper",
                       "quickConfirm"} => w.n \in Int
         /\ w.do = "save" => w.row \in Row
<1>1. CASE w \in [do : {"lock", "release", "confirm", "creditCarrier", "creditShipper"}, n : Int]
  BY <1>1
<1>2. CASE w \in [do : {"insert"}]
  BY <1>2
<1>3. CASE w \in [do : {"save"}, row : Row]
  BY <1>3
<1>4. CASE w \in [do : {"dispute"}, status : {"open", "resolved"}]
  BY <1>4
<1>5. CASE w \in [do : {"quickConfirm"}, n : Int]
  BY <1>5
<1> QED
  BY <1>1, <1>2, <1>3, <1>4, <1>5 DEF QuickWrites, Writes

LEMMA FirstWrite ==
  ASSUME BooksTyped, NEW h \in Handlers, job[h] # NoJob
  PROVE  /\ job[h].e \in Escrows /\ job[h].op \in Operations \cup {"quickPay", "damage"}
         /\ job[h].todo \in Seq(QuickWrites) /\ job[h].todo # << >>
         /\ job[h] = [op |-> job[h].op, e |-> job[h].e, todo |-> job[h].todo]
         /\ Head(job[h].todo) \in QuickWrites /\ Tail(job[h].todo) \in Seq(QuickWrites)
<1>1. job[h] \in QuickJob
  BY DEF BooksTyped
<1>2. /\ job[h].e \in Escrows /\ job[h].op \in Operations \cup {"quickPay", "damage"}
      /\ job[h].todo \in Seq(QuickWrites) /\ job[h].todo # << >>
      /\ job[h] = [op |-> job[h].op, e |-> job[h].e, todo |-> job[h].todo]
  BY <1>1 DEF QuickJob
<1> QED
  BY <1>2

LEMMA WalletMoves ==
  ASSUME NEW c \in Wallet, NEW n \in Int
  PROVE  /\ [c EXCEPT !.escrow = @ - n, !.pending = @ + n] \in Wallet
         /\ [c EXCEPT !.escrow = @ - n, !.pending = @ + n].pending = c.pending + n
         /\ [c EXCEPT !.pending = @ - n, !.available = @ + n] \in Wallet
         /\ [c EXCEPT !.pending = @ - n, !.available = @ + n].pending = c.pending - n
         /\ [c EXCEPT !.available = @ + n] \in Wallet
         /\ [c EXCEPT !.available = @ + n].pending = c.pending
<1>1. /\ c.escrow - n \in Int /\ c.pending + n \in Int /\ c.pending - n \in Int
      /\ c.available + n \in Int
  <2>1. c.available \in Int /\ c.escrow \in Int /\ c.pending \in Int
    BY DEF Wallet
  <2> QED
    BY <2>1
<1>2. ASSUME NEW x \in Int, NEW y \in Int
      PROVE  /\ [c EXCEPT !.escrow = x, !.pending = y] \in Wallet
             /\ [c EXCEPT !.escrow = x, !.pending = y].pending = y
             /\ [c EXCEPT !.pending = y, !.available = x] \in Wallet
             /\ [c EXCEPT !.pending = y, !.available = x].pending = y
             /\ [c EXCEPT !.available = x] \in Wallet
             /\ [c EXCEPT !.available = x].pending = c.pending
  BY DEF Wallet
<1> QED
  BY <1>1, <1>2

(* The writes of EscrowService, and quick pay's own.                       *)
LEMMA WritesMake ==
  ASSUME BooksTyped, NEW h \in Handlers, (Write(h) /\ quickPaid' = quickPaid) \/ DoQuickConfirm(h)
  PROVE  Makes(h) \/ Stops(h)
<1> DEFINE w == Head(job[h].todo)
           e == job[h].e
<1>1. job[h] # NoJob
  BY DEF Write, DoQuickConfirm, DoLock, LockRefused, DoInsert, InsertDuplicate, DoSave, DoRelease,
         DoConfirm, DoCreditCarrier, DoCreditShipper, DoDispute, Doing
<1>2. /\ e \in Escrows /\ w \in QuickWrites
      /\ w.do \in {"lock", "release", "confirm", "creditCarrier", "creditShipper",
                    "quickConfirm"} => w.n \in Int
  BY <1>1, FirstWrite, CarriedTyped
<1>3. /\ carrier \in Wallet /\ carrier.pending \in Int /\ carrier.available \in Int
      /\ carrier.escrow \in Int
      /\ carrier = [available |-> carrier.available, escrow |-> carrier.escrow,
                    pending |-> carrier.pending]
      /\ paid \in [Escrows -> Int] /\ paid[e] \in Int
  BY <1>2 DEF BooksTyped, Wallet
<1> HIDE DEF w, e
<1>4. /\ Payment(h) = 0 => paid = [paid EXCEPT ![e] = @ + Payment(h)]
      /\ Pending(h) = 0 => carrier.pending = carrier.pending + Pending(h)
  BY <1>2, <1>3
<1>5. CASE DoLock(h) \/ DoInsert(h) \/ DoSave(h) \/ DoCreditShipper(h) \/ DoDispute(h)
  <2>0. quickPaid' = quickPaid
    BY <1>5 DEF DoLock, DoInsert, DoSave, DoCreditShipper, DoDispute, DoQuickConfirm, Doing
  <2>1. /\ Advance(h) /\ carrier' = carrier /\ paid' = paid
        /\ w.do \in {"lock", "insert", "save", "creditShipper", "dispute"}
    BY <1>5 DEF DoLock, DoInsert, DoSave, DoCreditShipper, DoDispute, Doing, books, w
  <2>2. Payment(h) = 0 /\ Pending(h) = 0
    <3>1. Payment(h) = 0
      BY <2>1 DEF Payment, w
    <3>2. Pending(h) = 0
      <4>1. Pending(h) = 0 - Payment(h)
        BY <2>1 DEF Pending, w
      <4> QED
        BY <3>1, <4>1
    <3> QED
      BY <3>1, <3>2
  <2>3. \/ escrow' = escrow
        \/ escrow' = [escrow EXCEPT ![e] = NewRow]
        \/ w.do = "save" /\ escrow' = [escrow EXCEPT ![e] = w.row]
    BY <1>5 DEF DoLock, DoInsert, DoSave, DoCreditShipper, DoDispute, Doing, w, e
  <2> QED
    BY <1>1, <1>3, <1>4, <2>0, <2>1, <2>2, <2>3 DEF Makes, w, e
<1>6. CASE LockRefused(h) \/ InsertDuplicate(h)
  BY <1>6 DEF LockRefused, InsertDuplicate, Stops, DoQuickConfirm, Doing
<1>7. CASE DoRelease(h)
  <2>1. /\ Advance(h) /\ w.do = "release" /\ paid' = paid /\ escrow' = escrow
        /\ carrier' = [carrier EXCEPT !.escrow = @ - w.n, !.pending = @ + w.n]
        /\ quickPaid' = quickPaid
    BY <1>7 DEF DoRelease, Doing, Amount, books, w, DoQuickConfirm
  <2>2. Payment(h) = 0 /\ Pending(h) = w.n
    BY <2>1 DEF Payment, Pending, w
  <2>3. carrier' \in Wallet /\ carrier'.pending = carrier.pending + w.n
    BY <1>2, <1>3, <2>1, WalletMoves
  <2> QED
    BY <1>1, <1>4, <2>1, <2>2, <2>3 DEF Makes, w, e
<1>8. CASE DoConfirm(h)
  <2>1. /\ Advance(h) /\ w.do = "confirm" /\ escrow' = escrow
        /\ paid' = [paid EXCEPT ![e] = @ + w.n]
        /\ carrier' = [carrier EXCEPT !.pending = @ - w.n, !.available = @ + w.n]
        /\ quickPaid' = quickPaid
    BY <1>8 DEF DoConfirm, Doing, Amount, books, w, e, DoQuickConfirm
  <2>2. Payment(h) = w.n /\ Pending(h) = 0 - w.n
    <3>1. Payment(h) = w.n
      BY <2>1 DEF Payment, w
    <3> QED
      BY <2>1, <3>1 DEF Pending, w
  <2>3. carrier' \in Wallet /\ carrier'.pending = carrier.pending - w.n
    BY <1>2, <1>3, <2>1, WalletMoves
  <2>4. carrier'.pending = carrier.pending + Pending(h)
    BY <1>2, <1>3, <2>1, <2>2, <2>3
  <2> QED
    BY <1>1, <2>1, <2>2, <2>3, <2>4 DEF Makes, w, e
<1>9. CASE DoCreditCarrier(h)
  <2>1. /\ Advance(h) /\ w.do = "creditCarrier" /\ escrow' = escrow
        /\ paid' = [paid EXCEPT ![e] = @ + w.n]
        /\ carrier' = [carrier EXCEPT !.available = @ + w.n]
        /\ quickPaid' = quickPaid
    BY <1>9 DEF DoCreditCarrier, Doing, Amount, books, w, e, DoQuickConfirm
  <2>2. Payment(h) = w.n /\ Pending(h) = 0
    <3>1. Payment(h) = w.n
      BY <2>1 DEF Payment, w
    <3> QED
      BY <2>1, <3>1 DEF Pending, w
  <2>3. carrier' \in Wallet /\ carrier'.pending = carrier.pending
    BY <1>2, <1>3, <2>1, WalletMoves
  <2> QED
    BY <1>1, <1>4, <2>1, <2>2, <2>3 DEF Makes, w, e
<1>10. CASE DoQuickConfirm(h)
  <2> DEFINE moved == IF e \in quickPaid THEN 0 ELSE w.n
  <2>1. /\ Advance(h) /\ w.do = "quickConfirm" /\ escrow' = escrow
        /\ paid' = [paid EXCEPT ![e] = @ + moved]
        /\ carrier' = [carrier EXCEPT !.pending = @ - moved, !.available = @ + moved]
        /\ quickPaid' = quickPaid \cup {e}
    BY <1>10 DEF DoQuickConfirm, Doing, Amount, w, e
  <2>2. Payment(h) = moved /\ Pending(h) = 0 - moved /\ moved \in Int
    BY <1>2, <2>1 DEF Payment, Pending, w, e
  <2> HIDE DEF moved
  <2>3. carrier' \in Wallet /\ carrier'.pending = carrier.pending - moved
    BY <1>3, <2>1, <2>2, WalletMoves
  <2>4. carrier'.pending = carrier.pending + Pending(h)
    BY <1>3, <2>2, <2>3
  <2> QED
    BY <1>1, <2>1, <2>2, <2>3, <2>4 DEF Makes, w, e
<1> QED
  BY <1>5, <1>6, <1>7, <1>8, <1>9, <1>10 DEF Write

(* A step lets the money rest, takes up an operation, or goes on with one. *)
LEMMA StepsHandled == ASSUME BooksTyped, Evidenced, QrNext PROVE Handled
<1>1. CASE UNCHANGED vars /\ quickPaid' = quickPaid
  BY <1>1 DEF vars, books, Handled, Rests
<1>2. ASSUME NEW h \in Handlers, Escrowed(h) \/ DoQuickConfirm(h)
      PROVE  Handled
  <2>1. CASE Escrowed(h)
    <3>1. quickPaid' = quickPaid
      BY <2>1 DEF Escrowed, podVars
    <3>2. CASE \E e \in Escrows : \/ CreateEscrow(h, e) \/ ConfirmPickup(h, e)
                                  \/ OpenDispute(h, e) \/ SaveDamageReport(h, e)
      BY <3>1, <3>2, OperationsListed
    <3>3. CASE Write(h)
      BY <3>1, <3>3, WritesMake DEF Handled
    <3>4. CASE Break(h)
      BY <3>1, <3>4 DEF Break, Handled, Stops
    <3> QED
      BY <2>1, <3>2, <3>3, <3>4 DEF Escrowed
  <2>2. CASE DoQuickConfirm(h)
    BY <2>2, WritesMake DEF Handled
  <2> QED
    BY <1>2, <2>1, <2>2
<1>3. ASSUME NEW e \in Escrows, SaveSignature(e) \/ Sign(e) \/ SignerDies(e)
      PROVE  Handled
  BY <1>3 DEF SaveSignature, Sign, MarkDelivered, EmitVerified, SignerDies, vars, books,
              Handled, Rests
<1>4. ASSUME NEW e \in Escrows, Listen(e), UNCHANGED qrVars
      PROVE  Handled
  <2>1. CASE FindBlocked(e)
    BY <1>1, <2>1 DEF FindBlocked
  <2>2. ASSUME NEW h \in Handlers, ReleaseOnDelivery(h, e)
        PROVE  Handled
    <3>1. Permit(e)
      BY <1>4, <2>2 DEF ReleaseOnDelivery, Permit, qrVars
    <3>2. ReleasePayment(h, e) /\ quickPaid' = quickPaid
      BY <2>2 DEF ReleaseOnDelivery
    <3> QED
      BY <3>1, <3>2, OperationsListed
  <2>3. ASSUME NEW h \in Handlers, HandleQuickPay(h, e)
        PROVE  Handled
    <3>1. quickPaid' = quickPaid
      BY <2>3 DEF HandleQuickPay
    <3>2. CASE Blocked(e)
      <4> DEFINE row == [escrow[e] EXCEPT !.status = "SERBEST_BIRAKILDI", !.released = Payout(e)]
      <4>1. Take(h, "quickPay", e, <<Save(row), QuickConfirm(Payout(e))>>)
        BY <2>3, <3>2 DEF HandleQuickPay
      <4>2. escrow[e] \in Row /\ Payout(e) \in Int /\ "SERBEST_BIRAKILDI" \in Statuses
        BY <3>2, AmountsAssumption, QuickPayAssumption DEF Blocked, BooksTyped, Payout, Statuses
      <4>3. row \in Row
        BY <4>2 DEF Row
      <4> HIDE DEF row
      <4>4. Listed("quickPay", e, <<Save(row), QuickConfirm(Payout(e))>>)
        BY <4>3 DEF Listed
      <4> QED
        BY <3>1, <4>1, <4>4 DEF Handled, Begins
    <3>3. CASE ~Blocked(e)
      BY <1>1, <2>3, <3>1, <3>3 DEF HandleQuickPay
    <3> QED
      BY <3>2, <3>3
  <2> QED
    BY <1>4, <2>1, <2>2, <2>3 DEF Listen
<1>5. ASSUME NEW q \in Codes, Scan(q)
      PROVE  Handled
  <2>1. CASE CheckCode(q) \/ SaveUsed(q)
    BY <1>1, <2>1 DEF CheckCode, SaveUsed, deliveryVars, podVars
  <2>2. CASE ProcessQrScan(q)
    <3>1. code[q].e \in Escrows /\ code[q].checkpoint \in Checkpoints /\ quickPaid' = quickPaid
      <4>1. code[q] \in Code
        BY <2>2 DEF ProcessQrScan, Evidenced, CodesRight, CodesTyped, ScannedIsUsed
      <4> QED
        BY <2>2, <4>1 DEF ProcessQrScan, podVars, Code
    <3>2. ASSUME NEW h \in Handlers, Checkpointed(h, code[q])
          PROVE  Handled
      <4>1. code[q] # NoCode /\ code[q].used
        BY <2>2 DEF ProcessQrScan, Evidenced, CodesRight, ScannedIsUsed
      <4>2. CASE code[q].checkpoint = "pickup"
        BY <3>1, <3>2, <4>2, OperationsListed DEF Checkpointed
      <4>3. CASE code[q].checkpoint = "transit"
        BY <3>1, <3>2, <4>3, OperationsListed DEF Checkpointed
      <4>4. CASE code[q].checkpoint \in {"delivery", "milestone"}
        <5>1. ReleasePayment(h, code[q].e)
          BY <3>2, <4>4 DEF Checkpointed
        <5>2. q \in PayingCodes(code[q].e)
          BY <4>1, <4>4 DEF PayingCodes
        <5>3. Permit(code[q].e)
          BY <2>2, <5>2 DEF ProcessQrScan, Permit, podVars
        <5> QED
          BY <3>1, <5>1, <5>3, OperationsListed
      <4> QED
        BY <3>1, <4>2, <4>3, <4>4 DEF Checkpoints
    <3> QED
      BY <1>1, <2>2, <3>1, <3>2 DEF ProcessQrScan
  <2> QED
    BY <1>5, <2>1, <2>2 DEF Scan
<1>6. ASSUME NEW q \in Codes, NEW e \in Escrows, NEW c \in Checkpoints, GenerateQR(q, e, c)
      PROVE  Handled
  BY <1>1, <1>6 DEF GenerateQR, deliveryVars, podVars
<1> QED
  BY <1>2, <1>3, <1>4, <1>5, <1>6 DEF QrNext, DeliveryNext

-----------------------------------------------------------------------------
(* Types. *)

LEMMA ListedTyped ==
  ASSUME NEW e \in Escrows, NEW op, NEW todo, Listed(op, e, todo)
  PROVE  [op |-> op, e |-> e, todo |-> todo] \in QuickJob
<1>0. op \in Operations \cup {"quickPay", "damage"}
  BY DEF Listed, Operations
<1>1. ASSUME NEW s \in Seq(Writes)
      PROVE  s \in Seq(QuickWrites)
  <2>1. \A i \in 1 .. Len(s) : s[i] \in QuickWrites
    BY DEF QuickWrites
  <2>2. Len(s) \in Nat /\ s = [i \in 1 .. Len(s) |-> s[i]]
    BY <1>1
  <2> QED
    BY <2>1, <2>2
<1>2. CASE op = "release" /\ \E row \in Row : todo = Assessed(e, row)
  <2>1. todo \in Seq(Writes) /\ todo # << >>
    BY <1>2, WholeAssessed
  <2> QED
    BY <1>0, <1>1, <2>1 DEF QuickJob
<1>3. CASE op = "quickPay" /\ \E row \in Row : todo = <<Save(row), QuickConfirm(Payout(e))>>
  <2>1. PICK row \in Row : todo = <<Save(row), QuickConfirm(Payout(e))>>
    BY <1>3
  <2>2. Save(row) \in QuickWrites
    BY WriteKinds DEF QuickWrites
  <2>3. QuickConfirm(Payout(e)) \in QuickWrites
    <3>1. Payout(e) \in Int
      BY AmountsAssumption, QuickPayAssumption DEF Payout
    <3> QED
      BY <3>1 DEF QuickConfirm, QuickWrites
  <2>4. todo \in Seq(QuickWrites) /\ todo # << >>
    BY <2>1, <2>2, <2>3
  <2> QED
    BY <1>0, <2>4 DEF QuickJob
<1>4. CASE todo \in Seq(Writes) \ {<< >>}
  BY <1>0, <1>1, <1>4 DEF QuickJob
<1> QED
  BY <1>2, <1>3, <1>4 DEF Listed

(* Rows, lists, wallet and payments keep their types. *)
LEMMA BooksKeepTypes == ASSUME BooksTyped, Handled PROVE BooksTyped'
<1>1. CASE Rests
  BY <1>1 DEF Rests, BooksTyped
<1>2. ASSUME NEW h \in Handlers, NEW e \in Escrows, NEW op, NEW todo, Begins(h, op, e, todo)
      PROVE  BooksTyped'
  <2> DEFINE new == [op |-> op, e |-> e, todo |-> todo]
  <2>1. new \in QuickJob
    BY <1>2, ListedTyped DEF Begins
  <2>2. /\ job' = [job EXCEPT ![h] = new]
        /\ UNCHANGED <<escrow, carrier, paid, quickPaid>>
    BY <1>2 DEF Begins, Take, books
  <2> HIDE DEF new
  <2> QED
    BY <2>1, <2>2 DEF BooksTyped
<1>3. ASSUME NEW h \in Handlers, Stops(h)
      PROVE  BooksTyped'
  BY <1>3 DEF Stops, Drop, books, BooksTyped
<1>4. ASSUME NEW h \in Handlers, Makes(h)
      PROVE  BooksTyped'
  <2> DEFINE w == Head(job[h].todo)
             e == job[h].e
             rest == Tail(job[h].todo)
             next == IF rest = << >> THEN NoJob ELSE [job[h] EXCEPT !.todo = rest]
  <2>1. /\ job[h] # NoJob /\ job[h] \in QuickJob
        /\ e \in Escrows /\ w \in QuickWrites /\ rest \in Seq(QuickWrites)
    BY <1>4, FirstWrite DEF Makes, BooksTyped
  <2>2. next # NoJob => next \in QuickJob
    BY <2>1 DEF QuickJob
  <2>3. job' = [job EXCEPT ![h] = next]
    BY <1>4 DEF Makes, Advance
  <2>4. Payment(h) \in Int /\ (w.do = "save" => w.row \in Row)
    BY <2>1, CarriedTyped DEF Payment
  <2>5. /\ carrier' \in Wallet
        /\ paid' = [paid EXCEPT ![e] = @ + Payment(h)]
        /\ quickPaid' \subseteq quickPaid \cup {e}
    BY <1>4 DEF Makes
  <2>6. NewRow \in Row
    BY DEF NewRow, Row, Statuses, Tiers
  <2>7. \/ escrow' = escrow
        \/ escrow' = [escrow EXCEPT ![e] = NewRow]
        \/ w.do = "save" /\ escrow' = [escrow EXCEPT ![e] = w.row]
    BY <1>4 DEF Makes
  <2> HIDE DEF w, e, rest, next
  <2>8. escrow' \in [Escrows -> Row \cup {NoRow}]
    BY <2>1, <2>4, <2>6, <2>7 DEF BooksTyped
  <2>9. paid' \in [Escrows -> Int]
    BY <2>1, <2>4, <2>5 DEF BooksTyped
  <2>10. /\ job' = [g \in Handlers |-> job'[g]]
         /\ \A g \in Handlers : job'[g] # NoJob => job'[g] \in QuickJob
    BY <2>2, <2>3 DEF BooksTyped
  <2> QED
    BY <2>1, <2>5, <2>8, <2>9, <2>10 DEF BooksTyped
<1> QED
  BY <1>1, <1>2, <1>3, <1>4 DEF Handled

(* Signatures, announcements and scans. *)
PodTyped ==
  /\ delivered \subseteq Escrows
  /\ signing \in [Escrows -> [mark : Nat, emit : Nat]]
  /\ signatures \in 0 .. MaxSignatures
  /\ heard \in [Escrows -> [Listening -> Nat]]
  /\ announced \in [Escrows -> Nat]

LEMMA PodKeepsTypes == ASSUME PodTyped, QrNext PROVE PodTyped'
<1>1. CASE UNCHANGED <<delivered, signing, signatures, heard, announced>>
  BY <1>1 DEF PodTyped
<1>3. ASSUME NEW e \in Escrows, SaveSignature(e)
      PROVE  PodTyped'
  <2>1. signing' \in [Escrows -> [mark : Nat, emit : Nat]]
    BY <1>3 DEF SaveSignature, PodTyped
  <2>2. signatures' \in 0 .. MaxSignatures
    BY <1>3, QuickPayAssumption DEF SaveSignature, PodTyped
  <2> QED
    BY <1>3, <2>1, <2>2 DEF SaveSignature, PodTyped
<1>4. ASSUME NEW e \in Escrows, MarkDelivered(e)
      PROVE  PodTyped'
  <2>1. signing' \in [Escrows -> [mark : Nat, emit : Nat]]
    BY <1>4 DEF MarkDelivered, PodTyped
  <2> QED
    BY <1>4, <2>1 DEF MarkDelivered, PodTyped
<1>5. ASSUME NEW e \in Escrows, EmitVerified(e)
      PROVE  PodTyped'
  <2>1. signing' \in [Escrows -> [mark : Nat, emit : Nat]]
    <3>1. /\ signing \in [Escrows -> [mark : Nat, emit : Nat]]
          /\ signing[e].emit > 0 /\ signing' = [signing EXCEPT ![e].emit = @ - 1]
      BY <1>5 DEF EmitVerified, PodTyped
    <3> QED
      BY <3>1
  <2>2. announced' \in [Escrows -> Nat]
    BY <1>5 DEF EmitVerified, PodTyped
  <2>3. heard' \in [Escrows -> [Listening -> Nat]]
    <3>1. heard \in [Escrows -> [Listening -> Nat]]
      BY DEF PodTyped
    <3> DEFINE g == heard[e]
               m == g.escrow + 1
               n == g.quickPay + IF QuickPay THEN 1 ELSE 0
    <3>2. g \in [Listening -> Nat] /\ m \in Nat /\ n \in Nat
      BY <3>1 DEF Listening
    <3>3. heard' = [heard EXCEPT ![e] = [g EXCEPT !.escrow = m, !.quickPay = n]]
      BY <1>5, <3>1 DEF EmitVerified
    <3> HIDE DEF g, m, n
    <3>4. [g EXCEPT !.escrow = m, !.quickPay = n] \in [Listening -> Nat]
      BY <3>2 DEF Listening
    <3> QED
      BY <3>1, <3>3, <3>4
  <2> QED
    BY <1>5, <2>1, <2>2, <2>3 DEF EmitVerified, PodTyped
<1>6. ASSUME NEW e \in Escrows, SignerDies(e)
      PROVE  PodTyped'
  <2>1. signing' \in [Escrows -> [mark : Nat, emit : Nat]]
    BY <1>6 DEF SignerDies, PodTyped
  <2> QED
    BY <1>6, <2>1 DEF SignerDies, PodTyped
<1>7. ASSUME NEW e \in Escrows, Listen(e)
      PROVE  PodTyped'
  <2>1. heard \in [Escrows -> [Listening -> Nat]]
    BY DEF PodTyped
  <2>2. CASE FindBlocked(e)
    <3>1. heard' \in [Escrows -> [Listening -> Nat]]
      <4> DEFINE g == heard[e]
                 m == g.escrow - 1
                 n == g.release + IF Blocked(e) THEN 1 ELSE 0
      <4>1. g \in [Listening -> Nat] /\ m \in Nat /\ n \in Nat
        BY <2>1, <2>2 DEF FindBlocked, Listening
      <4>2. heard' = [heard EXCEPT ![e] = [g EXCEPT !.escrow = m, !.release = n]]
        BY <2>1, <2>2 DEF FindBlocked
      <4> HIDE DEF g, m, n
      <4>3. [g EXCEPT !.escrow = m, !.release = n] \in [Listening -> Nat]
        BY <4>1 DEF Listening
      <4> QED
        BY <2>1, <4>2, <4>3
    <3> QED
      BY <2>2, <3>1 DEF FindBlocked, PodTyped
  <2>3. ASSUME NEW h \in Handlers, ReleaseOnDelivery(h, e)
        PROVE  PodTyped'
    <3>1. heard' \in [Escrows -> [Listening -> Nat]]
      BY <2>1, <2>3 DEF ReleaseOnDelivery, Listening
    <3> QED
      BY <2>3, <3>1 DEF ReleaseOnDelivery, PodTyped
  <2>4. ASSUME NEW h \in Handlers, HandleQuickPay(h, e)
        PROVE  PodTyped'
    <3>1. heard' \in [Escrows -> [Listening -> Nat]]
      BY <2>1, <2>4 DEF HandleQuickPay, Listening
    <3> QED
      BY <2>4, <3>1 DEF HandleQuickPay, PodTyped
  <2> QED
    BY <1>7, <2>2, <2>3, <2>4 DEF Listen
<1>8. CASE \E h \in Handlers : Escrowed(h) \/ DoQuickConfirm(h)
  BY <1>1, <1>8 DEF Escrowed, DoQuickConfirm, podVars
<1>9. CASE \/ \E q \in Codes : Scan(q)
           \/ \E q \in Codes, e \in Escrows, c \in Checkpoints : GenerateQR(q, e, c)
  BY <1>1, <1>9 DEF Scan, CheckCode, SaveUsed, ProcessQrScan, GenerateQR, deliveryVars, podVars
<1> QED
  BY <1>3, <1>4, <1>5, <1>6, <1>7, <1>8, <1>9 DEF QrNext, DeliveryNext, Sign

(* The scans of a code under way stay few. *)
ScansBounded == \A q \in Codes : scans[q].save + scans[q].process <= Overlap

LEMMA ScansStayBounded == ASSUME CodesTyped, ScansBounded, QrNext PROVE ScansBounded'
<1>1. CASE scans' = scans
  BY <1>1 DEF ScansBounded
<1>2. ASSUME NEW q \in Codes, Scan(q)
      PROVE  ScansBounded'
  <2>1. /\ scans[q].save \in Nat /\ scans[q].process \in Nat /\ Overlap \in Nat
        /\ scans[q].save + scans[q].process <= Overlap
    BY OverlapAssumption DEF CodesTyped, ScansBounded
  <2>2. \A p \in Codes : p # q => scans'[p] = scans[p]
    BY <1>2 DEF CodesTyped, Scan, CheckCode, SaveUsed, ProcessQrScan
  <2>3. scans'[q].save + scans'[q].process <= Overlap
    <3>1. CASE CheckCode(q)
      BY <2>1, <3>1 DEF CheckCode, CodesTyped
    <3>2. CASE SaveUsed(q)
      BY <2>1, <3>2 DEF SaveUsed, CodesTyped
    <3>3. CASE ProcessQrScan(q)
      BY <2>1, <3>3 DEF ProcessQrScan, CodesTyped
    <3> QED
      BY <1>2, <3>1, <3>2, <3>3 DEF Scan
  <2> QED
    BY <2>2, <2>3 DEF ScansBounded
<1>3. CASE DeliveryNext /\ UNCHANGED qrVars
  BY <1>1, <1>3 DEF qrVars
<1>4. CASE \E q \in Codes, e \in Escrows, c \in Checkpoints : GenerateQR(q, e, c)
  BY <1>1, <1>4 DEF GenerateQR
<1> QED
  BY <1>2, <1>3, <1>4 DEF QrNext

Typed == Evidenced /\ BooksTyped /\ PodTyped /\ ScansBounded

-----------------------------------------------------------------------------
(* The sum of the payouts.  It may fall, where the commission exceeds the  *)
(* amount, so it is what the gains add up to less what the losses do.      *)

Gains == [e \in Escrows |-> IF Payout(e) > 0 THEN Payout(e) ELSE 0]
Losses == [e \in Escrows |-> IF Payout(e) < 0 THEN 0 - Payout(e) ELSE 0]
Net(S) == Total(Gains, S) - Total(Losses, S)

(* A finite set has finitely many units. *)
LEMMA UnitsAreFinite ==
  ASSUME NEW S, IsFiniteSet(S), NEW f, \A x \in S : f[x] \in Nat
  PROVE  IsFiniteSet(Units(f, S))
<1> DEFINE some == {{x} \X (1 .. f[x]) : x \in S}
           give == [x \in S |-> {x} \X (1 .. f[x])]
<1>1. IsFiniteSet(some)
  <2>1. give \in Surjection(S, some)
    BY DEF Surjection
  <2> HIDE DEF give, some
  <2> QED
    BY <2>1, FS_Surjection
<1>2. ASSUME NEW s \in some
      PROVE  IsFiniteSet(s)
  <2>1. PICK x \in S : s = {x} \X (1 .. f[x])
    OBVIOUS
  <2> QED
    BY <2>1, UnitsOfOne
<1> QED
  BY <1>1, <1>2, FS_UNION DEF Units

LEMMA NetOfRest ==
  ASSUME NEW S \in SUBSET Escrows, IsFiniteSet(S), NEW e \in S
  PROVE  Net(S) = Payout(e) + Net(S \ {e}) /\ Net(S \ {e}) \in Int
<1>1. IsFiniteSet(S \ {e})
  BY FS_Subset
<1>2. Payout(e) \in Int /\ \A x \in Escrows : Gains[x] \in Nat /\ Losses[x] \in Nat
  BY AmountsAssumption, QuickPayAssumption DEF Payout, Gains, Losses
<1>3. /\ IsFiniteSet(Units(Gains, S \ {e})) /\ IsFiniteSet(Units(Losses, S \ {e}))
      /\ Total(Gains, S \ {e}) \in Nat /\ Total(Losses, S \ {e}) \in Nat
  BY <1>1, <1>2, UnitsAreFinite, FS_CardinalityType DEF Total
<1>4. /\ Total(Gains, S) = Total(Gains, S \ {e}) + Gains[e]
      /\ Total(Losses, S) = Total(Losses, S \ {e}) + Losses[e]
  BY <1>2, <1>3, TotalOfRest
<1>5. Gains[e] - Losses[e] = Payout(e)
  BY <1>2 DEF Gains, Losses
<1> QED
  BY <1>2, <1>3, <1>4, <1>5 DEF Net

(* The recursion of the sum computes it: a smallest set on which it went   *)
(* wrong would have a smaller one.                                         *)
LEMMA SumIsNet ==
  ASSUME NEW S \in SUBSET Escrows, IsFiniteSet(S)
  PROVE  MapThenSumSet(Payout, S) = Net(S)
<1>1. ASSUME NEW B \in SUBSET (SUBSET S), B # {}
      PROVE  \E s \in B : \A t \in B : ~(t \subseteq s /\ t # s)
  <2>1. IsWellFoundedOn(StrictSubsetOrdering(S), SUBSET S)
    BY FS_StrictSubsetOrderingWellFounded, FS_FiniteSubsetsOfFinite
  <2>2. \E s \in B : \A t \in B : ~ (<<t, s>> \in StrictSubsetOrdering(S))
    BY <1>1, <2>1, WFMin
  <2> QED
    BY <2>2 DEF StrictSubsetOrdering
<1> DEFINE pick(s) == CHOOSE x \in s : TRUE
           Sums(g) == g = [s \in SUBSET S |->
                             IF s = {} THEN 0 ELSE Payout(pick(s)) + g[s \ {pick(s)}]]
           net == [s \in SUBSET S |-> Net(s)]
<1>2. Sums(net)
  <2> SUFFICES ASSUME NEW s \in SUBSET S
               PROVE  Net(s) = IF s = {} THEN 0 ELSE Payout(pick(s)) + Net(s \ {pick(s)})
    OBVIOUS
  <2>1. CASE s = {}
    <3>1. Total(Gains, s) = 0 /\ Total(Losses, s) = 0
      BY <2>1, TotalOfNothing
    <3> QED
      BY <2>1, <3>1 DEF Net
  <2>2. CASE s # {}
    <3>1. pick(s) \in s /\ IsFiniteSet(s) /\ s \in SUBSET Escrows
      BY <2>2, FS_Subset
    <3> HIDE DEF pick
    <3> QED
      BY <2>2, <3>1, NetOfRest
  <2> QED
    BY <2>1, <2>2
<1> DEFINE iter == CHOOSE g : Sums(g)
<1>3. Sums(iter)
  <2> HIDE DEF Sums
  <2> QED
    BY <1>2
<1>4. MapThenSumSet(Payout, S) = iter[S]
  BY DEF MapThenSumSet, MapThenFoldSet
<1> HIDE DEF iter
<1>5. ASSUME NEW s \in SUBSET S PROVE iter[s] = Net(s)
  <2> DEFINE B == {t \in SUBSET S : iter[t] # Net(t)}
  <2> SUFFICES ASSUME B # {} PROVE FALSE
    OBVIOUS
  <2>1. B \in SUBSET (SUBSET S)
    OBVIOUS
  <2>2. PICK t \in B : \A u \in B : ~(u \subseteq t /\ u # t)
    <3> HIDE DEF B
    <3> QED
      BY <1>1, <2>1
  <2>3. CASE t = {}
    <3>1. iter[t] = 0 /\ net[t] = 0 /\ net[t] = Net(t)
      BY <1>2, <1>3, <2>2, <2>3
    <3> QED
      BY <2>2, <3>1
  <2>4. CASE t # {}
    <3>1. pick(t) \in t
      BY <2>4
    <3>2. iter[t] = Payout(pick(t)) + iter[t \ {pick(t)}]
      BY <1>3, <2>4
    <3>3. Net(t) = Payout(pick(t)) + Net(t \ {pick(t)})
      BY <1>2, <2>4
    <3> HIDE DEF pick
    <3>4. iter[t \ {pick(t)}] = Net(t \ {pick(t)})
      BY <2>2, <3>1
    <3> QED
      BY <2>2, <3>2, <3>3, <3>4
  <2> QED
    BY <2>3, <2>4
<1> QED
  BY <1>4, <1>5

(* One escrow more that quick pay has paid. *)
LEMMA OneMorePayout ==
  ASSUME NEW S \in SUBSET Escrows, IsFiniteSet(S), NEW e \in Escrows
  PROVE  /\ IsFiniteSet(S \cup {e})
         /\ MapThenSumSet(Payout, S) \in Int
         /\ MapThenSumSet(Payout, S \cup {e})
              = MapThenSumSet(Payout, S) + IF e \in S THEN 0 ELSE Payout(e)
<1>1. IsFiniteSet(S \cup {e}) /\ S \cup {e} \in SUBSET Escrows
  BY FS_AddElement
<1>2. MapThenSumSet(Payout, S) = Net(S) /\ MapThenSumSet(Payout, S \cup {e}) = Net(S \cup {e})
  BY <1>1, SumIsNet
<1>3. Payout(e) \in Int /\ Net(S) \in Int
  <2>1. Total(Gains, S) \in Nat /\ Total(Losses, S) \in Nat
    <3>1. \A x \in S : Gains[x] \in Nat /\ Losses[x] \in Nat
      BY AmountsAssumption, QuickPayAssumption DEF Payout, Gains, Losses
    <3> QED
      BY <3>1, UnitsAreFinite, FS_CardinalityType DEF Total
  <2> QED
    BY <2>1, AmountsAssumption, QuickPayAssumption DEF Net, Payout
<1>4. CASE e \in S
  <2>1. S \cup {e} = S
    BY <1>4
  <2> QED
    BY <1>1, <1>2, <1>3, <1>4, <2>1
<1>5. CASE e \notin S
  <2>1. (S \cup {e}) \ {e} = S
    BY <1>5
  <2>2. Net(S \cup {e}) = Payout(e) + Net(S)
    BY <1>1, <2>1, NetOfRest
  <2> QED
    BY <1>1, <1>2, <1>3, <1>5, <2>2
<1> QED
  BY <1>4, <1>5

-----------------------------------------------------------------------------
(* Quick pay and pendingRelease.  What is released is owed until it is     *)
(* confirmed, and quick pay takes what was never released, once for each   *)
(* of the escrows it has a key of.                                         *)

QuickFits(e, todo) ==
  \A i \in 1 .. Len(todo) : todo[i].do = "quickConfirm" => todo[i].n = Payout(e)

ListsRight == \A h \in Handlers : job[h] # NoJob => Paired(job[h].todo) /\ QuickFits(job[h].e, job[h].todo)

QuickRight ==
  /\ IsFiniteSet(quickPaid)
  /\ ListsRight
  /\ IsFiniteSet(Units(Dues(job), Handlers))
  /\ carrier.pending >= Total(Dues(job), Handlers) - MapThenSumSet(Payout, quickPaid)

(* An operation begins by releasing before it confirms, or by neither.     *)
LEMMA ListedWhole ==
  ASSUME NEW e \in Escrows, NEW op, NEW todo, Listed(op, e, todo)
  PROVE  Whole(todo) /\ todo # << >> /\ Len(todo) \in Nat /\ Len(todo) > 0 /\ QuickFits(e, todo)
<1>1. ASSUME todo \in Seq(Writes)
      PROVE  QuickFits(e, todo)
  <2>1. \A i \in 1 .. Len(todo) : todo[i] \in Writes
    BY <1>1
  <2> QED
    BY <2>1 DEF Writes, QuickFits
<1>2. CASE op = "release" /\ \E row \in Row : todo = Assessed(e, row)
  <2>1. todo \in Seq(Writes) /\ todo # << >> /\ Whole(todo)
    BY <1>2, WholeAssessed
  <2> QED
    BY <1>1, <2>1
<1>3. CASE op = "quickPay" /\ \E row \in Row : todo = <<Save(row), QuickConfirm(Payout(e))>>
  <2>1. PICK row \in Row : todo = <<Save(row), QuickConfirm(Payout(e))>>
    BY <1>3
  <2>2. /\ todo # << >> /\ Len(todo) = 2 /\ todo[1] = Save(row)
        /\ todo[2] = QuickConfirm(Payout(e)) /\ todo \in Seq({todo[1], todo[2]})
    BY <2>1
  <2>3. /\ Save(row).do = "save" /\ QuickConfirm(Payout(e)).do = "quickConfirm"
        /\ QuickConfirm(Payout(e)).n = Payout(e)
    BY DEF Save, QuickConfirm
  <2>4. \A i \in 1 .. Len(todo) : /\ todo[i].do \notin {"release", "confirm"}
                                  /\ todo[i].do = "quickConfirm" => todo[i].n = Payout(e)
    BY <2>2, <2>3
  <2>5. Whole(todo)
    BY <2>2, <2>4, WholeOthers
  <2> QED
    BY <2>2, <2>4, <2>5 DEF QuickFits
<1>4. CASE /\ todo \in Seq(Writes) \ {<< >>}
           /\ \A i \in 1 .. Len(todo) : todo[i].do \notin {"release", "confirm", "creditCarrier"}
  <2>1. Whole(todo)
    BY <1>4, WholeOthers
  <2> QED
    BY <1>1, <1>4, <2>1
<1> QED
  BY <1>2, <1>3, <1>4 DEF Listed

(* The dues, when one handler's list changes. *)
LEMMA OneListDue ==
  ASSUME BooksTyped, QuickRight, NEW h \in Handlers, NEW next, job' = [job EXCEPT ![h] = next],
         Owed(job[h]) \in Nat, Owed(next) \in Nat,
         next # NoJob => Paired(next.todo) /\ QuickFits(next.e, next.todo)
  PROVE  /\ ListsRight'
         /\ IsFiniteSet(Units(Dues(job'), Handlers))
         /\ Total(Dues(job'), Handlers) = Total(Dues(job), Handlers) - Owed(job[h]) + Owed(next)
         /\ Total(Dues(job), Handlers) \in Nat
<1>1. job'[h] = next /\ \A g \in Handlers \ {h} : job'[g] = job[g]
  BY DEF BooksTyped
<1>2. ListsRight'
  BY <1>1 DEF QuickRight, ListsRight
<1>3. Owed(job'[h]) = Owed(next) /\ Owed(job'[h]) \in Nat
  BY <1>1
<1>4. /\ IsFiniteSet(Units(Dues(job'), Handlers))
      /\ Total(Dues(job'), Handlers) = Total(Dues(job), Handlers) - Owed(job[h]) + Owed(job'[h])
      /\ Total(Dues(job), Handlers) \in Nat
  BY <1>1, <1>3, OneDue DEF QuickRight
<1> QED
  BY <1>2, <1>3, <1>4

(* What a list is about to confirm is no less than nothing. *)
LEMMA OwedIsNat ==
  ASSUME BooksTyped, ListsRight, NEW h \in Handlers
  PROVE  Owed(job[h]) \in Nat
<1>1. CASE job[h] = NoJob
  BY <1>1 DEF Owed
<1>2. CASE job[h] # NoJob
  <2>1. job[h].todo \in Seq(QuickWrites) /\ job[h].todo # << >> /\ Paired(job[h].todo)
    BY <1>2, FirstWrite DEF ListsRight
  <2>2. Head(job[h].todo).do = "confirm" => Head(job[h].todo).n \in Nat
    BY <2>1, PairedTail
  <2> QED
    BY <2>2 DEF Owed
<1> QED
  BY <1>1, <1>2

(* An operation is taken up, or ends. *)
LEMMA BeginsQuick ==
  ASSUME BooksTyped, QuickRight, NEW h \in Handlers, NEW e \in Escrows, NEW op, NEW todo,
         Begins(h, op, e, todo)
  PROVE  QuickRight'
<1> DEFINE new == [op |-> op, e |-> e, todo |-> todo]
<1>1. /\ job[h] = NoJob /\ job' = [job EXCEPT ![h] = new]
      /\ carrier' = carrier /\ quickPaid' = quickPaid
  BY DEF Begins, Take
<1>2. Whole(todo) /\ Len(todo) > 0 /\ Len(todo) \in Nat /\ QuickFits(e, todo)
  BY ListedWhole DEF Begins
<1>3. new.e = e /\ new.todo = todo /\ Head(todo) = todo[1]
  OBVIOUS
<1> HIDE DEF new
<1>4. Owed(job[h]) = 0 /\ Owed(new) = 0
  BY <1>1, <1>2, <1>3 DEF Owed, Whole
<1>5. Paired(new.todo) /\ QuickFits(new.e, new.todo)
  BY <1>2, <1>3 DEF Whole
<1>6. Owed(job[h]) \in Nat /\ Owed(new) \in Nat
  BY <1>4
<1>7. /\ ListsRight'
      /\ IsFiniteSet(Units(Dues(job'), Handlers))
      /\ Total(Dues(job'), Handlers) = Total(Dues(job), Handlers) - Owed(job[h]) + Owed(new)
      /\ Total(Dues(job), Handlers) \in Nat
  BY <1>1, <1>5, <1>6, OneListDue
<1>8. Total(Dues(job'), Handlers) = Total(Dues(job), Handlers)
  BY <1>4, <1>7
<1> QED
  BY <1>1, <1>7, <1>8 DEF QuickRight

LEMMA StopsQuick ==
  ASSUME BooksTyped, QuickRight, NEW h \in Handlers, Stops(h)
  PROVE  QuickRight'
<1>1. /\ job' = [job EXCEPT ![h] = NoJob] /\ carrier' = carrier /\ quickPaid' = quickPaid
  BY DEF Stops, Drop
<1>2. Owed(job[h]) \in Nat /\ Owed(NoJob) = 0 /\ Owed(NoJob) \in Nat
  BY OwedIsNat DEF Owed, QuickRight
<1>3. /\ ListsRight'
      /\ IsFiniteSet(Units(Dues(job'), Handlers))
      /\ Total(Dues(job'), Handlers) = Total(Dues(job), Handlers) - Owed(job[h]) + Owed(NoJob)
      /\ Total(Dues(job), Handlers) \in Nat
  BY <1>1, <1>2, OneListDue
<1>4. carrier.pending \in Int /\ MapThenSumSet(Payout, quickPaid) \in Int
  <2>1. IsFiniteSet(quickPaid) /\ quickPaid \in SUBSET Escrows /\ job[h].e \in Escrows
    BY FirstWrite DEF BooksTyped, QuickRight, Stops
  <2> QED
    BY <2>1, OneMorePayout DEF BooksTyped, Wallet
<1>5. carrier.pending >= Total(Dues(job), Handlers) - MapThenSumSet(Payout, quickPaid)
  BY DEF QuickRight
<1> DEFINE before == Total(Dues(job), Handlers)
           after == Total(Dues(job'), Handlers)
           sum == MapThenSumSet(Payout, quickPaid)
           owed == Owed(job[h])
<1>6. carrier.pending >= after - sum
  <2>1. /\ carrier.pending \in Int /\ sum \in Int /\ before \in Nat /\ owed \in Nat
        /\ after = before - owed + 0 /\ carrier.pending >= before - sum
    BY <1>2, <1>3, <1>4, <1>5
  <2> HIDE DEF before, after, sum, owed
  <2> QED
    BY <2>1
<1> QED
  BY <1>1, <1>3, <1>6 DEF QuickRight

(* A write is made: what it releases is owed, what it confirms was owed,   *)
(* and a payout is taken when its escrow gets its key.                     *)
LEMMA MakesQuick ==
  ASSUME BooksTyped, QuickRight, NEW h \in Handlers, Makes(h)
  PROVE  QuickRight'
<1> DEFINE j == job[h]
           w == Head(j.todo)
           e == j.e
           next == IF Tail(j.todo) = << >> THEN NoJob ELSE [j EXCEPT !.todo = Tail(j.todo)]
           before == Total(Dues(job), Handlers)
           after == Total(Dues(job'), Handlers)
           sum == MapThenSumSet(Payout, quickPaid)
           sumAfter == MapThenSumSet(Payout, quickPaid')
<1>1. /\ j # NoJob /\ e \in Escrows /\ j.todo \in Seq(QuickWrites) /\ j.todo # << >>
      /\ j = [op |-> j.op, e |-> j.e, todo |-> j.todo]
      /\ w \in QuickWrites /\ Paired(j.todo) /\ QuickFits(e, j.todo)
  BY FirstWrite DEF Makes, QuickRight, ListsRight
<1>2. job' = [job EXCEPT ![h] = next]
  BY DEF Makes, Advance
<1>3. /\ next # NoJob => Paired(next.todo)
      /\ Owed(j) \in Nat /\ Owed(next) \in Nat
      /\ w.do = "confirm" => Owed(j) = w.n
      /\ w.do # "confirm" => Owed(j) = 0
      /\ w.do = "release" => w.n \in Nat /\ Owed(next) = IF next = NoJob THEN 0 ELSE w.n
      /\ w.do # "release" => Owed(next) = 0
  BY <1>1, AfterWrite
<1>4. next # NoJob => QuickFits(next.e, next.todo)
  <2> SUFFICES ASSUME next # NoJob PROVE QuickFits(next.e, next.todo)
    OBVIOUS
  <2> DEFINE rest == Tail(j.todo)
  <2>1. next.e = e /\ next.todo = rest
    BY <1>1
  <2>2. /\ Len(rest) = Len(j.todo) - 1 /\ Len(j.todo) \in Nat
        /\ \A i \in 1 .. Len(rest) : rest[i] = j.todo[i + 1]
    BY <1>1
  <2> HIDE DEF rest, next
  <2> QED
    BY <1>1, <2>1, <2>2 DEF QuickFits
<1>5. w.do = "quickConfirm" => w.n = Payout(e)
  BY <1>1 DEF QuickFits
<1> HIDE DEF next
<1>6. /\ ListsRight'
      /\ IsFiniteSet(Units(Dues(job'), Handlers))
      /\ after = before - Owed(j) + Owed(next) /\ before \in Nat
  BY <1>2, <1>3, <1>4, OneListDue
<1>7. /\ carrier.pending \in Int /\ carrier'.pending = carrier.pending + Pending(h)
      /\ carrier.pending >= before - sum
      /\ quickPaid' = IF w.do = "quickConfirm" THEN quickPaid \cup {e} ELSE quickPaid
  BY DEF BooksTyped, Wallet, Makes, QuickRight
<1>8. /\ IsFiniteSet(quickPaid')
      /\ sum \in Int /\ Payout(e) \in Int
      /\ sumAfter = sum + IF w.do = "quickConfirm" /\ e \notin quickPaid THEN Payout(e) ELSE 0
  <2>1. IsFiniteSet(quickPaid) /\ quickPaid \in SUBSET Escrows
    BY DEF BooksTyped, QuickRight
  <2>2. Payout(e) \in Int
    BY <1>1, AmountsAssumption, QuickPayAssumption DEF Payout
  <2>3. /\ IsFiniteSet(quickPaid \cup {e}) /\ sum \in Int
        /\ MapThenSumSet(Payout, quickPaid \cup {e}) = sum + IF e \in quickPaid THEN 0 ELSE Payout(e)
    BY <1>1, <2>1, OneMorePayout
  <2>4. CASE w.do = "quickConfirm"
    <3>1. quickPaid' = quickPaid \cup {e}
      BY <1>7, <2>4
    <3>2. sumAfter = MapThenSumSet(Payout, quickPaid \cup {e})
      BY <3>1
    <3> HIDE DEF sum, sumAfter
    <3> QED
      BY <2>2, <2>3, <2>4, <3>1, <3>2
  <2>5. CASE w.do # "quickConfirm"
    <3>1. quickPaid' = quickPaid
      BY <1>7, <2>5
    <3>2. sumAfter = sum
      BY <3>1
    <3> HIDE DEF sum, sumAfter
    <3> QED
      BY <2>1, <2>2, <2>3, <2>5, <3>1, <3>2
  <2> QED
    BY <2>4, <2>5
<1>9. Pending(h) = IF w.do = "release" THEN w.n
                   ELSE IF w.do = "confirm" THEN 0 - w.n
                   ELSE IF w.do = "quickConfirm" /\ e \notin quickPaid THEN 0 - w.n
                   ELSE 0
  <2>1. Payment(h) = IF \/ w.do = "confirm" \/ w.do = "creditCarrier"
                        \/ w.do = "quickConfirm" /\ e \notin quickPaid
                     THEN w.n ELSE 0
    BY DEF Payment
  <2>2. Pending(h) = IF w.do = "release" THEN w.n ELSE
                     IF w.do = "creditCarrier" THEN 0 ELSE 0 - Payment(h)
    BY DEF Pending
  <2> HIDE DEF w, e
  <2> QED
    BY <2>1, <2>2
<1>10. carrier'.pending >= after - sumAfter
  <2>1. Owed(j) \in Nat /\ Owed(next) \in Nat
    BY <1>3
  <2> HIDE DEF w, e, j, before, after, sum, sumAfter
  <2>2. CASE w.do = "release"
    BY <1>3, <1>6, <1>7, <1>8, <1>9, <2>2
  <2>3. CASE w.do = "confirm"
    BY <1>3, <1>6, <1>7, <1>8, <1>9, <2>3
  <2>4. CASE w.do = "quickConfirm" /\ e \notin quickPaid
    BY <1>3, <1>5, <1>6, <1>7, <1>8, <1>9, <2>4
  <2>5. CASE w.do \notin {"release", "confirm"} /\ ~(w.do = "quickConfirm" /\ e \notin quickPaid)
    BY <1>3, <1>6, <1>7, <1>8, <1>9, <2>5
  <2> QED
    BY <2>2, <2>3, <2>4, <2>5
<1> QED
  BY <1>6, <1>8, <1>10 DEF QuickRight

LEMMA HandledQuick == ASSUME BooksTyped, QuickRight, Handled PROVE QuickRight'
<1>1. CASE Rests
  BY <1>1 DEF Rests, QuickRight, ListsRight
<1>2. ASSUME NEW h \in Handlers, NEW e \in Escrows, NEW op, NEW todo, Begins(h, op, e, todo)
      PROVE  QuickRight'
  BY <1>2, BeginsQuick
<1>3. ASSUME NEW h \in Handlers, Makes(h) \/ Stops(h)
      PROVE  QuickRight'
  BY <1>3, MakesQuick, StopsQuick
<1> QED
  BY <1>1, <1>2, <1>3 DEF Handled

-----------------------------------------------------------------------------
(* What a list pays at most: left[i] is what the writes after i may pay.   *)

Spent(w) == IF w.do = "confirm" \/ w.do = "creditCarrier" THEN w.n ELSE 0

Spends(todo, cap) ==
  \E left \in [0 .. Len(todo) -> Nat] :
    /\ left[0] <= cap
    /\ \A i \in 1 .. Len(todo) : Spent(todo[i]) \in Int /\ left[i - 1] >= left[i] + Spent(todo[i])

(* A list that pays nothing. *)
LEMMA SpendsNothing ==
  ASSUME NEW S, NEW todo \in Seq(S),
         \A i \in 1 .. Len(todo) : todo[i].do \notin {"confirm", "creditCarrier"},
         NEW cap \in Nat
  PROVE  Spends(todo, cap)
<1> DEFINE left == [i \in 0 .. Len(todo) |-> 0]
<1>1. left \in [0 .. Len(todo) -> Nat] /\ Len(todo) \in Nat
  OBVIOUS
<1>2. left[0] = 0 /\ \A i \in 1 .. Len(todo) : left[i - 1] = 0 /\ left[i] = 0
  BY <1>1
<1>3. \A i \in 1 .. Len(todo) : Spent(todo[i]) = 0
  BY DEF Spent
<1> HIDE DEF left
<1>4. \A i \in 1 .. Len(todo) : Spent(todo[i]) \in Int /\ left[i - 1] >= left[i] + Spent(todo[i])
  BY <1>2, <1>3
<1>5. left[0] <= cap
  BY <1>2
<1> QED
  BY <1>1, <1>4, <1>5 DEF Spends

(* A payment of n pays n. *)
LEMMA SpendsPay ==
  ASSUME NEW n \in Nat
  PROVE  Spends(Pay(n), n)
<1> DEFINE left == [i \in 0 .. 2 |-> IF i = 2 THEN 0 ELSE n]
           todo == Pay(n)
<1>1. /\ Len(todo) = 2 /\ todo[1] = Release(n) /\ todo[2] = Confirm(n)
  BY DEF Pay
<1>2. Spent(Release(n)) = 0 /\ Spent(Confirm(n)) = n
  BY DEF Spent, Release, Confirm
<1>3. /\ left \in [0 .. Len(todo) -> Nat]
      /\ left[0] = n /\ left[1] = n /\ left[2] = 0
  BY <1>1
<1> HIDE DEF left, todo
<1>4. \A i \in 1 .. Len(todo) : Spent(todo[i]) \in Int /\ left[i - 1] >= left[i] + Spent(todo[i])
  <2>1. \A i \in 1 .. Len(todo) : i = 1 \/ i = 2
    BY <1>1
  <2>2. 1 - 1 = 0 /\ 2 - 1 = 1
    OBVIOUS
  <2> QED
    BY <1>1, <1>2, <1>3, <2>1, <2>2
<1>5. left[0] <= n
  BY <1>3
<1>6. Spends(todo, n)
  BY <1>3, <1>4, <1>5 DEF Spends
<1> QED
  BY <1>6 DEF todo

(* Two lists pay what they pay each. *)
LEMMA SpendsTogether ==
  ASSUME NEW S, NEW a \in Seq(S), NEW b \in Seq(S), NEW m \in Nat, NEW n \in Nat,
         Spends(a, m), Spends(b, n), NEW cap \in Nat, m + n <= cap
  PROVE  Spends(a \o b, cap)
<1> DEFINE c == a \o b
           k == Len(a)
           l == Len(b)
<1>1. /\ k \in Nat /\ l \in Nat /\ Len(c) = k + l
      /\ \A i \in 1 .. k : c[i] = a[i]
      /\ \A i \in 1 .. l : c[k + i] = b[i]
  OBVIOUS
<1>2. PICK f \in [0 .. k -> Nat] :
        /\ f[0] <= m
        /\ \A i \in 1 .. k : Spent(a[i]) \in Int /\ f[i - 1] >= f[i] + Spent(a[i])
  BY DEF Spends
<1>3. PICK g \in [0 .. l -> Nat] :
        /\ g[0] <= n
        /\ \A i \in 1 .. l : Spent(b[i]) \in Int /\ g[i - 1] >= g[i] + Spent(b[i])
  BY DEF Spends
<1> DEFINE left == [i \in 0 .. k + l |-> IF i <= k THEN f[i] + g[0] ELSE g[i - k]]
<1> HIDE DEF c, k, l
<1>4. left \in [0 .. k + l -> Nat]
  <2>1. ASSUME NEW i \in 0 .. k + l
        PROVE  (IF i <= k THEN f[i] + g[0] ELSE g[i - k]) \in Nat
    <3>1. CASE i <= k
      <4>1. i \in 0 .. k /\ 0 \in 0 .. l
        BY <1>1, <3>1
      <4>2. f[i] \in Nat /\ g[0] \in Nat
        BY <4>1
      <4> QED
        BY <3>1, <4>2
    <3>2. CASE ~(i <= k)
      <4>1. i - k \in 0 .. l
        BY <1>1, <3>2
      <4> QED
        BY <3>2, <4>1
    <3> QED
      BY <3>1, <3>2
  <2> QED
    BY <2>1
<1>5. ASSUME NEW i \in 1 .. k + l
      PROVE  Spent(c[i]) \in Int /\ left[i - 1] >= left[i] + Spent(c[i])
  <2>1. i \in 0 .. k + l /\ i - 1 \in 0 .. k + l /\ 0 \in 0 .. l
    BY <1>1
  <2>2. CASE i <= k
    <3>1. i \in 1 .. k /\ i - 1 <= k /\ i \in 0 .. k /\ i - 1 \in 0 .. k
      BY <1>1, <2>2
    <3>2. left[i] = f[i] + g[0] /\ left[i - 1] = f[i - 1] + g[0]
      BY <2>1, <2>2, <3>1
    <3>3. Spent(c[i]) \in Int /\ f[i - 1] >= f[i] + Spent(c[i])
      BY <1>1, <1>2, <3>1
    <3>4. f[i] \in Nat /\ f[i - 1] \in Nat /\ g[0] \in Nat
      BY <2>1, <3>1
    <3> QED
      BY <3>2, <3>3, <3>4
  <2>3. CASE ~(i <= k)
    <3> DEFINE p == i - k
    <3>1. /\ p \in 1 .. l /\ k + p = i /\ p \in 0 .. l /\ p - 1 \in 0 .. l
          /\ p - 1 = (i - 1) - k
      BY <1>1, <2>3
    <3>2. left[i] = g[p]
      BY <2>1, <2>3
    <3>3. left[i - 1] >= g[p - 1]
      <4>1. CASE i - 1 <= k
        <5>1. i - 1 = k /\ p - 1 = 0 /\ k \in 0 .. k
          <6>1. i \in Int /\ i > k /\ i - 1 <= k /\ k \in Nat /\ p = i - k
            BY <1>1, <2>3, <4>1
          <6> HIDE DEF p
          <6> QED
            BY <6>1
        <5>2. left[i - 1] = f[k] + g[0]
          BY <2>1, <5>1
        <5>3. f[k] \in Nat /\ g[0] \in Nat
          BY <2>1, <5>1
        <5> QED
          BY <5>1, <5>2, <5>3
      <4>2. CASE ~(i - 1 <= k)
        <5>1. left[i - 1] = g[(i - 1) - k]
          BY <2>1, <4>2
        <5>2. g[p - 1] \in Nat
          BY <3>1
        <5> QED
          BY <3>1, <5>1, <5>2
      <4> QED
        BY <4>1, <4>2
    <3> HIDE DEF p
    <3>4. c[i] = b[p]
      BY <1>1, <3>1
    <3>5. Spent(b[p]) \in Int /\ g[p - 1] >= g[p] + Spent(b[p])
      BY <1>3, <3>1
    <3>6. g[p] \in Nat /\ g[p - 1] \in Nat /\ left[i - 1] \in Nat
      BY <1>4, <2>1, <3>1
    <3> HIDE DEF left
    <3> QED
      BY <3>2, <3>3, <3>4, <3>5, <3>6
  <2> QED
    BY <2>2, <2>3
<1>6. left[0] <= cap
  <2>1. 0 \in 0 .. k + l /\ 0 <= k /\ 0 \in 0 .. k /\ 0 \in 0 .. l
    BY <1>1
  <2>2. left[0] = f[0] + g[0]
    BY <2>1
  <2>3. f[0] \in Nat /\ g[0] \in Nat /\ f[0] <= m /\ g[0] <= n
    BY <1>2, <1>3, <2>1
  <2> QED
    BY <2>2, <2>3
<1> HIDE DEF left
<1>7. Spends(c, cap)
  BY <1>1, <1>4, <1>5, <1>6 DEF Spends
<1> QED
  BY <1>7 DEF c

LEMMA SpendsBeside ==
  ASSUME NEW S, NEW a \in Seq(S), NEW b \in Seq(S), NEW n \in Nat, Spends(a, 0), Spends(b, n)
  PROVE  Spends(a \o b, n) /\ Spends(b \o a, n)
<1>1. 0 \in Nat /\ 0 + n <= n /\ n + 0 <= n
  OBVIOUS
<1>2. Spends(a \o b, n)
  BY <1>1, SpendsTogether
<1>3. Spends(b \o a, n)
  BY <1>1, SpendsTogether
<1> QED
  BY <1>2, <1>3

LEMMA SpendsMore ==
  ASSUME NEW S, NEW todo \in Seq(S), NEW n \in Nat, NEW cap \in Nat, n <= cap, Spends(todo, n)
  PROVE  Spends(todo, cap)
<1>1. PICK f \in [0 .. Len(todo) -> Nat] :
        /\ f[0] <= n
        /\ \A i \in 1 .. Len(todo) : Spent(todo[i]) \in Int /\ f[i - 1] >= f[i] + Spent(todo[i])
  BY DEF Spends
<1>2. f[0] <= cap
  <2>1. f[0] \in Nat
    OBVIOUS
  <2> QED
    BY <1>1, <2>1
<1> QED
  BY <1>1, <1>2 DEF Spends

(* The first write is made: the rest pays no more than what is left. *)
LEMMA SpendsTail ==
  ASSUME NEW S, NEW todo \in Seq(S), todo # << >>, NEW cap \in Nat, Spends(todo, cap)
  PROVE  /\ Spent(Head(todo)) \in Int
         /\ \E rest \in Nat : Spends(Tail(todo), rest) /\ rest + Spent(Head(todo)) <= cap
<1> DEFINE n == Len(todo)
           t == Tail(todo)
<1>1. /\ n \in Nat /\ n > 0 /\ Len(t) = n - 1 /\ Head(todo) = todo[1]
      /\ \A i \in 1 .. n - 1 : t[i] = todo[i + 1]
  OBVIOUS
<1>2. PICK f \in [0 .. n -> Nat] :
        /\ f[0] <= cap
        /\ \A i \in 1 .. n : Spent(todo[i]) \in Int /\ f[i - 1] >= f[i] + Spent(todo[i])
  BY DEF Spends
<1> DEFINE left == [i \in 0 .. n - 1 |-> f[i + 1]]
<1> HIDE DEF n, t
<1>3. left \in [0 .. n - 1 -> Nat] /\ left[0] = f[1]
  <2>1. \A i \in 0 .. n - 1 : i + 1 \in 0 .. n
    BY <1>1
  <2>2. 0 \in 0 .. n - 1 /\ 0 + 1 = 1
    BY <1>1
  <2> QED
    BY <2>1, <2>2
<1>4. ASSUME NEW i \in 1 .. n - 1
      PROVE  Spent(t[i]) \in Int /\ left[i - 1] >= left[i] + Spent(t[i])
  <2>1. i + 1 \in 1 .. n /\ (i + 1) - 1 = i /\ i \in 0 .. n - 1 /\ i - 1 \in 0 .. n - 1
        /\ (i - 1) + 1 = i
    BY <1>1
  <2>2. left[i] = f[i + 1] /\ left[i - 1] = f[i]
    BY <2>1
  <2>3. t[i] = todo[i + 1]
    BY <1>1
  <2>4. Spent(todo[i + 1]) \in Int /\ f[(i + 1) - 1] >= f[i + 1] + Spent(todo[i + 1])
    BY <1>2, <2>1
  <2> QED
    BY <2>1, <2>2, <2>3, <2>4
<1>5. f[1] \in Nat /\ f[0] \in Nat /\ 1 \in 1 .. n /\ 1 - 1 = 0
  BY <1>1
<1>6. Spent(todo[1]) \in Int /\ f[0] >= f[1] + Spent(todo[1])
  BY <1>2, <1>5
<1> HIDE DEF left
<1>7. Spends(t, f[1])
  <2>1. Len(t) = n - 1 /\ left[0] <= f[1]
    BY <1>1, <1>3, <1>5
  <2> QED
    BY <1>3, <1>4, <2>1 DEF Spends
<1>8. f[1] + Spent(todo[1]) <= cap
  BY <1>2, <1>5, <1>6
<1> QED
  BY <1>1, <1>5, <1>6, <1>7, <1>8 DEF t

(* A share is one that was agreed, or an equal part of the amount.         *)
LEMMA ShareIsSmall ==
  ASSUME NEW e \in Escrows, IsMilestone(e), NEW most \in Nat, Price[e] <= most,
         \A i \in DOMAIN Shares[e] : Shares[e][i] <= most, NEW i \in Nat
  PROVE  Share(e, i) <= most
<1>1. Len(Shares[e]) \in Nat /\ Len(Shares[e]) > 0 /\ Price[e] \in Nat
  BY AmountsAssumption DEF IsMilestone
<1>2. Price[e] \div Len(Shares[e]) <= Price[e] /\ Price[e] \div Len(Shares[e]) \in Int
  <2> DEFINE a == Price[e]
             b == Len(Shares[e])
  <2>1. a \in Nat /\ b \in Nat /\ b > 0
    BY <1>1
  <2> HIDE DEF a, b
  <2>2. a \div b \in Int /\ a \div b <= a
    BY <2>1
  <2> QED
    BY <2>2 DEF a, b
<1> QED
  BY <1>1, <1>2 DEF Share

(* A release pays the amount, or a milestone and, with the last, the rest. *)
LEMMA SpendsAssessed ==
  ASSUME NEW e \in Escrows, NEW row \in Row, NEW most \in Nat, Price[e] <= most,
         \A i \in DOMAIN Shares[e] : Shares[e][i] <= most
  PROVE  Spends(Assessed(e, row), most)
<1>1. /\ "ITIRAZ_SURECINDE" \in Statuses /\ "BLOKEDE" \in Statuses
      /\ "TESLIMAT_BEKLENIYOR" \in Statuses /\ "SERBEST_BIRAKILDI" \in Statuses
      /\ TRUE \in BOOLEAN /\ Price[e] \in Nat /\ Price[e] \in Int /\ Price[e] >= 0
  BY AmountsAssumption DEF Statuses
<1>2. ASSUME NEW r \in Row
      PROVE  <<Save(r)>> \in Seq(Writes) /\ Spends(<<Save(r)>>, 0)
  <2> DEFINE todo == <<Save(r)>>
  <2>1. todo \in Seq(Writes) /\ Len(todo) = 1 /\ todo[1] = Save(r)
    BY WriteKinds
  <2>2. Save(r).do = "save"
    BY WriteKinds
  <2> HIDE DEF todo
  <2>3. \A i \in 1 .. Len(todo) : todo[i].do \notin {"confirm", "creditCarrier"}
    BY <2>1, <2>2
  <2>4. Spends(todo, 0)
    BY <2>1, <2>3, SpendsNothing
  <2> QED
    BY <2>1, <2>4 DEF todo
<1>3. ASSUME NEW n \in Int
      PROVE  /\ n >= 0 => Pay(n) \in Seq(Writes) /\ Spends(Pay(n), n)
             /\ PayRest(n) \in Seq(Writes)
             /\ \E m \in Nat : Spends(PayRest(n), m) /\ m = IF n > 0 THEN n ELSE 0
  <2>1. (n >= 0 => Pay(n) \in Seq(Writes)) /\ PayRest(n) \in Seq(Writes)
    BY WholePay
  <2>2. n >= 0 => Spends(Pay(n), n)
    BY SpendsPay
  <2>3. CASE n > 0
    BY <2>1, <2>2, <2>3 DEF PayRest
  <2>4. CASE ~(n > 0)
    <3>1. PayRest(n) = << >> /\ Len(<< >>) = 0 /\ << >> \in Seq(Writes)
      BY <2>4 DEF PayRest
    <3>2. Spends(<< >>, 0)
      <4> DEFINE none == << >>
      <4>1. none \in Seq(Writes) /\ Len(none) = 0
        BY <3>1
      <4>2. \A i \in 1 .. 0 : FALSE
        OBVIOUS
      <4> HIDE DEF none
      <4>3. \A i \in 1 .. Len(none) : none[i].do \notin {"confirm", "creditCarrier"}
        BY <4>1, <4>2
      <4>4. none \in Seq(Writes) /\ 0 \in Nat
        BY <4>1
      <4>5. Spends(none, 0)
        BY <4>3, <4>4, SpendsNothing
      <4> QED
        BY <4>5 DEF none
    <3> QED
      BY <2>1, <2>2, <2>4, <3>1, <3>2
  <2> QED
    BY <2>3, <2>4
<1>4. ASSUME NEW rest \in Seq(Writes), Spends(rest, most)
      PROVE  Spends(<<Save(row)>> \o rest, most)
  BY <1>2, <1>4, SpendsBeside
<1>5. Spends(SingleRelease(e, row), most) /\ SingleRelease(e, row) \in Seq(Writes)
  <2> DEFINE a == <<Save([row EXCEPT !.status = "TESLIMAT_BEKLENIYOR"])>>
             b == <<Save([row EXCEPT !.status = "SERBEST_BIRAKILDI", !.released = @ + Price[e]])>>
  <2>1. a \in Seq(Writes) /\ Spends(a, 0)
    BY <1>1, <1>2, SavedRow
  <2>2. b \in Seq(Writes) /\ Spends(b, 0)
    <3>1. [row EXCEPT !.status = "SERBEST_BIRAKILDI", !.released = @ + Price[e]] \in Row
      BY <1>1, SavedRow
    <3> QED
      BY <1>2, <3>1
  <2>3. Pay(Price[e]) \in Seq(Writes) /\ Spends(Pay(Price[e]), Price[e])
    BY <1>1, <1>3
  <2> HIDE DEF a, b
  <2>4. a \o Pay(Price[e]) \in Seq(Writes)
    BY <2>1, <2>3
  <2>5. Spends(a \o Pay(Price[e]), most)
    <3>1. Spends(a \o Pay(Price[e]), Price[e])
      BY <1>1, <2>1, <2>3, SpendsBeside
    <3> QED
      BY <1>1, <2>4, <3>1, SpendsMore
  <2>6. (a \o Pay(Price[e])) \o b \in Seq(Writes)
    BY <2>2, <2>4
  <2>7. Spends((a \o Pay(Price[e])) \o b, most)
    BY <2>2, <2>4, <2>5, SpendsBeside
  <2> QED
    BY <2>6, <2>7 DEF SingleRelease, a, b
<1>6. ASSUME IsMilestone(e)
      PROVE  Spends(MilestoneRelease(e, row), most) /\ MilestoneRelease(e, row) \in Seq(Writes)
  <2> DEFINE n == Share(e, row.completed + 1)
             next == [row EXCEPT !.completed = @ + 1, !.sent = @ + n]
             a == <<Save([next EXCEPT !.status = "BLOKEDE"])>>
             b == <<Save([next EXCEPT !.status = "SERBEST_BIRAKILDI", !.released = @ + Price[e]])>>
             rest == Price[e] - next.sent
  <2>1. n \in Nat
    BY <1>6, ShareIsNat DEF Row
  <2>2. n <= most
    BY <1>6, ShareIsSmall DEF Row
  <2> HIDE DEF n
  <2>3. next \in Row /\ next.sent = row.sent + n /\ row.sent \in Nat
    <3>1. next \in Row
      BY <1>1, <2>1, SavedRow
    <3> QED
      BY <3>1 DEF Row
  <2> HIDE DEF next
  <2>4. a \in Seq(Writes) /\ Spends(a, 0) /\ b \in Seq(Writes) /\ Spends(b, 0)
    <3>1. [next EXCEPT !.status = "BLOKEDE"] \in Row
      BY <1>1, <2>3, SavedRow
    <3>2. [next EXCEPT !.status = "SERBEST_BIRAKILDI", !.released = @ + Price[e]] \in Row
      BY <1>1, <2>3, SavedRow
    <3> QED
      BY <1>2, <3>1, <3>2
  <2>5. /\ rest \in Int /\ PayRest(rest) \in Seq(Writes)
        /\ \E m \in Nat : Spends(PayRest(rest), m) /\ m = IF rest > 0 THEN rest ELSE 0
    <3>1. rest \in Int
      BY <1>1, <2>1, <2>3
    <3> QED
      BY <1>3, <3>1
  <2>6. PICK m \in Nat : Spends(PayRest(rest), m) /\ m = IF rest > 0 THEN rest ELSE 0
    BY <2>5
  <2>7. n + m <= most
    <3>1. CASE rest > 0
      BY <1>1, <2>1, <2>3, <2>6, <3>1
    <3>2. CASE ~(rest > 0)
      BY <2>1, <2>2, <2>6, <3>2
    <3> QED
      BY <3>1, <3>2
  <2>8. Pay(n) \in Seq(Writes) /\ Spends(Pay(n), n)
    <3>1. n \in Int /\ n >= 0
      BY <2>1
    <3> QED
      BY <1>3, <3>1
  <2>9. MilestoneRelease(e, row) =
          Pay(n) \o (IF next.completed < Len(Shares[e]) THEN a ELSE PayRest(rest) \o b)
    BY DEF MilestoneRelease, n, next
  <2> HIDE DEF a, b, rest
  <2>10. PayRest(rest) \o b \in Seq(Writes) /\ Spends(PayRest(rest) \o b, m)
    BY <2>4, <2>5, <2>6, SpendsBeside
  <2>11. CASE next.completed < Len(Shares[e])
    <3>1. MilestoneRelease(e, row) = Pay(n) \o a
      BY <2>9, <2>11
    <3>2. Spends(Pay(n) \o a, most)
      <4>1. Pay(n) \o a \in Seq(Writes) /\ Spends(Pay(n) \o a, n)
        BY <2>1, <2>4, <2>8, SpendsBeside
      <4> QED
        BY <2>1, <2>2, <4>1, SpendsMore
    <3> QED
      BY <2>4, <2>8, <3>1, <3>2
  <2>12. CASE ~(next.completed < Len(Shares[e]))
    <3>1. MilestoneRelease(e, row) = Pay(n) \o (PayRest(rest) \o b)
      BY <2>9, <2>12
    <3>2. Spends(Pay(n) \o (PayRest(rest) \o b), most)
      BY <2>1, <2>6, <2>7, <2>8, <2>10, SpendsTogether
    <3> QED
      BY <2>8, <2>10, <3>1, <3>2
  <2> QED
    BY <2>11, <2>12
<1>7. ASSUME NEW r \in Row
      PROVE  Spends(<<Save(r)>>, most)
  <2>1. <<Save(r)>> \in Seq(Writes) /\ Spends(<<Save(r)>>, 0)
    BY <1>2
  <2>2. Spends(<<Save(r)>>, most)
    <3>1. 0 \in Nat /\ 0 <= most
      OBVIOUS
    <3> QED
      BY <2>1, <3>1, SpendsMore
  <2> QED
    BY <2>2
<1>8. CASE row.tier = "high"
  <2> DEFINE r == [row EXCEPT !.status = "ITIRAZ_SURECINDE"]
  <2>1. r \in Row
    BY <1>1, SavedRow
  <2>2. Assessed(e, row) = <<Save(row)>> \o <<Save(r)>>
    BY <1>8 DEF Assessed
  <2> HIDE DEF r
  <2> QED
    BY <1>2, <1>4, <1>7, <2>1, <2>2
<1>9. CASE row.tier = "medium"
  <2> DEFINE r == [row EXCEPT !.status = "BLOKEDE", !.review = TRUE]
  <2>1. r \in Row
    BY <1>1, SavedRow
  <2>2. Assessed(e, row) = <<Save(row)>> \o <<Save(r)>>
    BY <1>9 DEF Assessed
  <2> HIDE DEF r
  <2> QED
    BY <1>2, <1>4, <1>7, <2>1, <2>2
<1>10. CASE row.tier \notin {"high", "medium"}
  <2>1. Assessed(e, row) = <<Save(row)>> \o (IF IsMilestone(e) THEN MilestoneRelease(e, row)
                                                              ELSE SingleRelease(e, row))
    BY <1>10 DEF Assessed
  <2> QED
    BY <1>4, <1>5, <1>6, <2>1
<1> QED
  BY <1>8, <1>9, <1>10

-----------------------------------------------------------------------------
(* How many releases of e may still begin: for each announcement one, for  *)
(* each code that pays one for each scan that overlaps, less those that    *)
(* have begun or come to nothing.                                          *)

Allowed(e) == announced[e] + Cardinality(PayingCodes(e)) * Overlap

ScansOf == [q \in Codes |-> scans[q].save + scans[q].process]

(* Announcements and scans under way, which have not begun theirs.         *)
Claims(e) == heard[e].escrow + heard[e].release + Total(ScansOf, PayingCodes(e))

Free(e) == Allowed(e) - Claims(e)

CodesFew == \A e \in Escrows : IsFiniteSet(PayingCodes(e))

LEMMA FreeNumbers ==
  ASSUME Typed, CodesFew, NEW e \in Escrows
  PROVE  /\ announced[e] \in Nat /\ heard[e].escrow \in Nat /\ heard[e].release \in Nat
         /\ Overlap \in Nat
         /\ Cardinality(PayingCodes(e)) \in Nat /\ Total(ScansOf, PayingCodes(e)) \in Nat
         /\ IsFiniteSet(Units(ScansOf, PayingCodes(e)))
         /\ Cardinality(PayingCodes(e)) * Overlap \in Nat
         /\ Free(e) \in Int
         /\ \A q \in Codes : ScansOf[q] \in Nat
<1>1. announced[e] \in Nat /\ heard[e].escrow \in Nat /\ heard[e].release \in Nat
  BY DEF Typed, PodTyped, Listening
<1>2. \A q \in Codes : ScansOf[q] \in Nat
  BY DEF Typed, Evidenced, CodesRight, CodesTyped, ScansOf
<1>3. PayingCodes(e) \subseteq Codes /\ IsFiniteSet(PayingCodes(e))
  BY DEF PayingCodes, CodesFew
<1>4. IsFiniteSet(Units(ScansOf, PayingCodes(e)))
  BY <1>2, <1>3, UnitsAreFinite
<1>5. Cardinality(PayingCodes(e)) \in Nat /\ Total(ScansOf, PayingCodes(e)) \in Nat
  BY <1>3, <1>4, FS_CardinalityType DEF Total
<1>6. Cardinality(PayingCodes(e)) * Overlap \in Nat
  BY <1>5, OverlapAssumption
<1>7. Free(e) \in Int
  BY <1>1, <1>5, <1>6 DEF Free, Allowed, Claims
<1> QED
  BY <1>1, <1>2, <1>4, <1>5, <1>6, <1>7, OverlapAssumption

(* What decides how many, when no code becomes used.                       *)
LEMMA FreeFollows ==
  ASSUME NEW e \in Escrows, PayingCodes(e)' = PayingCodes(e),
         \A q \in PayingCodes(e) : ScansOf'[q] = ScansOf[q]
  PROVE  /\ Cardinality(PayingCodes(e))' = Cardinality(PayingCodes(e))
         /\ Total(ScansOf, PayingCodes(e))' = Total(ScansOf, PayingCodes(e))
<1>1. Units(ScansOf, PayingCodes(e))' = Units(ScansOf, PayingCodes(e))
  BY DEF Units
<1> QED
  BY <1>1 DEF Total

(* The release that a listener or a scan begins is one of them. *)
LEMMA PermitIsFree ==
  ASSUME Typed, CodesFew, NEW e \in Escrows, Permit(e)
  PROVE  Free(e)' = Free(e) + 1
<1>1. /\ announced[e] \in Nat /\ heard[e].escrow \in Nat /\ heard[e].release \in Nat
      /\ Cardinality(PayingCodes(e)) * Overlap \in Nat /\ Total(ScansOf, PayingCodes(e)) \in Nat
  BY FreeNumbers
<1>2. PayingCodes(e)' = PayingCodes(e) /\ announced' = announced
  BY DEF Permit, PayingCodes
<1>3. CASE /\ heard[e].release > 0
           /\ heard' = [heard EXCEPT ![e].release = @ - 1]
           /\ UNCHANGED <<announced, code, scans>>
  <2>1. heard'[e].escrow = heard[e].escrow /\ heard'[e].release = heard[e].release - 1
    BY <1>3 DEF Typed, PodTyped, Listening
  <2>2. ScansOf' = ScansOf
    BY <1>3 DEF ScansOf
  <2>3. /\ Cardinality(PayingCodes(e))' = Cardinality(PayingCodes(e))
        /\ Total(ScansOf, PayingCodes(e))' = Total(ScansOf, PayingCodes(e))
    BY <1>2, <2>2, FreeFollows
  <2> QED
    BY <1>1, <1>2, <2>1, <2>3 DEF Free, Allowed, Claims
<1>4. ASSUME NEW q \in PayingCodes(e), scans[q].process > 0,
             scans' = [scans EXCEPT ![q].process = @ - 1],
             UNCHANGED <<heard, announced, code>>
      PROVE  Free(e)' = Free(e) + 1
  <2>1. q \in Codes
    BY DEF PayingCodes
  <2>2. /\ ScansOf[q] \in Nat /\ ScansOf'[q] \in Nat /\ ScansOf'[q] = ScansOf[q] - 1
        /\ \A p \in PayingCodes(e) \ {q} : ScansOf'[p] = ScansOf[p]
    BY <1>4, <2>1 DEF Typed, Evidenced, CodesRight, CodesTyped, ScansOf, PayingCodes
  <2>3. IsFiniteSet(Units(ScansOf, PayingCodes(e)))
    BY FreeNumbers
  <2> DEFINE f == ScansOf
             g == ScansOf'
             S == PayingCodes(e)
  <2>4. Total(g, S) = Total(f, S) - f[q] + g[q]
    <3> HIDE DEF f, g, S
    <3> QED
      BY <1>4, <2>2, <2>3, TotalChanges DEF f, g, S
  <2>5. Total(ScansOf, PayingCodes(e))' = Total(g, S)
    BY <1>2 DEF Total, Units
  <2>6. Total(ScansOf, PayingCodes(e))' = Total(ScansOf, PayingCodes(e)) - 1
    BY <1>1, <2>2, <2>4, <2>5
  <2>7. Cardinality(PayingCodes(e))' = Cardinality(PayingCodes(e)) /\ heard' = heard
    BY <1>2, <1>4
  <2> QED
    BY <1>1, <1>2, <2>6, <2>7 DEF Free, Allowed, Claims
<1> QED
  BY <1>3, <1>4 DEF Permit

(* Announcements and codes that the step leaves alone.                     *)
LEMMA FreeKept ==
  ASSUME Typed, CodesFew, NEW e \in Escrows, PayingCodes(e)' = PayingCodes(e),
         \A q \in PayingCodes(e) : ScansOf'[q] = ScansOf[q],
         announced'[e] \in Int, heard'[e].escrow \in Int, heard'[e].release \in Int,
         announced'[e] - heard'[e].escrow - heard'[e].release
           >= announced[e] - heard[e].escrow - heard[e].release
  PROVE  IsFiniteSet(PayingCodes(e))' /\ Free(e)' \in Int /\ Free(e)' >= Free(e)
<1>1. /\ announced[e] \in Nat /\ heard[e].escrow \in Nat /\ heard[e].release \in Nat
      /\ Cardinality(PayingCodes(e)) * Overlap \in Nat /\ Total(ScansOf, PayingCodes(e)) \in Nat
  BY FreeNumbers
<1>2. /\ Cardinality(PayingCodes(e))' = Cardinality(PayingCodes(e))
      /\ Total(ScansOf, PayingCodes(e))' = Total(ScansOf, PayingCodes(e))
  BY FreeFollows
<1>3. IsFiniteSet(PayingCodes(e))'
  BY DEF CodesFew
<1> QED
  BY <1>1, <1>2, <1>3 DEF Free, Allowed, Claims

(* A delivery announced is a release that may begin, and one heard of.     *)
LEMMA AnnouncementFree ==
  ASSUME Typed, CodesFew, NEW e \in Escrows, DeliveryNext, UNCHANGED qrVars
  PROVE  IsFiniteSet(PayingCodes(e))' /\ Free(e)' \in Int /\ Free(e)' >= Free(e)
<1>1. announced[e] \in Nat /\ heard[e].escrow \in Nat /\ heard[e].release \in Nat
  BY FreeNumbers
<1>2. PayingCodes(e)' = PayingCodes(e) /\ ScansOf' = ScansOf
  BY DEF qrVars, PayingCodes, ScansOf
<1>3. CASE UNCHANGED <<announced, heard>>
  BY <1>1, <1>2, <1>3, FreeKept
<1>4. /\ heard \in [Escrows -> [Listening -> Nat]]
      /\ announced \in [Escrows -> Nat]
  BY DEF Typed, PodTyped
<1>5. ASSUME NEW x \in Escrows, EmitVerified(x)
      PROVE  /\ announced'[e] \in Int /\ heard'[e].escrow \in Int /\ heard'[e].release \in Int
             /\ announced'[e] - heard'[e].escrow - heard'[e].release
                  >= announced[e] - heard[e].escrow - heard[e].release
  <2>1. CASE x = e
    <3>1. /\ announced'[e] = announced[e] + 1 /\ heard'[e].escrow = heard[e].escrow + 1
          /\ heard'[e].release = heard[e].release
      BY <1>4, <1>5, <2>1 DEF EmitVerified, Listening
    <3> QED
      BY <1>1, <3>1
  <2>2. CASE x # e
    <3>1. announced'[e] = announced[e] /\ heard'[e] = heard[e]
      BY <1>4, <1>5, <2>2 DEF EmitVerified
    <3> QED
      BY <1>1, <3>1
  <2> QED
    BY <2>1, <2>2
<1>6. ASSUME NEW x \in Escrows, Listen(x)
      PROVE  /\ announced'[e] \in Int /\ heard'[e].escrow \in Int /\ heard'[e].release \in Int
             /\ announced'[e] - heard'[e].escrow - heard'[e].release
                  >= announced[e] - heard[e].escrow - heard[e].release
  <2>0. announced' = announced
    BY <1>6 DEF Listen, FindBlocked, ReleaseOnDelivery, HandleQuickPay
  <2>1. CASE x # e
    <3>1. heard'[e] = heard[e]
      BY <1>4, <1>6, <2>1 DEF Listen, FindBlocked, ReleaseOnDelivery, HandleQuickPay
    <3> QED
      BY <1>1, <2>0, <3>1
  <2>2. CASE x = e
    <3>1. CASE FindBlocked(e)
      <4> DEFINE n == IF Blocked(e) THEN 1 ELSE 0
      <4>1. heard'[e].escrow = heard[e].escrow - 1 /\ heard'[e].release = heard[e].release + n
        BY <1>4, <3>1 DEF FindBlocked, Listening
      <4>2. n \in {0, 1}
        OBVIOUS
      <4> HIDE DEF n
      <4> QED
        BY <1>1, <2>0, <4>1, <4>2
    <3>2. ASSUME NEW h \in Handlers, ReleaseOnDelivery(h, e)
          PROVE  heard'[e].escrow = heard[e].escrow /\ heard'[e].release = heard[e].release - 1
      BY <1>4, <3>2 DEF ReleaseOnDelivery, Listening
    <3>3. ASSUME NEW h \in Handlers, HandleQuickPay(h, e)
          PROVE  heard'[e].escrow = heard[e].escrow /\ heard'[e].release = heard[e].release
      BY <1>4, <3>3 DEF HandleQuickPay, Listening
    <3> QED
      BY <1>1, <1>6, <2>0, <2>2, <3>1, <3>2, <3>3 DEF Listen
  <2> QED
    BY <2>1, <2>2
<1>7. CASE \/ \E h \in Handlers : Escrowed(h) \/ DoQuickConfirm(h)
           \/ \E x \in Escrows : SaveSignature(x) \/ MarkDelivered(x) \/ SignerDies(x)
  BY <1>3, <1>7 DEF Escrowed, DoQuickConfirm, SaveSignature, MarkDelivered, SignerDies, podVars
<1> QED
  BY <1>2, <1>5, <1>6, <1>7, FreeKept DEF DeliveryNext, Sign

(* A code that becomes used may be scanned as often as it was checked      *)
(* before, and one that was used is not checked again.                     *)
LEMMA ScanFree ==
  ASSUME Typed, CodesFew, NEW e \in Escrows, NEW q \in Codes, Scan(q)
  PROVE  IsFiniteSet(PayingCodes(e))' /\ Free(e)' \in Int /\ Free(e)' >= Free(e)
<1>1. /\ announced[e] \in Nat /\ heard[e].escrow \in Nat /\ heard[e].release \in Nat
      /\ Cardinality(PayingCodes(e)) * Overlap \in Nat /\ Total(ScansOf, PayingCodes(e)) \in Nat
      /\ Cardinality(PayingCodes(e)) \in Nat /\ Overlap \in Nat
      /\ IsFiniteSet(Units(ScansOf, PayingCodes(e))) /\ Free(e) \in Int
      /\ \A p \in Codes : ScansOf[p] \in Nat
  BY FreeNumbers
<1>2. /\ CodesTyped /\ ScannedIsUsed /\ ScansBounded
      /\ PayingCodes(e) \subseteq Codes /\ IsFiniteSet(PayingCodes(e))
  BY DEF Typed, Evidenced, CodesRight, PayingCodes, CodesFew
<1>3. UNCHANGED <<announced, heard>>
  BY DEF Scan, CheckCode, SaveUsed, ProcessQrScan, deliveryVars, podVars
<1>4. \A p \in Codes \ {q} : scans'[p] = scans[p] /\ ScansOf'[p] = ScansOf[p]
  BY <1>2 DEF Scan, CheckCode, SaveUsed, ProcessQrScan, CodesTyped, ScansOf
<1>5. CASE CheckCode(q)
  <2>1. q \notin PayingCodes(e) /\ PayingCodes(e)' = PayingCodes(e)
    BY <1>5 DEF CheckCode, PayingCodes
  <2>2. \A p \in PayingCodes(e) : ScansOf'[p] = ScansOf[p]
    BY <1>2, <1>4, <2>1
  <2> QED
    BY <1>1, <1>3, <2>1, <2>2, FreeKept
<1>6. CASE ProcessQrScan(q)
  <2>1. PayingCodes(e)' = PayingCodes(e)
    BY <1>6 DEF ProcessQrScan, PayingCodes
  <2>2. CASE q \in PayingCodes(e)
    <3>1. Permit(e)
      BY <1>6, <2>2 DEF ProcessQrScan, Permit, podVars
    <3>2. Free(e)' = Free(e) + 1
      BY <3>1, PermitIsFree
    <3> QED
      BY <1>1, <1>2, <2>1, <3>2
  <2>3. CASE q \notin PayingCodes(e)
    <3>1. \A p \in PayingCodes(e) : ScansOf'[p] = ScansOf[p]
      BY <1>2, <1>4, <2>3
    <3> QED
      BY <1>1, <1>3, <2>1, <3>1, FreeKept
  <2> QED
    BY <2>2, <2>3
<1>7. CASE SaveUsed(q)
  <2>1. /\ code[q] \in Code /\ code' = [code EXCEPT ![q].used = TRUE]
        /\ code[q] # NoCode
    BY <1>2, <1>7 DEF SaveUsed, CodesTyped, ScannedIsUsed
  <2>2. /\ code'[q] = [code[q] EXCEPT !.used = TRUE]
        /\ code'[q].e = code[q].e /\ code'[q].checkpoint = code[q].checkpoint
        /\ code'[q].used /\ code'[q] # NoCode
        /\ \A p \in Codes \ {q} : code'[p] = code[p]
    BY <1>2, <2>1, MarkerAssumption DEF CodesTyped, Code
  <2>3. ScansOf'[q] = ScansOf[q] /\ ScansOf[q] <= Overlap
    BY <1>2, <1>7 DEF SaveUsed, CodesTyped, ScansOf, ScansBounded
  <2>4. PayingCodes(e)' \in {PayingCodes(e), PayingCodes(e) \cup {q}}
    <3> DEFINE S == PayingCodes(e)
               T == PayingCodes(e)'
    <3>1. \A p \in Codes \ {q} : p \in T <=> p \in S
      BY <2>2 DEF PayingCodes
    <3>2. S \subseteq Codes /\ T \subseteq Codes
      BY DEF PayingCodes
    <3>3. q \in S => q \in T
      BY <2>2 DEF PayingCodes
    <3> HIDE DEF S, T
    <3>4. T \in {S, S \cup {q}}
      <4>1. CASE q \in T
        BY <3>1, <3>2, <4>1
      <4>2. CASE q \notin T
        BY <3>1, <3>2, <3>3, <4>2
      <4> QED
        BY <4>1, <4>2
    <3> QED
      BY <3>4 DEF S, T
  <2>5. CASE PayingCodes(e)' = PayingCodes(e)
    <3>1. \A p \in PayingCodes(e) : ScansOf'[p] = ScansOf[p]
      BY <1>2, <1>4, <2>3
    <3> QED
      BY <1>1, <1>3, <2>5, <3>1, FreeKept
  <2>6. CASE PayingCodes(e)' = PayingCodes(e) \cup {q} /\ q \notin PayingCodes(e)
    <3> DEFINE S == PayingCodes(e)
               T == PayingCodes(e) \cup {q}
    <3>1. /\ IsFiniteSet(T) /\ Cardinality(T) = Cardinality(S) + 1
      BY <1>2, <2>6, FS_AddElement
    <3>2. Total(ScansOf, T) = Total(ScansOf, S) + ScansOf[q]
      <4>1. T \ {q} = S /\ q \in T
        BY <2>6
      <4> HIDE DEF S, T
      <4> QED
        BY <1>1, <4>1, TotalOfRest DEF S
    <3>3. Total(ScansOf, PayingCodes(e))' = Total(ScansOf, T)
      <4>1. \A p \in T : ScansOf'[p] = ScansOf[p]
        BY <1>2, <1>4, <2>3
      <4>2. Units(ScansOf, PayingCodes(e))' = Units(ScansOf, T)
        BY <2>6, <4>1 DEF Units
      <4> QED
        BY <4>2 DEF Total
    <3>4. Cardinality(PayingCodes(e))' = Cardinality(S) + 1
      BY <2>6, <3>1
    <3>5. (Cardinality(S) + 1) * Overlap = Cardinality(S) * Overlap + Overlap
      BY <1>1
    <3>6. Allowed(e)' = Allowed(e) + Overlap
      BY <1>1, <1>3, <3>4, <3>5 DEF Allowed
    <3>7. Claims(e)' = Claims(e) + ScansOf[q]
      BY <1>1, <1>3, <3>2, <3>3 DEF Claims
    <3>8. Allowed(e) \in Int /\ Claims(e) \in Int /\ ScansOf[q] \in Nat
      BY <1>1 DEF Allowed, Claims
    <3>9. Free(e)' = Free(e) + Overlap - ScansOf[q]
      BY <1>1, <3>6, <3>7, <3>8 DEF Free
    <3> QED
      BY <1>1, <2>3, <2>6, <3>1, <3>8, <3>9
  <2> QED
    BY <2>4, <2>5, <2>6
<1> QED
  BY <1>5, <1>6, <1>7 DEF Scan

(* No step takes a release back. *)
LEMMA FreeGrows ==
  ASSUME Typed, CodesFew, NEW e \in Escrows, QrNext
  PROVE  IsFiniteSet(PayingCodes(e))' /\ Free(e)' \in Int /\ Free(e)' >= Free(e)
<1>1. ASSUME NEW q \in Codes, NEW x \in Escrows, NEW c \in Checkpoints, GenerateQR(q, x, c)
      PROVE  IsFiniteSet(PayingCodes(e))' /\ Free(e)' \in Int /\ Free(e)' >= Free(e)
  <2> DEFINE new == [e |-> x, checkpoint |-> c, used |-> FALSE]
  <2>1. code[q] = NoCode /\ code' = [code EXCEPT ![q] = new] /\ ~new.used
    BY <1>1 DEF GenerateQR
  <2>2. code'[q] = new /\ \A p \in Codes \ {q} : code'[p] = code[p]
    BY <2>1 DEF Typed, Evidenced, CodesRight, CodesTyped
  <2> HIDE DEF new
  <2>3. PayingCodes(e)' = PayingCodes(e)
    BY <2>1, <2>2 DEF PayingCodes
  <2>4. UNCHANGED <<announced, heard>> /\ ScansOf' = ScansOf
    BY <1>1 DEF GenerateQR, deliveryVars, podVars, ScansOf
  <2>5. announced[e] \in Nat /\ heard[e].escrow \in Nat /\ heard[e].release \in Nat
    BY FreeNumbers
  <2> QED
    BY <2>3, <2>4, <2>5, FreeKept
<1> QED
  BY <1>1, AnnouncementFree, ScanFree DEF QrNext


-----------------------------------------------------------------------------
(* What the ways to be paid may pay together.  A list that a handler works *)
(* through holds the reserve cap[h] of it, which covers what it still      *)
(* pays, and the reserves and payments of an escrow fit in the releases    *)
(* that have begun, or will never begin.                                   *)

QuickShare(e) == IF e \in quickPaid THEN Payout(e) ELSE 0

Reserved(jobs, cap, e) ==
  [h \in Handlers |-> IF jobs[h] # NoJob /\ jobs[h].e = e THEN cap[h] ELSE 0]

Reserves(most, cap) ==
  /\ \A h \in Handlers : job[h] # NoJob => Spends(job[h].todo, cap[h])
  /\ \A e \in Escrows :
       /\ IsFiniteSet(Units(Reserved(job, cap, e), Handlers))
       /\ paid[e] + Total(Reserved(job, cap, e), Handlers) <= most[e] * Free(e) + QuickShare(e)

CapRight(most) == CodesFew /\ \E cap \in [Handlers -> Nat] : Reserves(most, cap)

FreesGrow ==
  \A e \in Escrows : IsFiniteSet(PayingCodes(e))' /\ Free(e)' \in Int /\ Free(e)' >= Free(e)

LEMMA TimesGrows ==
  ASSUME NEW m \in Nat, NEW a \in Int, NEW b \in Int, b >= a
  PROVE  m * a \in Int /\ m * b \in Int /\ m * b >= m * a /\ m * (a + 1) = m * a + m
<1> DEFINE d == b - a
<1>1. d \in Nat /\ b = a + d
  OBVIOUS
<1> HIDE DEF d
<1>2. m * d \in Nat
  BY <1>1
<1>3. m * (a + d) = m * a + m * d
  BY <1>1
<1>4. m * a \in Int /\ m * b \in Int /\ m * (a + 1) = m * a + m
  OBVIOUS
<1> QED
  BY <1>1, <1>2, <1>3, <1>4

(* What one escrow has been paid, and is allowed, as numbers.              *)
LEMMA ReserveNumbers ==
  ASSUME Typed, CodesFew, NEW most \in [Escrows -> Nat], NEW cap \in [Handlers -> Nat],
         Reserves(most, cap), NEW e \in Escrows
  PROVE  /\ paid[e] \in Int /\ Free(e) \in Int /\ QuickShare(e) \in Int /\ most[e] \in Nat
         /\ most[e] * Free(e) \in Int
         /\ Total(Reserved(job, cap, e), Handlers) \in Nat
<1>1. paid[e] \in Int /\ Free(e) \in Int /\ most[e] \in Nat
  BY FreeNumbers DEF Typed, BooksTyped
<1>2. QuickShare(e) \in Int
  BY AmountsAssumption, QuickPayAssumption DEF Payout, QuickShare
<1>3. Total(Reserved(job, cap, e), Handlers) \in Nat
  BY FS_CardinalityType DEF Total, Reserves
<1>4. most[e] * Free(e) \in Int
  BY <1>1
<1> QED
  BY <1>1, <1>2, <1>3, <1>4

(* One handler takes up, works on, or leaves a list of x: what it pays and *)
(* reserves more than before is what x may be paid more.                   *)
LEMMA ReserveChanges ==
  ASSUME Typed, CodesFew, NEW most \in [Escrows -> Nat], NEW cap \in [Handlers -> Nat],
         Reserves(most, cap), FreesGrow,
         NEW h \in Handlers, NEW x \in Escrows, NEW next, NEW n \in Nat, NEW pay \in Int,
         job' = [job EXCEPT ![h] = next],
         job[h] # NoJob => job[h].e = x,
         next # NoJob => next.e = x /\ Spends(next.todo, n),
         paid' = [paid EXCEPT ![x] = @ + pay],
         \A e \in Escrows \ {x} : QuickShare(e)' = QuickShare(e),
         QuickShare(x)' \in Int,
         pay + (IF next # NoJob THEN n ELSE 0) + most[x] * Free(x) + QuickShare(x)
           <= (IF job[h] # NoJob THEN cap[h] ELSE 0) + most[x] * Free(x)' + QuickShare(x)'
  PROVE  CapRight(most)'
<1> DEFINE new == [cap EXCEPT ![h] = n]
<1>1. /\ new \in [Handlers -> Nat] /\ new[h] = n
      /\ \A g \in Handlers \ {h} : new[g] = cap[g]
  OBVIOUS
<1>2. job'[h] = next /\ \A g \in Handlers \ {h} : job'[g] = job[g]
  BY DEF Typed, BooksTyped
<1> HIDE DEF new
<1>3. \A g \in Handlers : job'[g] # NoJob => Spends(job'[g].todo, new[g])
  BY <1>1, <1>2 DEF Reserves
<1>4. ASSUME NEW e \in Escrows
      PROVE  /\ IsFiniteSet(Units(Reserved(job', new, e), Handlers))
             /\ paid'[e] + Total(Reserved(job', new, e), Handlers)
                  <= most[e] * Free(e)' + QuickShare(e)'
  <2> DEFINE f == Reserved(job, cap, e)
             g == Reserved(job', new, e)
             before == Total(f, Handlers)
             after == Total(g, Handlers)
  <2>1. /\ paid[e] \in Int /\ Free(e) \in Int /\ QuickShare(e) \in Int /\ most[e] \in Nat
        /\ most[e] * Free(e) \in Int /\ before \in Nat
    BY ReserveNumbers
  <2>2. /\ IsFiniteSet(Units(f, Handlers))
        /\ paid[e] + before <= most[e] * Free(e) + QuickShare(e)
    BY DEF Reserves
  <2>3. /\ f[h] = IF job[h] # NoJob /\ job[h].e = e THEN cap[h] ELSE 0
        /\ g[h] = IF job'[h] # NoJob /\ job'[h].e = e THEN new[h] ELSE 0
        /\ f[h] \in Nat /\ g[h] \in Nat
    BY <1>1 DEF Reserved
  <2>4. \A i \in Handlers \ {h} : g[i] = f[i]
    BY <1>1, <1>2 DEF Reserved
  <2> HIDE DEF f, g
  <2>5. IsFiniteSet(Units(g, Handlers)) /\ after = before - f[h] + g[h]
    <3>1. f[h] \in Nat /\ g[h] \in Nat /\ IsFiniteSet(Units(f, Handlers))
      BY <2>2, <2>3
    <3>2. IsFiniteSet(Units(g, Handlers)) /\ Total(g, Handlers) = Total(f, Handlers) - f[h] + g[h]
      BY <2>4, <3>1, TotalChanges
    <3> QED
      BY <3>2
  <2>6. Free(e)' \in Int /\ Free(e)' >= Free(e)
    BY DEF FreesGrow
  <2>7. most[e] * Free(e)' \in Int /\ most[e] * Free(e)' >= most[e] * Free(e)
    BY <2>1, <2>6, TimesGrows
  <2> DEFINE allowed == most[e] * Free(e)
             allowedAfter == most[e] * Free(e)'
             share == QuickShare(e)
             shareAfter == QuickShare(e)'
  <2>8. paid'[e] + after <= allowedAfter + shareAfter
    <3>1. CASE e = x
      <4>1. f[h] = (IF job[h] # NoJob THEN cap[h] ELSE 0) /\ g[h] = (IF next # NoJob THEN n ELSE 0)
        BY <1>1, <1>2, <2>3, <3>1
      <4>2. paid'[e] = paid[e] + pay /\ shareAfter \in Int
        BY <3>1 DEF Typed, BooksTyped
      <4>3. pay + g[h] + allowed + share <= f[h] + allowedAfter + shareAfter
        BY <3>1, <4>1
      <4>4. /\ paid[e] \in Int /\ before \in Nat /\ allowed \in Int /\ allowedAfter \in Int
            /\ share \in Int /\ paid[e] + before <= allowed + share
            /\ after = before - f[h] + g[h]
        BY <2>1, <2>2, <2>5, <2>7
      <4> HIDE DEF before, after, allowed, allowedAfter, share, shareAfter
      <4> QED
        BY <2>3, <4>2, <4>3, <4>4
    <3>2. CASE e # x
      <4>1. f[h] = 0 /\ g[h] = 0
        BY <1>2, <2>3, <3>2
      <4>2. paid'[e] = paid[e] /\ shareAfter = share
        BY <3>2 DEF Typed, BooksTyped
      <4>3. /\ paid[e] \in Int /\ before \in Nat /\ allowed \in Int /\ allowedAfter \in Int
            /\ share \in Int /\ paid[e] + before <= allowed + share
            /\ after = before - f[h] + g[h] /\ allowedAfter >= allowed
        BY <2>1, <2>2, <2>5, <2>7
      <4> HIDE DEF before, after, allowed, allowedAfter, share, shareAfter
      <4> QED
        BY <4>1, <4>2, <4>3
    <3> QED
      BY <3>1, <3>2
  <2> QED
    BY <2>5, <2>8 DEF g
<1>5. CodesFew'
  BY DEF FreesGrow, CodesFew
<1>6. Reserves(most, new)'
  BY <1>3, <1>4 DEF Reserves
<1> QED
  BY <1>1, <1>5, <1>6 DEF CapRight

(* An operation is taken up.  Only a release reserves, and there was one   *)
(* that might begin.                                                       *)
LEMMA BeginsReserve ==
  ASSUME Typed, NEW most \in [Escrows -> Nat], CapRight(most), FreesGrow,
         \A e \in Escrows : /\ Price[e] <= most[e]
                            /\ \A i \in DOMAIN Shares[e] : Shares[e][i] <= most[e],
         NEW h \in Handlers, NEW x \in Escrows, NEW op, NEW todo, Begins(h, op, x, todo)
  PROVE  CapRight(most)'
<1> PICK cap \in [Handlers -> Nat] : Reserves(most, cap)
  BY DEF CapRight
<1> DEFINE next == [op |-> op, e |-> x, todo |-> todo]
           n == IF op = "release" THEN most[x] ELSE 0
<1>1. /\ job[h] = NoJob /\ job' = [job EXCEPT ![h] = next] /\ next.e = x /\ next.todo = todo
      /\ paid' = paid /\ quickPaid' = quickPaid
  BY DEF Begins, Take, books
<1> HIDE DEF next
<1>2. CodesFew
  BY DEF CapRight
<1>3. /\ paid[x] \in Int /\ Free(x) \in Int /\ QuickShare(x) \in Int /\ most[x] \in Nat
      /\ most[x] * Free(x) \in Int
  BY <1>2, ReserveNumbers
<1>4. n \in Nat /\ Spends(todo, n)
  <2>0. n \in Nat
    BY <1>3
  <2>1. CASE op = "release" /\ \E row \in Row : todo = Assessed(x, row)
    <3>1. Price[x] <= most[x] /\ \A i \in DOMAIN Shares[x] : Shares[x][i] <= most[x]
      OBVIOUS
    <3>2. Spends(todo, most[x])
      BY <1>3, <2>1, <3>1, SpendsAssessed
    <3> QED
      BY <2>0, <2>1, <3>2
  <2>2. CASE op = "quickPay" /\ \E row \in Row : todo = <<Save(row), QuickConfirm(Payout(x))>>
    <3>1. PICK row \in Row : todo = <<Save(row), QuickConfirm(Payout(x))>>
      BY <2>2
    <3>2. /\ Len(todo) = 2 /\ todo[1] = Save(row) /\ todo[2] = QuickConfirm(Payout(x))
          /\ todo \in Seq({todo[1], todo[2]})
      BY <3>1
    <3>3. Save(row).do = "save" /\ QuickConfirm(Payout(x)).do = "quickConfirm"
      BY DEF Save, QuickConfirm
    <3>4. \A i \in 1 .. Len(todo) : todo[i].do \notin {"confirm", "creditCarrier"}
      BY <3>2, <3>3
    <3> HIDE DEF n
    <3> QED
      BY <2>0, <3>2, <3>4, SpendsNothing
  <2>3. CASE /\ todo \in Seq(Writes) \ {<< >>}
             /\ \A i \in 1 .. Len(todo) : todo[i].do \notin {"release", "confirm", "creditCarrier"}
    <3>1. \A i \in 1 .. Len(todo) : todo[i].do \notin {"confirm", "creditCarrier"}
      BY <2>3
    <3> HIDE DEF n
    <3> QED
      BY <2>0, <2>3, <3>1, SpendsNothing
  <2> QED
    BY <2>1, <2>2, <2>3 DEF Begins, Listed
<1>5. /\ QuickShare(x)' = QuickShare(x)
      /\ \A e \in Escrows \ {x} : QuickShare(e)' = QuickShare(e)
  BY <1>1 DEF QuickShare
<1>6. most[x] * Free(x)' \in Int /\ most[x] * Free(x)' >= most[x] * Free(x) + n
  <2>1. Free(x)' \in Int /\ Free(x)' >= Free(x)
    BY DEF FreesGrow
  <2>2. /\ most[x] * Free(x)' \in Int /\ most[x] * Free(x)' >= most[x] * Free(x)
        /\ most[x] * (Free(x) + 1) = most[x] * Free(x) + most[x]
    BY <1>3, <2>1, TimesGrows
  <2>3. CASE op = "release"
    <3>1. Free(x)' = Free(x) + 1
      BY <1>2, <2>3, PermitIsFree DEF Begins
    <3>2. most[x] * Free(x)' = most[x] * Free(x) + most[x]
      BY <2>2, <3>1
    <3>3. n = most[x]
      BY <2>3
    <3> HIDE DEF n
    <3> QED
      BY <1>3, <2>2, <3>2, <3>3
  <2>4. CASE op # "release"
    <3>1. n = 0
      BY <2>4
    <3> HIDE DEF n
    <3> QED
      BY <1>3, <2>2, <3>1
  <2> QED
    BY <2>3, <2>4
<1> HIDE DEF n
<1>7. paid' = [paid EXCEPT ![x] = @ + 0]
  BY <1>1, <1>3 DEF Typed, BooksTyped
<1>8. 0 + (IF next # NoJob THEN n ELSE 0) + most[x] * Free(x) + QuickShare(x)
        <= (IF job[h] # NoJob THEN cap[h] ELSE 0) + most[x] * Free(x)' + QuickShare(x)'
  <2> DEFINE m == IF next # NoJob THEN n ELSE 0
             a == most[x] * Free(x)
             b == most[x] * Free(x)'
             s == QuickShare(x)
             t == QuickShare(x)'
             k == IF job[h] # NoJob THEN cap[h] ELSE 0
  <2>1. /\ m \in Nat /\ m <= n /\ k = 0 /\ a \in Int /\ b \in Int /\ s \in Int /\ t = s
        /\ b >= a + n
    BY <1>1, <1>3, <1>4, <1>5, <1>6
  <2> HIDE DEF m, a, b, s, t, k
  <2>2. 0 + m + a + s <= k + b + t
    BY <1>4, <2>1
  <2> QED
    BY <2>2 DEF m, a, b, s, t, k
<1>9. 0 \in Int /\ QuickShare(x)' \in Int
  BY <1>3, <1>5
<1> QED
  BY <1>1, <1>2, <1>4, <1>5, <1>7, <1>8, <1>9, ReserveChanges

(* A list that ends pays nothing of its reserve any more. *)
LEMMA StopsReserve ==
  ASSUME Typed, NEW most \in [Escrows -> Nat], CapRight(most), FreesGrow,
         NEW h \in Handlers, Stops(h)
  PROVE  CapRight(most)'
<1> PICK cap \in [Handlers -> Nat] : Reserves(most, cap)
  BY DEF CapRight
<1>1. /\ job[h] # NoJob /\ job' = [job EXCEPT ![h] = NoJob]
      /\ paid' = paid /\ quickPaid' = quickPaid
  BY DEF Stops, Drop, books
<1>2. PICK x \in Escrows : job[h].e = x
  BY <1>1, FirstWrite DEF Typed
<1>3. CodesFew
  BY DEF CapRight
<1>4. /\ paid[x] \in Int /\ Free(x) \in Int /\ QuickShare(x) \in Int /\ most[x] \in Nat
      /\ most[x] * Free(x) \in Int /\ cap[h] \in Nat
  BY <1>2, <1>3, ReserveNumbers
<1>5. /\ QuickShare(x)' = QuickShare(x)
      /\ \A e \in Escrows \ {x} : QuickShare(e)' = QuickShare(e)
  BY <1>1 DEF QuickShare
<1>6. most[x] * Free(x)' \in Int /\ most[x] * Free(x)' >= most[x] * Free(x)
  <2>1. Free(x)' \in Int /\ Free(x)' >= Free(x)
    BY <1>2 DEF FreesGrow
  <2> QED
    BY <1>4, <2>1, TimesGrows
<1>7. paid' = [paid EXCEPT ![x] = @ + 0]
  BY <1>1, <1>4 DEF Typed, BooksTyped
<1>8. 0 + (IF NoJob # NoJob THEN 0 ELSE 0) + most[x] * Free(x) + QuickShare(x)
        <= (IF job[h] # NoJob THEN cap[h] ELSE 0) + most[x] * Free(x)' + QuickShare(x)'
  <2> DEFINE a == most[x] * Free(x)
             b == most[x] * Free(x)'
             s == QuickShare(x)
             t == QuickShare(x)'
             k == IF job[h] # NoJob THEN cap[h] ELSE 0
             z == IF NoJob # NoJob THEN 0 ELSE 0
  <2>1. z = 0 /\ k \in Nat /\ a \in Int /\ b \in Int /\ s \in Int /\ t = s /\ b >= a
    BY <1>1, <1>4, <1>5, <1>6
  <2> HIDE DEF a, b, s, t, k, z
  <2>2. 0 + z + a + s <= k + b + t
    BY <2>1
  <2> QED
    BY <2>2 DEF a, b, s, t, k, z
<1>9. 0 \in Int /\ 0 \in Nat /\ QuickShare(x)' \in Int
  BY <1>4, <1>5
<1> QED
  BY <1>1, <1>2, <1>3, <1>5, <1>7, <1>8, <1>9, ReserveChanges

(* A write is made.  What it pays was reserved, but for quick pay's, which *)
(* is its escrow's share from then on.                                     *)
LEMMA MakesReserve ==
  ASSUME Typed, QuickRight, NEW most \in [Escrows -> Nat], CapRight(most), FreesGrow,
         NEW h \in Handlers, Makes(h)
  PROVE  CapRight(most)'
<1> PICK cap \in [Handlers -> Nat] : Reserves(most, cap)
  BY DEF CapRight
<1> DEFINE j == job[h]
           w == Head(j.todo)
           rest == Tail(j.todo)
           next == IF rest = << >> THEN NoJob ELSE [j EXCEPT !.todo = rest]
<1>1. /\ j # NoJob /\ job' = [job EXCEPT ![h] = next]
      /\ paid' = [paid EXCEPT ![j.e] = @ + Payment(h)]
      /\ quickPaid' = IF w.do = "quickConfirm" THEN quickPaid \cup {j.e} ELSE quickPaid
  BY DEF Makes, Advance
<1>2. /\ j.e \in Escrows /\ j.todo \in Seq(QuickWrites) /\ j.todo # << >>
      /\ j = [op |-> j.op, e |-> j.e, todo |-> j.todo]
      /\ w \in QuickWrites /\ QuickFits(j.e, j.todo)
  BY <1>1, FirstWrite DEF Typed, QuickRight, ListsRight
<1>3. PICK x \in Escrows : j.e = x
  BY <1>2
<1>4. /\ next # NoJob => next.e = x /\ next.todo = rest
      /\ w.do = "quickConfirm" => w.n = Payout(x)
  <2>1. w.do = "quickConfirm" => w.n = Payout(x)
    BY <1>2, <1>3 DEF QuickFits
  <2>2. [j EXCEPT !.todo = rest].e = x /\ [j EXCEPT !.todo = rest].todo = rest
    BY <1>2, <1>3
  <2> QED
    BY <2>1, <2>2
<1>5. CodesFew
  BY DEF CapRight
<1>6. /\ paid[x] \in Int /\ Free(x) \in Int /\ QuickShare(x) \in Int /\ most[x] \in Nat
      /\ most[x] * Free(x) \in Int /\ cap[h] \in Nat
  BY <1>3, <1>5, ReserveNumbers
<1>7. Spent(w) \in Int /\ \E n \in Nat : Spends(rest, n) /\ n + Spent(w) <= cap[h]
  <2>1. Spends(j.todo, cap[h])
    BY <1>1 DEF Reserves
  <2> HIDE DEF j
  <2> QED
    BY <1>2, <1>6, <2>1, SpendsTail
<1>8. PICK n \in Nat : Spends(rest, n) /\ n + Spent(w) <= cap[h]
  BY <1>7
<1> DEFINE pay == IF w.do = "quickConfirm" /\ x \notin quickPaid THEN Payout(x) ELSE 0
<1>9. Payment(h) = Spent(w) + pay
  <2>1. Payment(h) = IF \/ w.do = "confirm" \/ w.do = "creditCarrier"
                        \/ w.do = "quickConfirm" /\ x \notin quickPaid
                     THEN w.n ELSE 0
    BY <1>3 DEF Payment
  <2>2. Spent(w) = IF w.do = "confirm" \/ w.do = "creditCarrier" THEN w.n ELSE 0
    BY DEF Spent
  <2>3. Payout(x) \in Int
    BY AmountsAssumption, QuickPayAssumption DEF Payout
  <2> HIDE DEF w, j
  <2> QED
    BY <1>4, <1>7, <2>1, <2>2, <2>3
<1>10. /\ QuickShare(x)' = QuickShare(x) + pay
       /\ \A e \in Escrows \ {x} : QuickShare(e)' = QuickShare(e)
       /\ pay \in Int
  <2>1. Payout(x) \in Int
    BY AmountsAssumption, QuickPayAssumption DEF Payout
  <2>2. \A e \in Escrows : QuickShare(e)' = IF e \in quickPaid' THEN Payout(e) ELSE 0
    BY DEF QuickShare, Payout
  <2>3. \A e \in Escrows : QuickShare(e) = IF e \in quickPaid THEN Payout(e) ELSE 0
    BY DEF QuickShare
  <2> HIDE DEF w, j
  <2>4. CASE w.do = "quickConfirm"
    <3>1. quickPaid' = quickPaid \cup {x}
      BY <1>1, <1>3, <2>4
    <3> QED
      BY <2>1, <2>2, <2>3, <2>4, <3>1
  <2>5. CASE w.do # "quickConfirm"
    <3>1. quickPaid' = quickPaid
      BY <1>1, <2>5
    <3> QED
      BY <1>6, <2>1, <2>2, <2>3, <2>5, <3>1
  <2> QED
    BY <2>4, <2>5
<1>11. most[x] * Free(x)' \in Int /\ most[x] * Free(x)' >= most[x] * Free(x)
  <2>1. Free(x)' \in Int /\ Free(x)' >= Free(x)
    BY <1>3 DEF FreesGrow
  <2> QED
    BY <1>6, <2>1, TimesGrows
<1>12. /\ job[h] # NoJob => job[h].e = x
       /\ next # NoJob => next.e = x /\ Spends(next.todo, n)
       /\ paid' = [paid EXCEPT ![x] = @ + Payment(h)]
       /\ job' = [job EXCEPT ![h] = next]
  BY <1>1, <1>3, <1>4, <1>8
<1>13. PICK spent \in Int : spent = Spent(w)
  BY <1>7
<1>14. PICK step \in Int : step = pay
  BY <1>10
<1>15. PICK after : after = next
  OBVIOUS
<1> HIDE DEF j, w, rest, next, pay
<1>16. Payment(h) \in Int /\ Payment(h) = spent + step
  BY <1>9, <1>13, <1>14
<1>17. Payment(h) + (IF after # NoJob THEN n ELSE 0) + most[x] * Free(x) + QuickShare(x)
        <= (IF job[h] # NoJob THEN cap[h] ELSE 0) + most[x] * Free(x)' + QuickShare(x)'
  <2> DEFINE m == IF after # NoJob THEN n ELSE 0
             a == most[x] * Free(x)
             b == most[x] * Free(x)'
             s == QuickShare(x)
             t == QuickShare(x)'
             k == IF job[h] # NoJob THEN cap[h] ELSE 0
             p == Payment(h)
  <2>1. /\ m \in Nat /\ m <= n /\ k = cap[h] /\ a \in Int /\ b \in Int /\ s \in Int /\ t = s + step
        /\ b >= a /\ p = spent + step /\ n + spent <= cap[h]
    BY <1>1, <1>6, <1>8, <1>10, <1>11, <1>13, <1>14, <1>16 DEF j
  <2> HIDE DEF m, a, b, s, t, k, p
  <2>2. p + m + a + s <= k + b + t
    BY <1>6, <2>1
  <2> QED
    BY <2>2 DEF m, a, b, s, t, k, p
<1>18. QuickShare(x)' \in Int
  BY <1>6, <1>10, <1>14
<1> QED
  BY <1>3, <1>5, <1>10, <1>12, <1>15, <1>16, <1>17, <1>18, ReserveChanges

LEMMA HandledReserve ==
  ASSUME Typed, QuickRight, NEW most \in [Escrows -> Nat], CapRight(most), FreesGrow, Handled,
         \A e \in Escrows : /\ Price[e] <= most[e]
                            /\ \A i \in DOMAIN Shares[e] : Shares[e][i] <= most[e]
  PROVE  CapRight(most)'
<1>1. CASE Rests
  <2> PICK cap \in [Handlers -> Nat] : Reserves(most, cap)
    BY DEF CapRight
  <2>1. CodesFew
    BY DEF CapRight
  <2>2. \A h \in Handlers : job'[h] # NoJob => Spends(job'[h].todo, cap[h])
    BY <1>1 DEF Rests, Reserves
  <2>3. ASSUME NEW e \in Escrows
        PROVE  /\ IsFiniteSet(Units(Reserved(job', cap, e), Handlers))
               /\ paid'[e] + Total(Reserved(job', cap, e), Handlers)
                    <= most[e] * Free(e)' + QuickShare(e)'
    <3> DEFINE held == Total(Reserved(job, cap, e), Handlers)
               a == most[e] * Free(e)
               b == most[e] * Free(e)'
               s == QuickShare(e)
    <3>1. /\ paid[e] \in Int /\ Free(e) \in Int /\ s \in Int /\ most[e] \in Nat
          /\ a \in Int /\ held \in Nat
      BY <2>1, ReserveNumbers
    <3>2. Free(e)' \in Int /\ Free(e)' >= Free(e)
      BY DEF FreesGrow
    <3>3. b \in Int /\ b >= a
      BY <3>1, <3>2, TimesGrows
    <3>4. paid'[e] = paid[e] /\ QuickShare(e)' = s /\ job' = job
      BY <1>1 DEF Rests, QuickShare
    <3>5. /\ IsFiniteSet(Units(Reserved(job, cap, e), Handlers))
          /\ paid[e] + held <= a + s
      BY DEF Reserves
    <3> HIDE DEF a, b, s
    <3>6. paid[e] + held <= b + s
      <4> HIDE DEF held
      <4> QED
        BY <3>1, <3>3, <3>5
    <3> QED
      BY <3>4, <3>5, <3>6 DEF b
  <2>4. CodesFew'
    BY DEF FreesGrow, CodesFew
  <2>5. Reserves(most, cap)'
    BY <2>2, <2>3 DEF Reserves
  <2> QED
    BY <2>4, <2>5 DEF CapRight
<1>2. ASSUME NEW h \in Handlers, NEW e \in Escrows, NEW op, NEW todo, Begins(h, op, e, todo)
      PROVE  CapRight(most)'
  BY <1>2, BeginsReserve
<1>3. ASSUME NEW h \in Handlers, Makes(h)
      PROVE  CapRight(most)'
  BY <1>3, MakesReserve
<1>4. ASSUME NEW h \in Handlers, Stops(h)
      PROVE  CapRight(most)'
  BY <1>4, StopsReserve
<1> QED
  BY <1>1, <1>2, <1>3, <1>4 DEF Handled
-----------------------------------------------------------------------------
(* The theorems. *)

(* Nothing is paid, announced or scanned at first (DeliveryInit, QrInit).  *)
THEOREM EvidencedHoldsInitially == ASSUME QrInit PROVE Evidenced
<1>1. /\ job = [h \in Handlers |-> NoJob]
      /\ paid = [e \in Escrows |-> 0]
      /\ signing = [e \in Escrows |-> [mark |-> 0, emit |-> 0]]
      /\ heard = [e \in Escrows |-> [l \in Listening |-> 0]]
      /\ code = [q \in Codes |-> NoCode]
      /\ scans = [q \in Codes |-> [save |-> 0, process |-> 0]]
  BY DEF QrInit, DeliveryInit, Init
<1>2. PaymentsRight
  BY <1>1 DEF PaymentsRight, PaidTyped, PaidOnEvidence, JobsTyped, JobsEvidenced
<1>3. AnnouncementsRight
  BY <1>1 DEF AnnouncementsRight, DeliveryTyped, AnnouncedIsDelivered
<1>4. CodesRight
  BY <1>1 DEF CodesRight, CodesTyped, ScannedIsUsed
<1> QED
  BY <1>2, <1>3, <1>4 DEF Evidenced

(* Every step of a signature, a listener, a handler or a scan keeps it.    *)
THEOREM EvidencedIsKept == ASSUME Evidenced, [QrNext]_allVars PROVE Evidenced'
<1>1. CASE DeliveryNext /\ UNCHANGED qrVars
  BY <1>1, DeliveryKeeps
<1>2. CASE \E q \in Codes, e \in Escrows, c \in Checkpoints : GenerateQR(q, e, c)
  BY <1>2, GenerateKeeps
<1>3. CASE \E q \in Codes : Scan(q)
  BY <1>3, CheckKeeps, SaveUsedKeeps, ProcessKeeps DEF Scan
<1>4. CASE UNCHANGED allVars
  <2>1. UNCHANGED <<delivered, signing, heard, paid, job>> /\ UNCHANGED qrVars
    BY <1>4 DEF allVars, deliveryVars, vars, books, podVars
  <2> QED
    BY <2>1, CodesKept, IdleKeeps, AnnouncementsUnchanged DEF Evidenced
<1> QED
  BY <1>1, <1>2, <1>3, <1>4 DEF QrNext

(* What is announced was delivered, a scan that saved its code has used    *)
(* it, and a list that pays belongs to an escrow with evidence, always.    *)
THEOREM EvidenceIsKept == QrSpec => []Evidenced
BY EvidencedHoldsInitially, EvidencedIsKept, PTL DEF QrSpec

(* handleDeliveryCompletedVerified, handleQuickPay and processQrScan move  *)
(* no money to the carrier before the load is marked as delivered or a     *)
(* code of its delivery is used up.                                        *)
THEOREM EvidenceBeforePayment == QrSpec => []PaidOnEvidence
<1>1. Evidenced => PaidOnEvidence
  BY DEF Evidenced, PaymentsRight
<1> QED
  BY <1>1, EvidenceIsKept, PTL

(* The rest of the types holds initially, and every step keeps it. *)
LEMMA TypedInitially == ASSUME QrInit PROVE Typed
<1>1. BooksTyped
  BY DEF QrInit, DeliveryInit, Init, BooksTyped, Wallet
<1>2. PodTyped
  BY QuickPayAssumption DEF QrInit, DeliveryInit, PodTyped
<1>3. ScansBounded
  BY OverlapAssumption DEF QrInit, ScansBounded
<1> QED
  BY <1>1, <1>2, <1>3, EvidencedHoldsInitially DEF Typed

LEMMA TypedIsKept == ASSUME Typed, [QrNext]_allVars PROVE Typed'
<1>1. CASE QrNext
  BY <1>1, StepsHandled, BooksKeepTypes, PodKeepsTypes, ScansStayBounded, EvidencedIsKept
     DEF Typed, Evidenced, CodesRight
<1>2. CASE UNCHANGED allVars
  <2>1. Evidenced'
    BY <1>2, EvidencedIsKept DEF Typed
  <2>2. BooksTyped' /\ PodTyped' /\ ScansBounded'
    BY <1>2 DEF allVars, deliveryVars, vars, books, podVars, qrVars, Typed, BooksTyped,
                PodTyped, ScansBounded
  <2> QED
    BY <2>1, <2>2 DEF Typed
<1> QED
  BY <1>1, <1>2

THEOREM TypedInvariant == QrSpec => []Typed
BY TypedInitially, TypedIsKept, PTL DEF QrSpec

(* Rows, lists of writes, announcements, codes and scans keep their types, *)
(* quick pay's list of writes included, and no more scans of a code than   *)
(* Overlap are ever under way, each of a code that was generated.          *)
THEOREM TypeCorrectInQrScan == QrSpec => []QrTypeOK
<1>1. Typed => QrTypeOK
  <2> SUFFICES ASSUME Typed PROVE QrTypeOK
    OBVIOUS
  <2>1. /\ escrow \in [Escrows -> Row \cup {NoRow}] /\ quickPaid \subseteq Escrows
        /\ \A h \in Handlers : job[h] # NoJob => job[h] \in QuickJob
    BY DEF Typed, BooksTyped
  <2>2. \A h \in Handlers :
          job[h] # NoJob =>
            /\ job[h].op \in Operations \cup {"quickPay", "damage"}
            /\ job[h].todo \in Seq(Writes \cup [do : {"quickConfirm"}, n : Int]) \ {<< >>}
    BY <2>1 DEF QuickJob, QuickWrites
  <2>3. DeliveryTypeOK
    BY <2>1, <2>2 DEF Typed, PodTyped, DeliveryTypeOK
  <2>4. ASSUME NEW q \in Codes
        PROVE  /\ scans[q].save + scans[q].process <= Overlap
               /\ scans[q].save + scans[q].process > 0 => code[q] # NoCode
    <3>1. /\ scans[q].save \in Nat /\ scans[q].process \in Nat
          /\ scans[q].save > 0 \/ scans[q].process > 0 => code[q] # NoCode
      BY DEF Typed, Evidenced, CodesRight, CodesTyped, ScannedIsUsed
    <3> QED
      BY <3>1 DEF Typed, ScansBounded
  <2> QED
    BY <2>3, <2>4 DEF Typed, Evidenced, CodesRight, CodesTyped, QrTypeOK
<1> QED
  BY <1>1, TypedInvariant, PTL

LEMMA QuickInitially == ASSUME QrInit PROVE QuickRight
<1>1. /\ \A h \in Handlers : job[h] = NoJob
      /\ quickPaid = {} /\ carrier.pending = 0
  BY DEF QrInit, DeliveryInit, Init
<1>2. \A h \in Handlers : Dues(job)[h] = 0
  BY <1>1 DEF Dues, Owed
<1>3. IsFiniteSet(Units(Dues(job), Handlers)) /\ Total(Dues(job), Handlers) = 0
  BY <1>2, TotalOfNothing
<1>4. IsFiniteSet(quickPaid)
  BY <1>1, FS_EmptySet
<1>5. MapThenSumSet(Payout, quickPaid) = 0
  <2>1. Total(Gains, {}) = 0 /\ Total(Losses, {}) = 0
    BY TotalOfNothing
  <2> QED
    BY <1>1, <1>4, <2>1, SumIsNet DEF Net
<1> QED
  BY <1>1, <1>3, <1>4, <1>5 DEF QuickRight, ListsRight

(* What quick pay takes out of pendingRelease, where nothing was released, *)
(* is no more than the payouts of the escrows it has a key of, and what is *)
(* owed beside it is still there.                                          *)
THEOREM QuickPayIsBooked == QrSpec => []QuickRight
<1>1. ASSUME Typed, QuickRight, [QrNext]_allVars PROVE QuickRight'
  <2>1. CASE QrNext
    BY <1>1, <2>1, StepsHandled, HandledQuick DEF Typed
  <2>2. CASE UNCHANGED allVars
    <3>1. Rests
      BY <2>2 DEF allVars, deliveryVars, vars, books, podVars, Rests
    <3> QED
      BY <1>1, <3>1, HandledQuick DEF Typed, Handled
  <2> QED
    BY <1>1, <2>1, <2>2
<1>2. Typed /\ QuickRight /\ [QrNext]_allVars => QuickRight'
  BY <1>1
<1>3. QrInit => QuickRight
  BY QuickInitially
<1> QED
  BY <1>2, <1>3, TypedInvariant, PTL DEF QrSpec

(* The key quick_pay_<id> makes handleQuickPay take each payout once, for  *)
(* any number of announcements, handlers and escrows.                      *)
THEOREM QuickPayIsOnce == QrSpec => []QuickPaysOnce
<1>1. Typed /\ QuickRight => QuickPaysOnce
  <2> SUFFICES ASSUME Typed, QuickRight PROVE QuickPaysOnce
    OBVIOUS
  <2>1. Total(Dues(job), Handlers) \in Nat
    BY FS_CardinalityType DEF Total, QuickRight
  <2>2. carrier.pending \in Int
    BY DEF Typed, BooksTyped, Wallet
  <2>3. MapThenSumSet(Payout, quickPaid) \in Int
    <3>1. IsFiniteSet(quickPaid) /\ quickPaid \in SUBSET Escrows
      BY DEF QuickRight, Typed, BooksTyped
    <3>2. \A x \in quickPaid : Gains[x] \in Nat /\ Losses[x] \in Nat
      BY <3>1, AmountsAssumption, QuickPayAssumption DEF Payout, Gains, Losses
    <3>3. Total(Gains, quickPaid) \in Nat /\ Total(Losses, quickPaid) \in Nat
      BY <3>1, <3>2, UnitsAreFinite, FS_CardinalityType DEF Total
    <3> QED
      BY <3>1, <3>3, SumIsNet DEF Net
  <2>4. carrier.pending >= Total(Dues(job), Handlers) - MapThenSumSet(Payout, quickPaid)
    BY DEF QuickRight
  <2> DEFINE due == Total(Dues(job), Handlers)
             sum == MapThenSumSet(Payout, quickPaid)
  <2> HIDE DEF due, sum
  <2>5. carrier.pending >= 0 - sum
    BY <2>1, <2>2, <2>3, <2>4 DEF due, sum
  <2> QED
    BY <2>3, <2>5 DEF QuickPaysOnce, sum
<1> QED
  BY <1>1, TypedInvariant, QuickPayIsBooked, PTL

LEMMA ReservesInitially ==
  ASSUME NEW most \in [Escrows -> Nat], QrInit
  PROVE  CapRight(most)
<1>1. /\ \A h \in Handlers : job[h] = NoJob
      /\ \A e \in Escrows : /\ paid[e] = 0 /\ announced[e] = 0
                            /\ heard[e].escrow = 0 /\ heard[e].release = 0
      /\ \A q \in Codes : code[q] = NoCode
      /\ quickPaid = {}
  BY DEF QrInit, DeliveryInit, Init, Listening
<1>2. \A e \in Escrows : PayingCodes(e) = {}
  BY <1>1 DEF PayingCodes
<1>3. CodesFew
  BY <1>2, FS_EmptySet DEF CodesFew
<1> DEFINE cap == [h \in Handlers |-> 0]
<1>4. cap \in [Handlers -> Nat]
  OBVIOUS
<1>5. ASSUME NEW e \in Escrows
      PROVE  /\ IsFiniteSet(Units(Reserved(job, cap, e), Handlers))
             /\ paid[e] + Total(Reserved(job, cap, e), Handlers)
                  <= most[e] * Free(e) + QuickShare(e)
  <2>1. \A h \in Handlers : Reserved(job, cap, e)[h] = 0
    BY <1>1 DEF Reserved
  <2>2. /\ IsFiniteSet(Units(Reserved(job, cap, e), Handlers))
        /\ Total(Reserved(job, cap, e), Handlers) = 0
    BY <2>1, TotalOfNothing
  <2>3. Total(ScansOf, PayingCodes(e)) = 0
    <3>1. Units(ScansOf, {}) = {}
      BY DEF Units
    <3> QED
      BY <1>2, <3>1, FS_EmptySet DEF Total
  <2>4. Cardinality(PayingCodes(e)) * Overlap = 0
    BY <1>2, FS_EmptySet, OverlapAssumption
  <2>5. Free(e) = 0
    BY <1>1, <2>3, <2>4 DEF Free, Allowed, Claims
  <2>6. most[e] * Free(e) = 0 /\ QuickShare(e) = 0
    BY <1>1, <2>5 DEF QuickShare
  <2>7. paid[e] = 0
    BY <1>1
  <2> HIDE DEF cap
  <2> QED
    BY <2>2, <2>6, <2>7
<1>6. \A h \in Handlers : job[h] # NoJob => Spends(job[h].todo, cap[h])
  BY <1>1
<1> HIDE DEF cap
<1>7. Reserves(most, cap)
  BY <1>5, <1>6 DEF Reserves
<1> QED
  BY <1>3, <1>4, <1>7 DEF CapRight

LEMMA ReservesStep ==
  ASSUME Typed, QuickRight, NEW most \in [Escrows -> Nat], CapRight(most), [QrNext]_allVars,
         \A e \in Escrows : /\ Price[e] <= most[e]
                            /\ \A i \in DOMAIN Shares[e] : Shares[e][i] <= most[e]
  PROVE  CapRight(most)'
<1>1. CASE QrNext
  <2>1. FreesGrow
    BY <1>1, FreeGrows DEF FreesGrow, CapRight
  <2>2. Handled
    BY <1>1, StepsHandled DEF Typed
  <2> QED
    BY <2>1, <2>2, HandledReserve
<1>2. CASE UNCHANGED allVars
  <2>1. UNCHANGED <<job, paid, quickPaid, announced, heard, code, scans>>
    BY <1>2 DEF allVars, deliveryVars, vars, books, podVars, qrVars
  <2>2. \A e \in Escrows : PayingCodes(e)' = PayingCodes(e)
    BY <2>1 DEF PayingCodes
  <2>3. ScansOf' = ScansOf
    BY <2>1 DEF ScansOf
  <2>4. \A e \in Escrows : Free(e)' = Free(e) /\ QuickShare(e)' = QuickShare(e)
    BY <2>1, <2>2, <2>3, FreeFollows DEF Free, Allowed, Claims, QuickShare
  <2>5. CodesFew'
    BY <2>2 DEF CodesFew, CapRight
  <2> PICK cap \in [Handlers -> Nat] : Reserves(most, cap)
    BY DEF CapRight
  <2>6. Reserves(most, cap)'
    BY <2>1, <2>4 DEF Reserves
  <2> QED
    BY <2>5, <2>6 DEF CapRight
<1> QED
  BY <1>1, <1>2

(* A reserve is nothing to be taken back, and neither is a claim. *)
LEMMA ReservesBound ==
  ASSUME Typed, NEW most \in [Escrows -> Nat], CapRight(most), NEW e \in Escrows
  PROVE  paid[e] <= most[e] * Allowed(e) + QuickShare(e)
<1>1. PICK cap \in [Handlers -> Nat] : Reserves(most, cap)
  BY DEF CapRight
<1> DEFINE held == Total(Reserved(job, cap, e), Handlers)
           a == most[e] * Free(e)
           b == most[e] * Allowed(e)
           s == QuickShare(e)
<1>2. CodesFew
  BY DEF CapRight
<1>3. /\ paid[e] \in Int /\ Free(e) \in Int /\ s \in Int /\ most[e] \in Nat
      /\ a \in Int /\ held \in Nat
  BY <1>1, <1>2, ReserveNumbers
<1>4. paid[e] + held <= a + s
  BY <1>1 DEF Reserves
<1>5. Allowed(e) \in Int /\ Allowed(e) >= Free(e)
  <2>1. /\ announced[e] \in Nat /\ heard[e].escrow \in Nat /\ heard[e].release \in Nat
        /\ Cardinality(PayingCodes(e)) * Overlap \in Nat /\ Total(ScansOf, PayingCodes(e)) \in Nat
    BY <1>2, FreeNumbers
  <2> QED
    BY <2>1 DEF Free, Allowed, Claims
<1>6. b \in Int /\ b >= a
  BY <1>3, <1>5, TimesGrows
<1> HIDE DEF held, a, b, s
<1>7. paid[e] <= b + s
  BY <1>3, <1>4, <1>6
<1> QED
  BY <1>7 DEF b, s

(* Whatever the shares that were agreed, a release of an escrow pays no    *)
(* more than its amount and than its greatest share, and there are no more *)
(* releases than deliveries announced and scans that found a code unused.  *)
THEOREM PaidWithinMost ==
  ASSUME NEW CONSTANT most \in [Escrows -> Nat],
         \A e \in Escrows : /\ Price[e] <= most[e]
                            /\ \A i \in DOMAIN Shares[e] : Shares[e][i] <= most[e]
  PROVE  QrSpec => [](\A e \in Escrows : paid[e] <= most[e] * Allowed(e) + QuickShare(e))
<1>1. Typed /\ QuickRight /\ CapRight(most) /\ [QrNext]_allVars => CapRight(most)'
  BY ReservesStep
<1>2. QrInit => CapRight(most)
  BY ReservesInitially
<1>3. Typed /\ CapRight(most) => \A e \in Escrows : paid[e] <= most[e] * Allowed(e) + QuickShare(e)
  BY ReservesBound
<1> QED
  BY <1>1, <1>2, <1>3, TypedInvariant, QuickPayIsBooked, PTL DEF QrSpec

(* Where no share exceeds the amount, which createEscrow does not ask of   *)
(* milestonePercentages, each piece of evidence pays the amount at most.   *)
THEOREM EvidenceLimitsPayment ==
  ASSUME \A e \in Escrows : \A i \in DOMAIN Shares[e] : Shares[e][i] <= Price[e]
  PROVE  QrSpec => []PaidPerEvidence
<1>1. Price \in [Escrows -> Nat] /\ \A e \in Escrows : Price[e] \in Nat /\ Price[e] <= Price[e]
  BY AmountsAssumption
<1>2. Typed /\ QuickRight /\ CapRight(Price) /\ [QrNext]_allVars => CapRight(Price)'
  BY <1>1, ReservesStep
<1>3. QrInit => CapRight(Price)
  BY <1>1, ReservesInitially
<1>4. Typed /\ CapRight(Price) => PaidPerEvidence
  <2> SUFFICES ASSUME Typed, CapRight(Price), NEW e \in Escrows
               PROVE  paid[e] <= Price[e] * Allowed(e) + QuickShare(e)
    BY DEF PaidPerEvidence, Allowed, QuickShare
  <2> QED
    BY <1>1, ReservesBound
<1> QED
  BY <1>2, <1>3, <1>4, TypedInvariant, QuickPayIsBooked, PTL DEF QrSpec
=============================================================================
