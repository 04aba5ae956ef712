------------------------------- MODULE Billing -------------------------------
(***************************************************************************)
(* Subscriptions and credits of one user: SubscriptionService and          *)
(* CreditService (billing/), which charge a registered card through        *)
(* PaymentService.charge (payment/payment.service.ts).                     *)
(*                                                                         *)
(* An operation is the list of awaited steps a process has left.  A save   *)
(* of a row that was read looks at the table once more and then updates    *)
(* the columns in which the row differs from what it saw.  The job that    *)
(* renews subscriptions runs in every replica of the server.               *)
(*                                                                         *)
(* A period of thirty days is known by the order in which it was given; it *)
(* is running, in its last day (`ending`), or over.  Plans and packages    *)
(* cost and hold the same.                                                 *)
(***************************************************************************)
EXTENDS Integers, Sequences, FiniteSets

CONSTANTS
  Handlers,     \* requests of the user that run concurrently
  Crons,        \* replicas that run the renewal job
  Pack,         \* credits of a package, bonus included
  Invoice,      \* credits deducted for an invoice
  MaxFails,     \* failed renewals that lead to the grace period; 3 in the code
  MaxOps        \* bound: operations, runs of the job and failures

ASSUME BillingAssumption ==
  /\ Handlers \cap Crons = {}
  /\ {Pack, Invoice, MaxFails} \subseteq Nat \ {0}
  /\ MaxOps \in Nat

VARIABLES
  subs,         \* the rows of `user_subscriptions`, in the order of their creation
  periods,      \* periods[t]: how far period t is
  credit,       \* the row of `user_credits`
  payments,     \* the rows of `payment_transactions`
  card,         \* the registered card is active
  job,          \* job[p]: the steps process p has left
  ops,          \* operations and runs begun, and those that broke off
  cancelled,    \* history: subscriptions whose cancellation the user saved
  overwritten,  \* history: subscriptions saved over a row that had changed meanwhile
  raced,        \* history: two purchases of a subscription overlapped
  disturbed,    \* history: a stale save, a lost answer or a failure fell on payments or credits
  mixed,        \* history: a save left a row of credits that is not the one it was to store
  used          \* history: the credits that stored deductions used, less those refunded

history == <<cancelled, overwritten, raced, disturbed, mixed, used>>
vars == <<subs, periods, credit, payments, card, job, ops, history>>

Processes == Handlers \cup Crons

SubscriptionStatuses == {"active", "grace_period", "expired", "cancelled"}
Subscription == [status : SubscriptionStatuses, autoRenew : BOOLEAN, fails : Nat, period : Nat]
UserCredit == [balance : Int, totalPurchased : Nat, totalUsed : Int]
Payment == [for : {"subscription", "credits", "renewal"},
            status : {"pending", "success", "failed"}, charged : BOOLEAN]

Init ==
  /\ subs = << >>
  /\ periods = << >>
  /\ credit = [balance |-> 0, totalPurchased |-> 0, totalUsed |-> 0]
  /\ payments = << >>
  /\ card = TRUE
  /\ job = [p \in Processes |-> << >>]
  /\ ops = 0
  /\ cancelled = {}
  /\ overwritten = {}
  /\ raced = FALSE
  /\ disturbed = FALSE
  /\ mixed = FALSE
  /\ used = 0

-----------------------------------------------------------------------------
(* The steps.  A charge goes on with `yes` or with `no`.                   *)

SaveSub(s, row, was) == [do |-> "saveSub", s |-> s, row |-> row, was |-> was]
UpdateSub(s, row, was, saw) ==
  [do |-> "updateSub", s |-> s, row |-> row, was |-> was, saw |-> saw]
Charge(what, yes, no) == [do |-> "charge", for |-> what, yes |-> yes, no |-> no]
Call(charge, n) == [do |-> "call", n |-> n, charge |-> charge]
Record(call, answer) == [do |-> "record", answer |-> answer, call |-> call]
Subscribe == [do |-> "subscribe"]
Extend(s, row) == [do |-> "extend", s |-> s, row |-> row]
FindExpired == [do |-> "findExpired"]
AddCredits == [do |-> "addCredits"]
SaveCredit(row, was) == [do |-> "saveCredit", row |-> row, was |-> was]
UpdateCredit(row, was, saw) == [do |-> "updateCredit", row |-> row, was |-> was, saw |-> saw]

Begin(p, steps) ==
  /\ job[p] = << >>
  /\ ops < MaxOps
  /\ job' = [job EXCEPT ![p] = steps]
  /\ ops' = ops + 1
  /\ UNCHANGED <<subs, periods, credit, payments, card, cancelled, overwritten, disturbed,
                 mixed, used>>

Doing(p, what) == job[p] # << >> /\ Head(job[p]).do = what
Then(p, steps) == job' = [job EXCEPT ![p] = steps \o Tail(@)] /\ UNCHANGED ops
Advance(p) == Then(p, << >>)
Disturb(holds) == disturbed' = (disturbed \/ holds)

(* A column in which the row differs from what the save saw is written.    *)
Written(new, saw, now) == IF new # saw THEN new ELSE now

-----------------------------------------------------------------------------
(* SubscriptionService *)

Active == {s \in DOMAIN subs : subs[s].status = "active"}
PeriodOf(s) == periods[subs[s].period]

PayForPlan == Charge("subscription", <<Subscribe>>, << >>)

(* A purchase that has not stored its subscription yet. *)
Buying(p) ==
  /\ job[p] # << >>
  /\ LET s == job[p][Len(job[p])] IN
       \/ s = PayForPlan \/ s = Subscribe
       \/ s.do = "call" /\ s.charge = PayForPlan
       \/ s.do = "record" /\ s.call.charge = PayForPlan

Race == raced' = (raced \/ \E p \in Handlers : Buying(p))

(* Mutant: the subscription there is goes on beside the new one. *)
PurchaseBeside(h) == Begin(h, <<PayForPlan>>) /\ Race

(* The active subscription is cancelled before the new one is paid for.    *)
Purchase(h) ==
  /\ Race
  /\ \/ Active = {} /\ Begin(h, <<PayForPlan>>)
     \/ \E s \in Active :
          Begin(h, <<SaveSub(s, [subs[s] EXCEPT !.status = "cancelled"], subs[s]), PayForPlan>>)

Latest == {s \in Active : \A t \in Active : t <= s}

(* Mutant: only the date of the cancellation is stored. *)
CancelDateOnly(h) ==
  /\ \E s \in Latest : Begin(h, <<SaveSub(s, subs[s], subs[s])>>)
  /\ UNCHANGED raced

(* "(donem sonunda)": the latest active subscription is not to be renewed. *)
CancelSubscription(h) ==
  /\ \E s \in Latest : Begin(h, <<SaveSub(s, [subs[s] EXCEPT !.autoRenew = FALSE], subs[s])>>)
  /\ UNCHANGED raced

(* The rows that find() answers with, in any order. *)
Orders(S) == {f \in [1 .. Cardinality(S) -> S] : \A s \in S : \E i \in DOMAIN f : f[i] = s}
Due == {s \in Active : subs[s].autoRenew /\ PeriodOf(s) # "running"}
Overdue == {s \in DOMAIN subs : subs[s].status = "grace_period" /\ PeriodOf(s) = "over"}

(* Mutant: one failure too late. *)
FailedLate(row) ==
  [row EXCEPT !.fails = @ + 1,
              !.status = IF row.fails + 1 > MaxFails THEN "grace_period" ELSE @]

(* The failure that reaches the limit leads to the grace period. *)
Failed(row) ==
  [row EXCEPT !.fails = @ + 1,
              !.status = IF row.fails + 1 >= MaxFails THEN "grace_period" ELSE @]

RenewalOf(s) ==
  Charge("renewal", <<Extend(s, subs[s])>>, <<SaveSub(s, Failed(subs[s]), subs[s])>>)

(* The subscriptions found due are charged one after the other; then the   *)
(* periods of grace that are over are looked for.                          *)
ProcessRenewals(k) ==
  /\ Due \cup Overdue # {}
  /\ \E due \in Orders(Due) :
       Begin(k, [i \in DOMAIN due |-> RenewalOf(due[i])] \o <<FindExpired>>)
  /\ UNCHANGED raced

UpdatedSub(u) ==
  LET now == subs[u.s] IN
  [status    |-> Written(u.row.status, u.saw.status, now.status),
   autoRenew |-> Written(u.row.autoRenew, u.saw.autoRenew, now.autoRenew),
   fails     |-> Written(u.row.fails, u.saw.fails, now.fails),
   period    |-> Written(u.row.period, u.saw.period, now.period)]

(* The save selects the row that is there now. *)
DoSaveSub(p) ==
  LET w == Head(job[p]) IN
  /\ Doing(p, "saveSub")
  /\ Then(p, <<UpdateSub(w.s, w.row, w.was, subs[w.s])>>)
  /\ UNCHANGED <<subs, periods, credit, payments, card, history>>

DoUpdateSub(p) ==
  LET u == Head(job[p]) IN
  /\ Doing(p, "updateSub")
  /\ subs' = [subs EXCEPT ![u.s] = UpdatedSub(u)]
  /\ cancelled' = cancelled \cup IF p \in Handlers THEN {u.s} ELSE {}
  /\ overwritten' = overwritten \cup
                      IF subs[u.s] # u.was \/ UpdatedSub(u) # u.row THEN {u.s} ELSE {}
  /\ Advance(p)
  /\ UNCHANGED <<periods, credit, payments, card, raced, disturbed, mixed, used>>

(* The row as the job found it is to be saved, with a new period. *)
DoExtend(k) ==
  LET w == Head(job[k]) IN
  /\ Doing(k, "extend")
  /\ periods' = Append(periods, "running")
  /\ Then(k, <<SaveSub(w.s, [w.row EXCEPT !.period = Len(periods) + 1, !.fails = 0], w.row)>>)
  /\ UNCHANGED <<subs, credit, payments, card, history>>

DoFindExpired(k) ==
  /\ Doing(k, "findExpired")
  /\ \E found \in Orders(Overdue) :
       Then(k, [i \in DOMAIN found |->
                  SaveSub(found[i], [subs[found[i]] EXCEPT !.status = "expired"],
                          subs[found[i]])])
  /\ UNCHANGED <<subs, periods, credit, payments, card, history>>

DoSubscribe(h) ==
  /\ Doing(h, "subscribe")
  /\ periods' = Append(periods, "running")
  /\ subs' = Append(subs, [status |-> "active", autoRenew |-> TRUE, fails |-> 0,
                           period |-> Len(periods) + 1])
  /\ Advance(h)
  /\ UNCHANGED <<credit, payments, card, history>>

(* Time passes for a period that some subscription is in. *)
Elapse(s) ==
  LET t == subs[s].period IN
  /\ periods[t] # "over"
  /\ periods' = [periods EXCEPT ![t] = IF @ = "running" THEN "ending" ELSE "over"]
  /\ UNCHANGED <<subs, credit, payments, card, job, ops, history>>

-----------------------------------------------------------------------------
(* PaymentService *)

CardIs(there) ==
  /\ ops < MaxOps
  /\ card' = there
  /\ ops' = ops + 1
  /\ UNCHANGED <<subs, periods, credit, payments, job, history>>

DeleteCard == card /\ CardIs(FALSE)
RegisterCard == ~card /\ CardIs(TRUE)

(* Without a card the charge throws: a request ends, and the job, which    *)
(* catches it, goes on with the next subscription.                         *)
DoCharge(p) ==
  LET s == Head(job[p]) IN
  /\ Doing(p, "charge")
  /\ IF card
     THEN /\ payments' = Append(payments, [for |-> s.for, status |-> "pending",
                                           charged |-> FALSE])
          /\ Then(p, <<Call(s, Len(payments) + 1)>>)
     ELSE Advance(p) /\ UNCHANGED payments
  /\ UNCHANGED <<subs, periods, credit, card, history>>

(* The provider charges and says so, refuses, or charges and its answer is *)
(* lost, which counts as a refusal.                                        *)
DoCall(p) ==
  LET s == Head(job[p]) IN
  /\ Doing(p, "call")
  /\ \E charged \in BOOLEAN, answer \in {"success", "failed"} :
       /\ answer = "success" => charged
       /\ payments' = [payments EXCEPT ![s.n].charged = charged]
       /\ Then(p, <<Record(s, answer)>>)
       /\ Disturb(charged /\ answer = "failed")
  /\ UNCHANGED <<subs, periods, credit, card, cancelled, overwritten, raced, mixed, used>>

DoRecord(p) ==
  LET s == Head(job[p]) IN
  /\ Doing(p, "record")
  /\ payments' = [payments EXCEPT ![s.call.n].status = s.answer]
  /\ Then(p, IF s.answer = "success" THEN s.call.charge.yes ELSE s.call.charge.no)
  /\ UNCHANGED <<subs, periods, credit, card, history>>

-----------------------------------------------------------------------------
(* CreditService *)

BuyCredits(h) ==
  /\ Begin(h, <<Charge("credits", <<AddCredits>>, << >>)>>)
  /\ UNCHANGED raced

Used(n) == [credit EXCEPT !.balance = @ - n, !.totalUsed = @ + n]

(* Mutant: the balance is not looked at. *)
DeductUnchecked(h) ==
  /\ Begin(h, <<SaveCredit(Used(Invoice), credit)>>)
  /\ UNCHANGED raced

Deduct(h) ==
  /\ credit.balance >= Invoice
  /\ Begin(h, <<SaveCredit(Used(Invoice), credit)>>)
  /\ UNCHANGED raced

Refund(h) ==
  /\ Begin(h, <<SaveCredit(Used(-Invoice), credit)>>)
  /\ UNCHANGED raced

DoAddCredits(h) ==
  LET row == [credit EXCEPT !.balance = @ + Pack, !.totalPurchased = @ + Pack] IN
  /\ Doing(h, "addCredits")
  /\ Then(h, <<SaveCredit(row, credit)>>)
  /\ UNCHANGED <<subs, periods, credit, payments, card, history>>

UpdatedCredit(u) ==
  [balance        |-> Written(u.row.balance, u.saw.balance, credit.balance),
   totalPurchased |-> Written(u.row.totalPurchased, u.saw.totalPurchased, credit.totalPurchased),
   totalUsed      |-> Written(u.row.totalUsed, u.saw.totalUsed, credit.totalUsed)]

DoSaveCredit(h) ==
  LET w == Head(job[h]) IN
  /\ Doing(h, "saveCredit")
  /\ Then(h, <<UpdateCredit(w.row, w.was, credit)>>)
  /\ UNCHANGED <<subs, periods, credit, payments, card, history>>

DoUpdateCredit(h) ==
  LET u == Head(job[h]) IN
  /\ Doing(h, "updateCredit")
  /\ credit' = UpdatedCredit(u)
  /\ used' = used + (u.row.totalUsed - u.was.totalUsed)
  /\ mixed' = (mixed \/ credit' # u.row)
  /\ Disturb(credit # u.was \/ credit' # u.row)
  /\ Advance(h)
  /\ UNCHANGED <<subs, periods, payments, card, cancelled, overwritten, raced>>

-----------------------------------------------------------------------------

(* A crash, or an exception nobody catches, between two steps. *)
Break(p) ==
  /\ job[p] # << >>
  /\ ops < MaxOps
  /\ job' = [job EXCEPT ![p] = << >>]
  /\ ops' = ops + 1
  /\ Disturb(TRUE)
  /\ UNCHANGED <<subs, periods, credit, payments, card, cancelled, overwritten, raced, mixed, used>>

(* The job catches what is thrown while it renews one subscription, and    *)
(* goes on with the next.                                                  *)
Skip(k) ==
  /\ Len(job[k]) > 1
  /\ job[k][Len(job[k])] = FindExpired
  /\ ops < MaxOps
  /\ job' = [job EXCEPT ![k] = Tail(@)]
  /\ ops' = ops + 1
  /\ UNCHANGED <<subs, periods, credit, payments, card, history>>

Request(h) ==
  \/ Purchase(h) \/ CancelSubscription(h)
  \/ BuyCredits(h) \/ Deduct(h) \/ Refund(h)

Step(p) ==
  \/ DoSaveSub(p) \/ DoUpdateSub(p) \/ DoSubscribe(p) \/ DoExtend(p) \/ DoFindExpired(p)
  \/ DoCharge(p) \/ DoCall(p) \/ DoRecord(p)
  \/ DoAddCredits(p) \/ DoSaveCredit(p) \/ DoUpdateCredit(p)

Next ==
  \/ \E h \in Handlers : Request(h)
  \/ \E k \in Crons : ProcessRenewals(k) \/ Skip(k)
  \/ \E p \in Processes : Step(p) \/ Break(p)
  \/ \E s \in DOMAIN subs : Elapse(s)
  \/ DeleteCard \/ RegisterCard

(* Time passes, the job runs each night, and what is begun goes on. *)
Fairness ==
  /\ \A s \in 1 .. MaxOps : WF_vars(s \in DOMAIN subs /\ Elapse(s))
  /\ \A k \in Crons : WF_vars(ProcessRenewals(k))
  /\ \A p \in Processes : WF_vars(Step(p))

Spec == Init /\ [][Next]_vars /\ Fairness

-----------------------------------------------------------------------------

(* Type invariant: the rows, and the periods they are in.  A row that no   *)
(* stale save fell on is not active with the failures of the grace period. *)
TypeOK ==
  /\ subs \in Seq(Subscription)
  /\ periods \in Seq({"running", "ending", "over"})
  /\ \A s \in DOMAIN subs : subs[s].period \in DOMAIN periods
  /\ \A s \in DOMAIN subs \ overwritten : subs[s].status = "active" => subs[s].fails < MaxFails
  /\ credit \in UserCredit
  /\ payments \in Seq(Payment)
  /\ \A n \in DOMAIN payments : payments[n].status = "success" => payments[n].charged
  /\ card \in BOOLEAN
  /\ ops \in 0 .. MaxOps
  /\ cancelled \cup overwritten \subseteq DOMAIN subs
  /\ raced \in BOOLEAN
  /\ {disturbed, mixed} \subseteq BOOLEAN
  /\ used \in Int

(* A subscription that the user cancelled, or replaced by another, is not  *)
(* to be renewed any more, unless a save by someone who had read it before *)
(* (the renewal job above all) brought it back.                            *)
CancelledStaysCancelled ==
  \A s \in cancelled :
    subs[s].status = "active" /\ subs[s].autoRenew => s \in overwritten

(* A user has at most one active subscription, so that one is charged per  *)
(* period, unless two purchases overlapped or a stale save revived one.    *)
OneActiveSubscription ==
  Cardinality(Active) > 1 => raced \/ overwritten # {}

Quiet == \A p \in Processes : job[p] = << >>

(* Credits.  However saves overwrite each other, the balance is never      *)
(* negative.  Until a save has stored columns of two rows, it is what was  *)
(* bought less what was used.  And as long as no save fell on a changed    *)
(* row, no answer was lost and no operation broke, what was bought is what *)
(* was charged for, and what was used is what was deducted.                *)
CreditsExplained ==
  /\ credit.balance >= 0
  /\ ~mixed => credit.balance = credit.totalPurchased - credit.totalUsed
  /\ ~disturbed => credit.totalUsed = used
  /\ Quiet /\ ~disturbed =>
       credit.totalPurchased = Pack * Cardinality({n \in DOMAIN payments :
                                      payments[n].for = "credits" /\ payments[n].charged})

(* "Abonelik donem sonunda iptal edilecek": a cancelled subscription ends. *)
CancelledSubscriptionEnds ==
  \A s \in 1 .. MaxOps :
    (s \in cancelled) ~> (s \in DOMAIN subs /\ subs[s].status # "active")
=============================================================================
