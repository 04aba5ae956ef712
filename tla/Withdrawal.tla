----------------------------- MODULE Withdrawal -----------------------------
(***************************************************************************)
(* Withdrawals of one user: WithdrawalService (escrow/withdrawal.service   *)
(* .ts), and deposit and withdraw of PaymentGatewayService (escrow/        *)
(* payment-gateway.service.ts), on the wallet row that WalletService moves *)
(* as well.                                                                *)
(*                                                                         *)
(* WalletService's movements are atomic (AtomicLedger).  WithdrawalService *)
(* reads the wallet without a lock, changes what it read and saves it      *)
(* whole.  An operation is the list of awaited steps a handler has left;   *)
(* a step that reads decides what the later ones are.                      *)
(*                                                                         *)
(* All requests fall into one month; days pass.  The ledger and audit rows *)
(* these operations add are read by nobody and left out.                   *)
(***************************************************************************)
EXTENDS Integers, Sequences, FiniteSetsExt

CONSTANTS
  Requests,     \* rows that `withdrawal_requests` may hold
  Handlers,     \* requests that run concurrently
  Amounts,
  NoRequest,    \* the row is not there
  Opening,      \* available balance at the start
  OpeningCash,  \* cashback balance at the start
  DailyLimit,   \* wallet.dailyWithdrawalLimit
  MonthlyLimit, \* wallet.monthlyWithdrawalLimit
  MaxOps,       \* bound: operations begun in a behaviour
  MaxDay        \* bound: days

ASSUME WithdrawalAssumption ==
  /\ Amounts \subseteq Nat \ {0}
  /\ {Opening, OpeningCash, DailyLimit, MonthlyLimit, MaxOps} \subseteq Nat
  /\ MaxDay \in Nat \ {0}

VARIABLES
  wallet,       \* the row of `wallets`
  request,      \* request[q]: the row of `withdrawal_requests`
  today,
  job,          \* job[h]: the steps handler h has left
  ops,          \* operations begun
  moved,        \* history: what WalletService has put into the wallet, net
  paidOut,      \* history: what the provider has paid out
  paidIn,       \* history: what the provider has taken in and is to be credited
  completed,    \* history: what was completed on the day of the last completion
  disturbed     \* history: a stale save, an overtaken debit or a failure fell on the books

books == <<moved, paidOut, paidIn, completed>>
vars == <<wallet, request, today, job, ops, books, disturbed>>

WithdrawalStatuses == {"PENDING", "APPROVED", "COMPLETED", "REJECTED"}

Wallet == [avail : Int, cashback : Int, withdrawn : Nat, day : 0 .. MaxDay]
Request == [status : WithdrawalStatuses, amount : Amounts, gateway : BOOLEAN]

ASSUME MarkerAssumption == NoRequest \notin Request

Init ==
  /\ wallet = [avail |-> Opening, cashback |-> OpeningCash, withdrawn |-> 0, day |-> 0]
  /\ request = [q \in Requests |-> NoRequest]
  /\ today = 1
  /\ job = [h \in Handlers |-> << >>]
  /\ ops = 0
  /\ moved = Opening
  /\ paidOut = 0
  /\ paidIn = 0
  /\ completed = 0
  /\ disturbed = FALSE

-----------------------------------------------------------------------------
(* The steps. *)

Ask(q, a) == [do |-> "ask", q |-> q, a |-> a]         \* read the wallet, check it
CheckMonth(q, a) == [do |-> "checkMonth", q |-> q, a |-> a]
Insert(q, a, g) == [do |-> "insert", q |-> q,
                    row |-> [status |-> IF g THEN "COMPLETED" ELSE "PENDING",
                             amount |-> a, gateway |-> g]]
Approve(q) == [do |-> "approve", q |-> q, was |-> request[q]]
Refund(q) == [do |-> "refund", q |-> q, was |-> request[q]]
Complete(q) == [do |-> "complete", q |-> q, was |-> request[q]]
SaveWallet(row, was) == [do |-> "saveWallet", row |-> row, was |-> was]
SaveRequest(q, status, was) == [do |-> "saveRequest", q |-> q, status |-> status, was |-> was]
PayOut(a, was) == [do |-> "payOut", a |-> a, was |-> was]
Debit(a, was) == [do |-> "debit", a |-> a, was |-> was]
TakeIn(a) == [do |-> "takeIn", a |-> a]
Credit(a) == [do |-> "credit", a |-> a]

(* Handler h begins an operation with these steps. *)
Begin(h, steps) ==
  /\ job[h] = << >>
  /\ ops < MaxOps
  /\ job' = [job EXCEPT ![h] = steps]
  /\ ops' = ops + 1
  /\ UNCHANGED <<wallet, request, today, books, disturbed>>

(* A row that is there, and one that no handler is about to insert. *)
Exists(q) == request[q] # NoRequest
Unused(q) ==
  /\ ~Exists(q)
  /\ \A h \in Handlers, i \in 1 .. 4 :
       i \in DOMAIN job[h] /\ job[h][i].do \in {"ask", "checkMonth", "insert"}
         => job[h][i].q # q

RequestWithdrawal(h, q, a) ==
  /\ Unused(q)
  /\ Begin(h, <<Ask(q, a)>>)

(* A request without a bank account goes through the same steps.           *)
Cashback(h, q, a) ==
  /\ Unused(q)
  /\ wallet.cashback >= a
  /\ Begin(h, <<SaveWallet([wallet EXCEPT !.avail = @ + a, !.cashback = @ - a], wallet),
                Ask(q, a)>>)

ApproveWithdrawal(h, q) ==
  /\ Exists(q)
  /\ request[q].status = "PENDING"
  /\ Begin(h, <<Approve(q)>>)

(* Mutant: what was never taken is given back. *)
RejectRefunding(h, q) ==
  /\ Exists(q)
  /\ request[q].status \in {"PENDING", "APPROVED"}
  /\ Begin(h, <<Refund(q), SaveRequest(q, "REJECTED", request[q])>>)

(* The balance is given back if the request was approved. *)
RejectWithdrawal(h, q) ==
  /\ Exists(q)
  /\ \/ /\ request[q].status = "PENDING"
        /\ Begin(h, <<SaveRequest(q, "REJECTED", request[q])>>)
     \/ /\ request[q].status = "APPROVED"
        /\ Begin(h, <<Refund(q), SaveRequest(q, "REJECTED", request[q])>>)

CompleteWithdrawal(h, q) ==
  /\ Exists(q)
  /\ request[q].status = "APPROVED"
  /\ Begin(h, <<Complete(q)>>)

(* The wallet is saved whole for the sake of its bank account. *)
SaveIban(h) == Begin(h, <<SaveWallet(wallet, wallet)>>)

(* PaymentGatewayService.withdraw: the provider first, then the wallet; the*)
(* daily counter is raised in a copy that is not saved.                    *)
Withdraw(h, q, a) ==
  /\ Unused(q)
  /\ wallet.avail >= a
  /\ wallet.day = today => wallet.withdrawn + a <= DailyLimit
  /\ Begin(h, <<PayOut(a, wallet), Debit(a, wallet), Insert(q, a, TRUE)>>)

(* PaymentGatewayService.deposit; the only provider completes at once.     *)
Deposit(h, a) == Begin(h, <<TakeIn(a), Credit(a)>>)

-----------------------------------------------------------------------------

Doing(h, what) == job[h] # << >> /\ Head(job[h]).do = what
Then(h, steps) == job' = [job EXCEPT ![h] = steps \o Tail(@)] /\ UNCHANGED ops
Advance(h) == Then(h, << >>)
Drop(h) == job' = [job EXCEPT ![h] = << >>] /\ UNCHANGED ops
Disturb(holds) == disturbed' = (disturbed \/ holds)

(* What was withdrawn on day `today`, as the wallet has it. *)
Counter == IF wallet.day = today THEN wallet.withdrawn ELSE 0

DoAsk(h) ==
  LET s == Head(job[h]) IN
  /\ Doing(h, "ask")
  /\ IF wallet.avail >= s.a /\ Counter + s.a <= DailyLimit
     THEN Then(h, <<CheckMonth(s.q, s.a), Insert(s.q, s.a, FALSE)>>)
     ELSE Drop(h)
  /\ UNCHANGED <<wallet, request, today, books, disturbed>>

Withdrawn(statuses, gateways) ==
  MapThenSumSet(LAMBDA q : request[q].amount,
                {q \in Requests : Exists(q) /\ request[q].status \in statuses
                                            /\ request[q].gateway \in gateways})

DoCheckMonth(h) ==
  LET s == Head(job[h]) IN
  /\ Doing(h, "checkMonth")
  /\ IF Withdrawn({"APPROVED", "COMPLETED"}, BOOLEAN) + s.a <= MonthlyLimit
     THEN Advance(h)
     ELSE Drop(h)
  /\ UNCHANGED <<wallet, request, today, books, disturbed>>

DoInsert(h) ==
  LET s == Head(job[h]) IN
  /\ Doing(h, "insert")
  /\ request' = [request EXCEPT ![s.q] = s.row]
  /\ Advance(h)
  /\ UNCHANGED <<wallet, today, books, disturbed>>

(* Mutant: the balance is not checked again. *)
DoApproveUnchecked(h) ==
  LET s == Head(job[h]) IN
  /\ Doing(h, "approve")
  /\ Then(h, <<SaveWallet([wallet EXCEPT !.avail = @ - s.was.amount], wallet),
               SaveRequest(s.q, "APPROVED", s.was)>>)
  /\ UNCHANGED <<wallet, request, today, books, disturbed>>

(* The request was read before the wallet, which is read now. *)
DoApprove(h) ==
  LET s == Head(job[h]) IN
  /\ Doing(h, "approve")
  /\ IF wallet.avail < s.was.amount
     THEN Then(h, <<SaveRequest(s.q, "REJECTED", s.was)>>)
     ELSE Then(h, <<SaveWallet([wallet EXCEPT !.avail = @ - s.was.amount], wallet),
                    SaveRequest(s.q, "APPROVED", s.was)>>)
  /\ UNCHANGED <<wallet, request, today, books, disturbed>>

DoRefund(h) ==
  LET s == Head(job[h]) IN
  /\ Doing(h, "refund")
  /\ Then(h, <<SaveWallet([wallet EXCEPT !.avail = @ + s.was.amount], wallet)>>)
  /\ UNCHANGED <<wallet, request, today, books, disturbed>>

(* Mutant: the amount is taken off the counter. *)
DoCompleteDown(h) ==
  LET s == Head(job[h]) IN
  /\ Doing(h, "complete")
  /\ Then(h, <<SaveRequest(s.q, "COMPLETED", s.was),
               SaveWallet([wallet EXCEPT !.withdrawn = Counter - s.was.amount,
                                         !.day = today], wallet)>>)
  /\ completed' = s.was.amount + IF wallet.day = today THEN completed ELSE 0
  /\ UNCHANGED <<wallet, request, today, moved, paidOut, paidIn, disturbed>>

(* The counters are saved last, in the wallet as it was before. *)
DoComplete(h) ==
  LET s == Head(job[h]) IN
  /\ Doing(h, "complete")
  /\ Then(h, <<SaveRequest(s.q, "COMPLETED", s.was),
               SaveWallet([wallet EXCEPT !.withdrawn = Counter + s.was.amount,
                                         !.day = today], wallet)>>)
  /\ completed' = s.was.amount + IF wallet.day = today THEN completed ELSE 0
  /\ UNCHANGED <<wallet, request, today, moved, paidOut, paidIn, disturbed>>

(* Whatever the wallet has become, it is what was read and changed. *)
DoSaveWallet(h) ==
  LET s == Head(job[h]) IN
  /\ Doing(h, "saveWallet")
  /\ wallet' = s.row
  /\ Disturb(wallet # s.was)
  /\ Advance(h)
  /\ UNCHANGED <<request, today, books>>

DoSaveRequest(h) ==
  LET s == Head(job[h]) IN
  /\ Doing(h, "saveRequest")
  /\ request' = [request EXCEPT ![s.q].status = s.status]
  /\ Disturb(request[s.q] # s.was)
  /\ Advance(h)
  /\ UNCHANGED <<wallet, today, books>>

DoPayOut(h) ==
  LET s == Head(job[h]) IN
  /\ Doing(h, "payOut")
  /\ paidOut' = paidOut + s.a
  /\ Advance(h)
  /\ UNCHANGED <<wallet, request, today, moved, paidIn, completed, disturbed>>

(* WalletService.debit refuses what the wallet no longer covers. *)
DoDebit(h) ==
  LET s == Head(job[h]) IN
  /\ Doing(h, "debit")
  /\ IF wallet.avail >= s.a
     THEN /\ wallet' = [wallet EXCEPT !.avail = @ - s.a]
          /\ moved' = moved - s.a
          /\ Advance(h)
          /\ UNCHANGED disturbed
     ELSE /\ Drop(h)
          /\ Disturb(wallet # s.was)
          /\ UNCHANGED <<wallet, moved>>
  /\ UNCHANGED <<request, today, paidOut, paidIn, completed>>

DoTakeIn(h) ==
  LET s == Head(job[h]) IN
  /\ Doing(h, "takeIn")
  /\ paidIn' = paidIn + s.a
  /\ Advance(h)
  /\ UNCHANGED <<wallet, request, today, moved, paidOut, completed, disturbed>>

DoCredit(h) ==
  LET s == Head(job[h]) IN
  /\ Doing(h, "credit")
  /\ wallet' = [wallet EXCEPT !.avail = @ + s.a]
  /\ moved' = moved + s.a
  /\ paidIn' = paidIn - s.a
  /\ Advance(h)
  /\ UNCHANGED <<request, today, paidOut, completed, disturbed>>

(* An exception, a lost connection or a crash between two steps. *)
Break(h) ==
  /\ job[h] # << >>
  /\ Drop(h)
  /\ Disturb(TRUE)
  /\ UNCHANGED <<wallet, request, today, books>>

(* WalletService moves money for an escrow meanwhile. *)
WalletMoves ==
  /\ ops < MaxOps
  /\ ops' = ops + 1
  /\ \E a \in Amounts, sign \in {1, -1} :
       /\ wallet.avail + sign * a >= 0
       /\ wallet' = [wallet EXCEPT !.avail = @ + sign * a]
       /\ moved' = moved + sign * a
  /\ UNCHANGED <<request, today, job, paidOut, paidIn, completed, disturbed>>

NewDay ==
  /\ today < MaxDay
  /\ today' = today + 1
  /\ UNCHANGED <<wallet, request, job, ops, books, disturbed>>

Call(h) ==
  \/ \E q \in Requests, a \in Amounts :
       RequestWithdrawal(h, q, a) \/ Cashback(h, q, a) \/ Withdraw(h, q, a)
  \/ \E q \in Requests :
       ApproveWithdrawal(h, q) \/ RejectWithdrawal(h, q) \/ CompleteWithdrawal(h, q)
  \/ \E a \in Amounts : Deposit(h, a)
  \/ SaveIban(h)

Step(h) ==
  \/ DoAsk(h) \/ DoCheckMonth(h) \/ DoInsert(h)
  \/ DoApprove(h) \/ DoRefund(h) \/ DoComplete(h)
  \/ DoSaveWallet(h) \/ DoSaveRequest(h)
  \/ DoPayOut(h) \/ DoDebit(h) \/ DoTakeIn(h) \/ DoCredit(h)

Next ==
  \/ \E h \in Handlers : Call(h) \/ Step(h) \/ Break(h)
  \/ WalletMoves
  \/ NewDay

Spec == Init /\ [][Next]_vars

-----------------------------------------------------------------------------

Steps == {"ask", "checkMonth", "insert", "approve", "refund", "complete", "saveWallet",
          "saveRequest", "payOut", "debit", "takeIn", "credit"}

(* Type invariant: the rows, and the steps each handler has left. *)
TypeOK ==
  /\ wallet \in Wallet
  /\ request \in [Requests -> Request \cup {NoRequest}]
  /\ today \in 1 .. MaxDay
  /\ \A h \in Handlers : \A i \in DOMAIN job[h] :
       /\ job[h][i].do \in Steps
       /\ job[h][i].do = "saveWallet" => job[h][i].row \in Wallet
       /\ job[h][i].do = "saveRequest" => Exists(job[h][i].q)
  /\ ops \in 0 .. MaxOps
  /\ moved \in Int /\ paidOut \in Nat /\ paidIn \in Int /\ completed \in Nat
  /\ disturbed \in BOOLEAN

(* No balance goes below zero, although approvals, cashbacks, rejections   *)
(* and saves of the bank account write back balances they read long ago.   *)
AvailableNeverNegative ==
  wallet.avail >= 0 /\ wallet.cashback >= 0

Quiet == \A h \in Handlers : job[h] = << >>

(* As long as no save fell on a row that had changed since it was read, no *)
(* debit was overtaken and no operation broke half way, the books agree    *)
(* whenever no operation is under way: what WalletService moved and what   *)
(* came from cashback is available or in approved requests, the provider   *)
(* paid out and took in what was booked, and the daily counter counts.     *)
BooksBalance ==
  Quiet /\ ~disturbed =>
    /\ wallet.avail + Withdrawn({"APPROVED", "COMPLETED"}, {FALSE})
         = moved + (OpeningCash - wallet.cashback)
    /\ paidOut = Withdrawn({"COMPLETED"}, {TRUE})
    /\ paidIn = 0
    /\ wallet.withdrawn = completed
=============================================================================
