--------------------------- MODULE WithdrawalProofs ---------------------------
(***************************************************************************)
(* Theorems about Withdrawal, for any number of handlers and requests, any *)
(* amounts and limits.                                                     *)
(*                                                                         *)
(* A save stores a wallet that was read long before, so the invariant      *)
(* speaks of every list of steps: the wallets still to be saved are ones   *)
(* whose balances are not negative, and the requests still to be saved are *)
(* there.                                                                  *)
(*                                                                         *)
(* For the books, the shape of each list matters too: what an operation    *)
(* has done to the wallet, the requests or the provider and not yet to the *)
(* other side is what its list will still do.  The sums over handlers and  *)
(* requests are cardinalities of sets of units.                            *)
(***************************************************************************)
EXTENDS Withdrawal, TLAPS, SequenceTheorems, FiniteSetTheorems

-----------------------------------------------------------------------------
(* The strengthening. *)

Solvent(w) == w.avail >= 0 /\ w.cashback >= 0

Existing == {q \in Requests : Exists(q)}

SaveWallets == {w \in [do : {"saveWallet"}, row : Wallet, was : Wallet] : Solvent(w.row)}
Asks == [do : {"ask", "checkMonth"}, q : Requests, a : Amounts]
Inserts == [do : {"insert"}, q : Requests, row : Request]
Reads(Q) == [do : {"approve", "refund", "complete"}, q : Q, was : Request]
SaveRequests(Q) == [do : {"saveRequest"}, q : Q, status : WithdrawalStatuses, was : Request]
Payments == [do : {"payOut", "debit"}, a : Amounts, was : Wallet]
Deposits == [do : {"takeIn", "credit"}, a : Amounts]

(* The steps a handler may have left when the requests in Q are there. *)
Todo(Q) ==
  SaveWallets \cup Asks \cup Inserts \cup Reads(Q) \cup SaveRequests(Q) \cup Payments \cup Deposits

JobsRight ==
  /\ job = [h \in Handlers |-> job[h]]
  /\ \A h \in Handlers : job[h] \in Seq(Todo(Existing))

Typed ==
  /\ wallet \in Wallet
  /\ request \in [Requests -> Request \cup {NoRequest}]
  /\ today \in 1 .. MaxDay
  /\ ops \in 0 .. MaxOps
  /\ moved \in Int /\ paidOut \in Nat /\ paidIn \in Int /\ completed \in Nat
  /\ disturbed \in BOOLEAN

Inductive == Typed /\ JobsRight /\ AvailableNeverNegative

-----------------------------------------------------------------------------
(* Lists of steps. *)

LEMMA SeqGrows ==
  ASSUME NEW S, NEW T, S \subseteq T
  PROVE  Seq(S) \subseteq Seq(T)
<1> SUFFICES ASSUME NEW s \in Seq(S) PROVE s \in Seq(T)
  OBVIOUS
<1>1. Len(s) \in Nat /\ s \in [1 .. Len(s) -> T]
  BY ElementOfSeq, LenProperties
<1> QED
  BY <1>1, SeqDef

LEMMA ShortLists ==
  ASSUME NEW S, NEW a \in S, NEW b \in S, NEW c \in S
  PROVE  <<a>> \in Seq(S) /\ <<a, b>> \in Seq(S) /\ <<a, b, c>> \in Seq(S)
OBVIOUS

LEMMA TodoGrows ==
  ASSUME NEW Q, NEW R, Q \subseteq R
  PROVE  Seq(Todo(Q)) \subseteq Seq(Todo(R))
<1>1. Reads(Q) \subseteq Reads(R) /\ SaveRequests(Q) \subseteq SaveRequests(R)
  BY DEF Reads, SaveRequests
<1>2. Todo(Q) \subseteq Todo(R)
  BY <1>1 DEF Todo
<1> QED
  BY <1>2, SeqGrows

LEMMA NextStep ==
  ASSUME Inductive, NEW h \in Handlers, job[h] # << >>
  PROVE  /\ Head(job[h]) \in Todo(Existing)
         /\ Tail(job[h]) \in Seq(Todo(Existing))
<1>1. job[h] \in Seq(Todo(Existing))
  BY DEF Inductive, JobsRight
<1> QED
  BY <1>1, HeadTailProperties

(* Which step it is, is told by what it does. *)
LEMMA Kinds ==
  ASSUME NEW Q, NEW w \in Todo(Q)
  PROVE  /\ w.do = "saveWallet" => w \in SaveWallets
         /\ w.do \in {"ask", "checkMonth"} => w \in Asks
         /\ w.do = "insert" => w \in Inserts
         /\ w.do \in {"approve", "refund", "complete"} => w \in Reads(Q)
         /\ w.do = "saveRequest" => w \in SaveRequests(Q)
         /\ w.do \in {"payOut", "debit"} => w \in Payments
         /\ w.do \in {"takeIn", "credit"} => w \in Deposits
         /\ w.do \in Steps
<1>1. /\ w \in SaveWallets => w.do = "saveWallet"
      /\ w \in Asks => w.do \in {"ask", "checkMonth"}
      /\ w \in Inserts => w.do = "insert"
      /\ w \in Reads(Q) => w.do \in {"approve", "refund", "complete"}
      /\ w \in SaveRequests(Q) => w.do = "saveRequest"
      /\ w \in Payments => w.do \in {"payOut", "debit"}
      /\ w \in Deposits => w.do \in {"takeIn", "credit"}
  BY DEF SaveWallets, Asks, Inserts, Reads, SaveRequests, Payments, Deposits
<1>2. \/ w \in SaveWallets \/ w \in Asks \/ w \in Inserts \/ w \in Reads(Q)
      \/ w \in SaveRequests(Q) \/ w \in Payments \/ w \in Deposits
  BY DEF Todo
<1>3. w.do \in Steps
  BY <1>1, <1>2 DEF Steps
<1> QED
  BY <1>1, <1>2, <1>3

(* The steps that operations are made of. *)
LEMMA MakeSteps ==
  ASSUME NEW Q
  PROVE  /\ \A row, was \in Wallet : Solvent(row) => SaveWallet(row, was) \in Todo(Q)
         /\ \A q \in Requests, a \in Amounts :
              Ask(q, a) \in Todo(Q) /\ CheckMonth(q, a) \in Todo(Q)
         /\ \A q \in Requests, a \in Amounts, g \in BOOLEAN : Insert(q, a, g) \in Todo(Q)
         /\ \A q \in Q, status \in WithdrawalStatuses, was \in Request :
              SaveRequest(q, status, was) \in Todo(Q)
         /\ \A a \in Amounts, was \in Wallet : PayOut(a, was) \in Todo(Q) /\ Debit(a, was) \in Todo(Q)
         /\ \A a \in Amounts : TakeIn(a) \in Todo(Q) /\ Credit(a) \in Todo(Q)
<1>1. \A row, was \in Wallet : Solvent(row) => SaveWallet(row, was) \in SaveWallets
  BY DEF SaveWallet, SaveWallets
<1>2. \A q \in Requests, a \in Amounts : Ask(q, a) \in Asks /\ CheckMonth(q, a) \in Asks
  BY DEF Ask, CheckMonth, Asks
<1>3. \A q \in Requests, a \in Amounts, g \in BOOLEAN : Insert(q, a, g) \in Inserts
  BY DEF Insert, Inserts, Request, WithdrawalStatuses
<1>4. \A q \in Q, status \in WithdrawalStatuses, was \in Request :
        SaveRequest(q, status, was) \in SaveRequests(Q)
  BY DEF SaveRequest, SaveRequests
<1>5. \A a \in Amounts, was \in Wallet : PayOut(a, was) \in Payments /\ Debit(a, was) \in Payments
  BY DEF PayOut, Debit, Payments
<1>6. \A a \in Amounts : TakeIn(a) \in Deposits /\ Credit(a) \in Deposits
  BY DEF TakeIn, Credit, Deposits
<1> QED
  BY <1>1, <1>2, <1>3, <1>4, <1>5, <1>6 DEF Todo

(* A request that is there can be read. *)
LEMMA ReadSteps ==
  ASSUME Inductive, NEW q \in Requests, Exists(q)
  PROVE  /\ request[q] \in Request /\ q \in Existing
         /\ Approve(q) \in Todo(Existing) /\ Refund(q) \in Todo(Existing)
         /\ Complete(q) \in Todo(Existing)
<1>1. request[q] \in Request /\ q \in Existing
  BY DEF Inductive, Typed, Exists, Existing
<1>2. /\ Approve(q) \in Reads(Existing) /\ Refund(q) \in Reads(Existing)
      /\ Complete(q) \in Reads(Existing)
  BY <1>1 DEF Approve, Refund, Complete, Reads
<1> QED
  BY <1>1, <1>2 DEF Todo

(* One list changes, and no request disappears. *)
LEMMA JobsKeep ==
  ASSUME Inductive, NEW h \in Handlers, NEW todo \in Seq(Todo(Existing)),
         job' = [job EXCEPT ![h] = todo], Existing \subseteq Existing'
  PROVE  JobsRight'
<1>1. job = [g \in Handlers |-> job[g]] /\ \A g \in Handlers : job[g] \in Seq(Todo(Existing))
  BY DEF Inductive, JobsRight
<1>2. DOMAIN job = Handlers
  BY <1>1
<1>3. job' = [g \in Handlers |-> job'[g]] /\ job'[h] = todo /\ \A g \in Handlers \ {h} : job'[g] = job[g]
  BY <1>1, <1>2
<1>4. \A g \in Handlers : job'[g] \in Seq(Todo(Existing))
  BY <1>1, <1>3
<1>5. \A g \in Handlers : job'[g] \in Seq(Todo(Existing'))
  BY <1>4, TodoGrows
<1> QED
  BY <1>3, <1>5 DEF JobsRight

(* A step that leaves the requests alone. *)
LEMMA ThenKeeps ==
  ASSUME Inductive, NEW h \in Handlers, job[h] # << >>,
         NEW more \in Seq(Todo(Existing)), Then(h, more) \/ (more = << >> /\ Drop(h)),
         request' = request, today' = today,
         wallet' \in Wallet, Solvent(wallet'),
         moved' \in Int, paidOut' \in Nat, paidIn' \in Int, completed' \in Nat,
         disturbed' \in BOOLEAN
  PROVE  Inductive'
<1>1. Existing' = Existing
  BY DEF Existing, Exists
<1>2. ops' = ops
  BY DEF Then, Drop
<1>3. JobsRight'
  <2>1. CASE Then(h, more)
    <3>1. more \o Tail(job[h]) \in Seq(Todo(Existing))
      BY NextStep, ConcatProperties
    <3>2. job' = [job EXCEPT ![h] = more \o Tail(job[h])]
      BY <2>1 DEF Then
    <3> QED
      BY <1>1, <3>1, <3>2, JobsKeep
  <2>2. CASE more = << >> /\ Drop(h)
    BY <1>1, <2>2, JobsKeep DEF Drop
  <2> QED
    BY <2>1, <2>2
<1>4. Typed'
  BY <1>2 DEF Inductive, Typed
<1>5. AvailableNeverNegative'
  BY DEF AvailableNeverNegative, Solvent
<1> QED
  BY <1>3, <1>4, <1>5 DEF Inductive

(* What the rows are. *)
LEMMA Now ==
  ASSUME Inductive
  PROVE  /\ wallet \in Wallet /\ Solvent(wallet)
         /\ wallet.avail \in Int /\ wallet.cashback \in Int /\ wallet.withdrawn \in Nat
         /\ wallet.day \in 0 .. MaxDay /\ today \in 1 .. MaxDay /\ today \in 0 .. MaxDay
         /\ wallet.avail >= 0 /\ wallet.cashback >= 0
         /\ moved \in Int /\ paidOut \in Nat /\ paidIn \in Int /\ completed \in Nat
         /\ disturbed \in BOOLEAN
         /\ Amounts \subseteq Nat \ {0}
<1>1. Typed /\ AvailableNeverNegative
  BY DEF Inductive
<1>2. disturbed \in BOOLEAN
  BY <1>1 DEF Typed
<1>3. MaxDay \in Nat
  BY WithdrawalAssumption
<1> QED
  BY <1>1, <1>2, <1>3, WithdrawalAssumption DEF Typed, AvailableNeverNegative, Wallet, Solvent

(* The wallet with another balance, or with another counter. *)
LEMMA Changed ==
  ASSUME NEW w \in Wallet, Solvent(w)
  PROVE  /\ \A a \in Int : a >= 0 => [w EXCEPT !.avail = a] \in Wallet /\ Solvent([w EXCEPT !.avail = a])
         /\ \A a, c \in Int : a >= 0 /\ c >= 0 =>
              /\ [w EXCEPT !.avail = a, !.cashback = c] \in Wallet
              /\ Solvent([w EXCEPT !.avail = a, !.cashback = c])
         /\ \A n \in Nat, d \in 0 .. MaxDay :
              /\ [w EXCEPT !.withdrawn = n, !.day = d] \in Wallet
              /\ Solvent([w EXCEPT !.withdrawn = n, !.day = d])
<1>1. ASSUME NEW a \in Int, a >= 0
      PROVE  [w EXCEPT !.avail = a] \in Wallet /\ Solvent([w EXCEPT !.avail = a])
  BY <1>1 DEF Wallet, Solvent
<1>2. ASSUME NEW a \in Int, NEW c \in Int, a >= 0, c >= 0
      PROVE  /\ [w EXCEPT !.avail = a, !.cashback = c] \in Wallet
             /\ Solvent([w EXCEPT !.avail = a, !.cashback = c])
  BY <1>2 DEF Wallet, Solvent
<1>3. ASSUME NEW n \in Nat, NEW d \in 0 .. MaxDay
      PROVE  /\ [w EXCEPT !.withdrawn = n, !.day = d] \in Wallet
             /\ Solvent([w EXCEPT !.withdrawn = n, !.day = d])
  BY <1>3 DEF Wallet, Solvent
<1> QED
  BY <1>1, <1>2, <1>3

(* A handler takes up a list of steps that are right. *)
LEMMA BeginKeeps ==
  ASSUME Inductive, NEW h \in Handlers, NEW todo \in Seq(Todo(Existing)), Begin(h, todo)
  PROVE  Inductive'
<1>1. /\ job' = [job EXCEPT ![h] = todo] /\ ops < MaxOps /\ ops' = ops + 1
      /\ wallet' = wallet /\ request' = request /\ today' = today
      /\ moved' = moved /\ paidOut' = paidOut /\ paidIn' = paidIn /\ completed' = completed
      /\ disturbed' = disturbed
  BY DEF Begin, books
<1>2. Existing' = Existing
  BY <1>1 DEF Existing, Exists
<1>3. JobsRight'
  BY <1>1, <1>2, JobsKeep
<1>4. ops' \in 0 .. MaxOps
  BY <1>1, WithdrawalAssumption DEF Inductive, Typed
<1>5. Typed'
  BY <1>1, <1>4 DEF Inductive, Typed
<1>6. AvailableNeverNegative'
  BY <1>1 DEF Inductive, AvailableNeverNegative
<1> QED
  BY <1>3, <1>5, <1>6 DEF Inductive

LEMMA CallKeeps ==
  ASSUME Inductive, NEW h \in Handlers, Call(h)
  PROVE  Inductive'
<1> DEFINE T == Todo(Existing)
<1>1. ASSUME NEW q \in Requests, NEW a \in Amounts, RequestWithdrawal(h, q, a)
      PROVE  Inductive'
  <2>1. <<Ask(q, a)>> \in Seq(T)
    BY MakeSteps
  <2> QED
    BY <1>1, <2>1, BeginKeeps DEF RequestWithdrawal
<1>2. ASSUME NEW q \in Requests, NEW a \in Amounts, Cashback(h, q, a)
      PROVE  Inductive'
  <2> DEFINE b == wallet.avail + a
             c == wallet.cashback - a
             row == [wallet EXCEPT !.avail = b, !.cashback = c]
  <2>1. wallet.cashback >= a /\ Begin(h, <<SaveWallet(row, wallet), Ask(q, a)>>)
    BY <1>2 DEF Cashback
  <2>2. b \in Int /\ c \in Int /\ b >= 0 /\ c >= 0 /\ wallet \in Wallet /\ Solvent(wallet)
    BY <2>1, Now
  <2> HIDE DEF b, c
  <2>3. row \in Wallet /\ Solvent(row)
    BY <2>2, Changed
  <2> HIDE DEF row
  <2>4. SaveWallet(row, wallet) \in T /\ Ask(q, a) \in T
    BY <2>2, <2>3, MakeSteps
  <2>5. <<SaveWallet(row, wallet), Ask(q, a)>> \in Seq(T)
    BY <2>4
  <2> QED
    BY <2>1, <2>5, BeginKeeps
<1>3. ASSUME NEW q \in Requests, NEW a \in Amounts, Withdraw(h, q, a)
      PROVE  Inductive'
  <2>1. PayOut(a, wallet) \in T /\ Debit(a, wallet) \in T /\ Insert(q, a, TRUE) \in T
    BY Now, MakeSteps
  <2>2. <<PayOut(a, wallet), Debit(a, wallet), Insert(q, a, TRUE)>> \in Seq(T)
    BY <2>1, ShortLists
  <2> QED
    BY <1>3, <2>2, BeginKeeps DEF Withdraw
<1>4. ASSUME NEW q \in Requests, ApproveWithdrawal(h, q)
      PROVE  Inductive'
  <2>1. <<Approve(q)>> \in Seq(T)
    BY <1>4, ReadSteps DEF ApproveWithdrawal
  <2> QED
    BY <1>4, <2>1, BeginKeeps DEF ApproveWithdrawal
<1>5. ASSUME NEW q \in Requests, RejectWithdrawal(h, q)
      PROVE  Inductive'
  <2>1. Exists(q)
    BY <1>5 DEF RejectWithdrawal
  <2>2. Refund(q) \in T /\ SaveRequest(q, "REJECTED", request[q]) \in T
    BY <2>1, ReadSteps, MakeSteps DEF WithdrawalStatuses
  <2>3. /\ <<SaveRequest(q, "REJECTED", request[q])>> \in Seq(T)
        /\ <<Refund(q), SaveRequest(q, "REJECTED", request[q])>> \in Seq(T)
    BY <2>2
  <2> QED
    BY <1>5, <2>3, BeginKeeps DEF RejectWithdrawal
<1>6. ASSUME NEW q \in Requests, CompleteWithdrawal(h, q)
      PROVE  Inductive'
  <2>1. <<Complete(q)>> \in Seq(T)
    BY <1>6, ReadSteps DEF CompleteWithdrawal
  <2> QED
    BY <1>6, <2>1, BeginKeeps DEF CompleteWithdrawal
<1>7. ASSUME NEW a \in Amounts, Deposit(h, a)
      PROVE  Inductive'
  <2>1. TakeIn(a) \in T /\ Credit(a) \in T
    BY MakeSteps
  <2>2. <<TakeIn(a), Credit(a)>> \in Seq(T)
    BY <2>1
  <2> QED
    BY <1>7, <2>2, BeginKeeps DEF Deposit
<1>8. CASE SaveIban(h)
  <2>1. SaveWallet(wallet, wallet) \in T
    BY Now, MakeSteps
  <2>2. <<SaveWallet(wallet, wallet)>> \in Seq(T)
    BY <2>1
  <2> QED
    BY <1>8, <2>2, BeginKeeps DEF SaveIban
<1> QED
  BY <1>1, <1>2, <1>3, <1>4, <1>5, <1>6, <1>7, <1>8 DEF Call

-----------------------------------------------------------------------------
(* Steps. *)

(* The wallet and the requests are read and checked. *)
LEMMA CheckKeeps ==
  ASSUME Inductive, NEW h \in Handlers, DoAsk(h) \/ DoCheckMonth(h)
  PROVE  Inductive'
<1> DEFINE w == Head(job[h])
           next == <<CheckMonth(w.q, w.a), Insert(w.q, w.a, FALSE)>>
<1>1. /\ job[h] # << >> /\ w.do \in {"ask", "checkMonth"}
      /\ wallet' = wallet /\ request' = request /\ today' = today
      /\ moved' = moved /\ paidOut' = paidOut /\ paidIn' = paidIn /\ completed' = completed
      /\ disturbed' = disturbed
  BY DEF DoAsk, DoCheckMonth, Doing, books
<1>2. Then(h, next) \/ Then(h, << >>) \/ Drop(h)
  BY DEF DoAsk, DoCheckMonth, Advance
<1>3. w \in Asks
  BY <1>1, NextStep, Kinds
<1> HIDE DEF w
<1>4. CheckMonth(w.q, w.a) \in Todo(Existing) /\ Insert(w.q, w.a, FALSE) \in Todo(Existing)
  BY <1>3, MakeSteps DEF Asks
<1>5. next \in Seq(Todo(Existing)) /\ << >> \in Seq(Todo(Existing))
  BY <1>4, EmptySeq, ShortLists
<1> HIDE DEF next
<1>6. /\ wallet' \in Wallet /\ Solvent(wallet') /\ moved' \in Int /\ paidOut' \in Nat
      /\ paidIn' \in Int /\ completed' \in Nat
  BY <1>1, Now
<1>7. disturbed' \in BOOLEAN
  BY <1>1, Now
<1> QED
  BY <1>1, <1>2, <1>5, <1>6, <1>7, ThenKeeps

(* A request read before is decided on: the wallet is read now, and what   *)
(* it will be saved as is not negative.                                    *)
LEMMA DecideKeeps ==
  ASSUME Inductive, NEW h \in Handlers, DoApprove(h) \/ DoRefund(h)
  PROVE  Inductive'
<1> DEFINE w == Head(job[h])
           T == Todo(Existing)
           less == wallet.avail - w.was.amount
           more == wallet.avail + w.was.amount
           lessRow == [wallet EXCEPT !.avail = less]
           moreRow == [wallet EXCEPT !.avail = more]
           rejected == SaveRequest(w.q, "REJECTED", w.was)
           approved == SaveRequest(w.q, "APPROVED", w.was)
<1>1. /\ job[h] # << >> /\ w.do \in {"approve", "refund"}
      /\ wallet' = wallet /\ request' = request /\ today' = today
      /\ moved' = moved /\ paidOut' = paidOut /\ paidIn' = paidIn /\ completed' = completed
      /\ disturbed' = disturbed
  BY DEF DoApprove, DoRefund, Doing, books
<1>2. \/ Then(h, <<rejected>>)
      \/ wallet.avail >= w.was.amount /\ Then(h, <<SaveWallet(lessRow, wallet), approved>>)
      \/ Then(h, <<SaveWallet(moreRow, wallet)>>)
  <2>1. CASE DoApprove(h)
    <3>1. \/ wallet.avail < w.was.amount /\ Then(h, <<rejected>>)
          \/ ~(wallet.avail < w.was.amount) /\ Then(h, <<SaveWallet(lessRow, wallet), approved>>)
      BY <2>1 DEF DoApprove
    <3>2. w.was.amount \in Int
      BY <1>1, NextStep, Kinds, Now DEF Reads, Request
    <3> QED
      BY <3>1, <3>2, Now
  <2>2. CASE DoRefund(h)
    BY <2>2 DEF DoRefund
  <2> QED
    BY <2>1, <2>2
<1>3. w \in Reads(Existing)
  BY <1>1, NextStep, Kinds
<1> HIDE DEF w
<1>4. w.q \in Existing /\ w.was \in Request /\ w.was.amount \in Nat
  BY <1>3, Now DEF Reads, Request
<1>5. wallet \in Wallet /\ Solvent(wallet) /\ less \in Int /\ more \in Int /\ more >= 0
      /\ (wallet.avail >= w.was.amount => less >= 0)
  BY <1>4, Now
<1> HIDE DEF less, more
<1>6. /\ moreRow \in Wallet /\ Solvent(moreRow)
      /\ wallet.avail >= w.was.amount => lessRow \in Wallet /\ Solvent(lessRow)
  BY <1>5, Changed
<1> HIDE DEF moreRow, lessRow
<1>7. rejected \in T /\ approved \in T
  BY <1>4, MakeSteps DEF WithdrawalStatuses
<1>8. /\ SaveWallet(moreRow, wallet) \in T
      /\ wallet.avail >= w.was.amount => SaveWallet(lessRow, wallet) \in T
  BY <1>5, <1>6, MakeSteps
<1> HIDE DEF rejected, approved
<1>9. PICK todo \in Seq(T) : Then(h, todo)
  BY <1>2, <1>7, <1>8, ShortLists
<1>10. /\ wallet' \in Wallet /\ Solvent(wallet') /\ moved' \in Int /\ paidOut' \in Nat
       /\ paidIn' \in Int /\ completed' \in Nat
  BY <1>1, Now
<1>11. disturbed' \in BOOLEAN
  BY <1>1, Now
<1> QED
  BY <1>1, <1>9, <1>10, <1>11, ThenKeeps

LEMMA CompleteKeeps ==
  ASSUME Inductive, NEW h \in Handlers, DoComplete(h)
  PROVE  Inductive'
<1> DEFINE w == Head(job[h])
           T == Todo(Existing)
           n == Counter + w.was.amount
           row == [wallet EXCEPT !.withdrawn = n, !.day = today]
           done == SaveRequest(w.q, "COMPLETED", w.was)
<1>1. /\ job[h] # << >> /\ w.do = "complete" /\ Then(h, <<done, SaveWallet(row, wallet)>>)
      /\ wallet' = wallet /\ request' = request /\ today' = today
      /\ moved' = moved /\ paidOut' = paidOut /\ paidIn' = paidIn
      /\ completed' = w.was.amount + IF wallet.day = today THEN completed ELSE 0
      /\ disturbed' = disturbed
  BY DEF DoComplete, Doing
<1>2. w \in Reads(Existing)
  BY <1>1, NextStep, Kinds
<1> HIDE DEF w
<1>3. w.q \in Existing /\ w.was \in Request /\ w.was.amount \in Nat
  BY <1>2, Now DEF Reads, Request
<1>4. n \in Nat /\ completed' \in Nat
  <2>1. Counter \in Nat
    BY Now DEF Counter
  <2> QED
    BY SMTT(30), <1>1, <1>3, <2>1, Now
<1> HIDE DEF n
<1>5. row \in Wallet /\ Solvent(row)
  BY <1>4, Changed, Now
<1> HIDE DEF row
<1>6. done \in T /\ SaveWallet(row, wallet) \in T
  BY <1>3, <1>5, MakeSteps, Now DEF WithdrawalStatuses
<1> HIDE DEF done
<1>7. <<done, SaveWallet(row, wallet)>> \in Seq(T)
  BY <1>6, ShortLists
<1>8. /\ wallet' \in Wallet /\ Solvent(wallet') /\ moved' \in Int /\ paidOut' \in Nat
      /\ paidIn' \in Int
  BY <1>1, Now
<1>9. disturbed' \in BOOLEAN
  BY <1>1, Now
<1> QED
  BY <1>1, <1>4, <1>7, <1>8, <1>9, ThenKeeps

(* The wallet is saved as it was read and changed: not negative. *)
LEMMA SaveWalletKeeps ==
  ASSUME Inductive, NEW h \in Handlers, DoSaveWallet(h)
  PROVE  Inductive'
<1> DEFINE w == Head(job[h])
<1>1. /\ job[h] # << >> /\ w.do = "saveWallet" /\ wallet' = w.row /\ Then(h, << >>)
      /\ request' = request /\ today' = today
      /\ moved' = moved /\ paidOut' = paidOut /\ paidIn' = paidIn /\ completed' = completed
  BY DEF DoSaveWallet, Doing, Advance, books
<1>2. w \in SaveWallets
  BY <1>1, NextStep, Kinds
<1>3. wallet' \in Wallet /\ Solvent(wallet')
  BY <1>1, <1>2 DEF SaveWallets
<1>4. disturbed' \in BOOLEAN
  BY Now DEF DoSaveWallet, Disturb
<1>5. moved' \in Int /\ paidOut' \in Nat /\ paidIn' \in Int /\ completed' \in Nat
  BY <1>1, Now
<1> QED
  BY <1>1, <1>3, <1>4, <1>5, ThenKeeps, EmptySeq

(* A step that stores a request. *)
LEMMA StoreKeeps ==
  ASSUME Inductive, NEW h \in Handlers, job[h] # << >>, Then(h, << >>),
         request' \in [Requests -> Request \cup {NoRequest}], Existing \subseteq Existing',
         wallet' = wallet, today' = today, moved' = moved, paidOut' = paidOut,
         paidIn' = paidIn, completed' = completed, disturbed' \in BOOLEAN
  PROVE  Inductive'
<1>1. << >> \o Tail(job[h]) \in Seq(Todo(Existing))
  BY NextStep, EmptySeq, ConcatProperties
<1>2. job' = [job EXCEPT ![h] = << >> \o Tail(job[h])] /\ ops' = ops
  BY DEF Then
<1>3. JobsRight'
  BY <1>1, <1>2, JobsKeep
<1>4. Typed'
  BY <1>2 DEF Inductive, Typed
<1>5. AvailableNeverNegative'
  BY DEF Inductive, AvailableNeverNegative
<1> QED
  BY <1>3, <1>4, <1>5 DEF Inductive

LEMMA InsertKeeps ==
  ASSUME Inductive, NEW h \in Handlers, DoInsert(h)
  PROVE  Inductive'
<1> DEFINE w == Head(job[h])
<1>1. /\ job[h] # << >> /\ w.do = "insert" /\ Then(h, << >>)
      /\ request' = [request EXCEPT ![w.q] = w.row]
      /\ wallet' = wallet /\ today' = today
      /\ moved' = moved /\ paidOut' = paidOut /\ paidIn' = paidIn /\ completed' = completed
      /\ disturbed' = disturbed
  BY DEF DoInsert, Doing, Advance, books
<1>2. w \in Inserts
  BY <1>1, NextStep, Kinds
<1> HIDE DEF w
<1>3. w.q \in Requests /\ w.row \in Request /\ w.row # NoRequest
  BY <1>2, MarkerAssumption DEF Inserts
<1>4. request \in [Requests -> Request \cup {NoRequest}]
  BY DEF Inductive, Typed
<1>5. request' \in [Requests -> Request \cup {NoRequest}] /\ Existing \subseteq Existing'
  BY <1>1, <1>3, <1>4 DEF Existing, Exists
<1>6. disturbed' \in BOOLEAN
  BY <1>1, Now
<1> QED
  BY <1>1, <1>5, <1>6, StoreKeeps

LEMMA SaveRequestKeeps ==
  ASSUME Inductive, NEW h \in Handlers, DoSaveRequest(h)
  PROVE  Inductive'
<1> DEFINE w == Head(job[h])
           row == [request[w.q] EXCEPT !.status = w.status]
<1>1. /\ job[h] # << >> /\ w.do = "saveRequest" /\ Then(h, << >>)
      /\ request' = [request EXCEPT ![w.q] = row]
      /\ wallet' = wallet /\ today' = today
      /\ moved' = moved /\ paidOut' = paidOut /\ paidIn' = paidIn /\ completed' = completed
  BY DEF DoSaveRequest, Doing, Advance, books
<1>2. w \in SaveRequests(Existing)
  BY <1>1, NextStep, Kinds
<1>3. disturbed' \in BOOLEAN
  BY Now DEF DoSaveRequest, Disturb
<1> HIDE DEF w
<1>4. request \in [Requests -> Request \cup {NoRequest}]
  BY DEF Inductive, Typed
<1>5. w.q \in Requests /\ w.status \in WithdrawalStatuses /\ request[w.q] \in Request
  BY <1>2, <1>4 DEF SaveRequests, Existing, Exists
<1>6. row \in Request /\ row # NoRequest
  <2>1. row \in Request
    BY <1>5 DEF Request
  <2> QED
    BY <2>1, MarkerAssumption
<1> HIDE DEF row
<1>7. request' \in [Requests -> Request \cup {NoRequest}] /\ Existing \subseteq Existing'
  BY <1>1, <1>4, <1>5, <1>6 DEF Existing, Exists
<1> QED
  BY <1>1, <1>3, <1>7, StoreKeeps

(* The provider pays out or takes in. *)
LEMMA ProviderKeeps ==
  ASSUME Inductive, NEW h \in Handlers, DoPayOut(h) \/ DoTakeIn(h)
  PROVE  Inductive'
<1> DEFINE w == Head(job[h])
<1>1. /\ job[h] # << >> /\ w.do \in {"payOut", "takeIn"} /\ Then(h, << >>)
      /\ wallet' = wallet /\ request' = request /\ today' = today
      /\ moved' = moved /\ completed' = completed /\ disturbed' = disturbed
      /\ paidOut' = paidOut \/ paidOut' = paidOut + w.a
      /\ paidIn' = paidIn \/ paidIn' = paidIn + w.a
  BY DEF DoPayOut, DoTakeIn, Doing, Advance
<1>2. w \in Payments \/ w \in Deposits
  BY <1>1, NextStep, Kinds
<1> HIDE DEF w
<1>3. w.a \in Nat
  BY <1>2, Now DEF Payments, Deposits
<1>4. paidOut' \in Nat /\ paidIn' \in Int
  BY <1>1, <1>3, Now
<1>5. wallet' \in Wallet /\ Solvent(wallet') /\ moved' \in Int /\ completed' \in Nat
  BY <1>1, Now
<1>6. disturbed' \in BOOLEAN
  BY <1>1, Now
<1> QED
  BY <1>1, <1>4, <1>5, <1>6, ThenKeeps, EmptySeq

(* WalletService debits what is there, and nothing else. *)
LEMMA DebitKeeps ==
  ASSUME Inductive, NEW h \in Handlers, DoDebit(h)
  PROVE  Inductive'
<1> DEFINE w == Head(job[h])
           b == wallet.avail - w.a
<1>1. /\ job[h] # << >> /\ w.do = "debit" /\ request' = request /\ today' = today
      /\ paidOut' = paidOut /\ paidIn' = paidIn /\ completed' = completed
  BY DEF DoDebit, Doing
<1>2. w \in Payments
  BY <1>1, NextStep, Kinds
<1>3. w.a \in Nat
  BY <1>2, Now DEF Payments
<1>4. b \in Int /\ wallet \in Wallet /\ Solvent(wallet) /\ moved - w.a \in Int
  BY <1>3, Now
<1>5. CASE wallet.avail >= w.a
  <2>1. /\ wallet' = [wallet EXCEPT !.avail = b] /\ moved' = moved - w.a
        /\ disturbed' = disturbed /\ Then(h, << >>)
    BY <1>5 DEF DoDebit, Advance
  <2>2. b >= 0
    BY <1>3, <1>5, Now
  <2> HIDE DEF b
  <2>3. wallet' \in Wallet /\ Solvent(wallet')
    BY <1>4, <2>1, <2>2, Changed
  <2>4. disturbed' \in BOOLEAN
    BY <2>1, Now
  <2>5. moved' \in Int /\ paidOut' \in Nat /\ paidIn' \in Int /\ completed' \in Nat
    BY <1>1, <1>4, <2>1, Now
  <2> QED
    BY <1>1, <2>1, <2>3, <2>4, <2>5, ThenKeeps, EmptySeq
<1>6. CASE ~(wallet.avail >= w.a)
  <2>1. wallet' = wallet /\ moved' = moved /\ Drop(h)
    BY <1>6 DEF DoDebit
  <2>2. disturbed' \in BOOLEAN
    BY <1>6, Now DEF DoDebit, Disturb
  <2>3. /\ wallet' \in Wallet /\ Solvent(wallet')
        /\ moved' \in Int /\ paidOut' \in Nat /\ paidIn' \in Int /\ completed' \in Nat
    BY <1>1, <2>1, Now
  <2> QED
    BY <1>1, <2>1, <2>2, <2>3, ThenKeeps, EmptySeq
<1> QED
  BY <1>5, <1>6

LEMMA CreditKeeps ==
  ASSUME Inductive, NEW h \in Handlers, DoCredit(h)
  PROVE  Inductive'
<1> DEFINE w == Head(job[h])
           b == wallet.avail + w.a
<1>1. /\ job[h] # << >> /\ w.do = "credit" /\ request' = request /\ today' = today
      /\ wallet' = [wallet EXCEPT !.avail = b] /\ moved' = moved + w.a
      /\ paidOut' = paidOut /\ paidIn' = paidIn - w.a /\ completed' = completed
      /\ disturbed' = disturbed /\ Then(h, << >>)
  BY DEF DoCredit, Doing, Advance
<1>2. w \in Deposits
  BY <1>1, NextStep, Kinds
<1>3. w.a \in Nat
  BY <1>2, Now DEF Deposits
<1>4. b \in Int /\ b >= 0 /\ wallet \in Wallet /\ Solvent(wallet)
  BY <1>3, Now
<1>5. moved' \in Int /\ paidOut' \in Nat /\ paidIn' \in Int /\ completed' \in Nat
  BY SMTT(30), <1>1, <1>3, Now
<1> HIDE DEF b
<1>6. wallet' \in Wallet /\ Solvent(wallet')
  BY <1>1, <1>4, Changed
<1>7. disturbed' \in BOOLEAN
  BY <1>1, Now
<1> QED
  BY <1>1, <1>5, <1>6, <1>7, ThenKeeps, EmptySeq

LEMMA BreakKeeps ==
  ASSUME Inductive, NEW h \in Handlers, Break(h)
  PROVE  Inductive'
<1>1. /\ job[h] # << >> /\ Drop(h) /\ wallet' = wallet /\ request' = request /\ today' = today
      /\ moved' = moved /\ paidOut' = paidOut /\ paidIn' = paidIn /\ completed' = completed
  BY DEF Break, books
<1>2. disturbed' \in BOOLEAN
  BY Now DEF Break, Disturb
<1>3. /\ wallet' \in Wallet /\ Solvent(wallet')
      /\ moved' \in Int /\ paidOut' \in Nat /\ paidIn' \in Int /\ completed' \in Nat
  BY <1>1, Now
<1> QED
  BY <1>1, <1>2, <1>3, ThenKeeps, EmptySeq

(* WalletService moves money, days pass, nothing happens. *)
LEMMA OutsideKeeps ==
  ASSUME Inductive, WalletMoves \/ NewDay \/ UNCHANGED vars
  PROVE  Inductive'
<1>1. /\ job' = job /\ request' = request
      /\ paidOut' = paidOut /\ paidIn' = paidIn /\ completed' = completed
      /\ disturbed' = disturbed
  BY DEF WalletMoves, NewDay, vars, books
<1>2. JobsRight'
  <2>1. Existing' = Existing
    BY <1>1 DEF Existing, Exists
  <2> QED
    BY <1>1, <2>1 DEF Inductive, JobsRight
<1>3. ops' \in 0 .. MaxOps
  <2>1. ops \in 0 .. MaxOps /\ MaxOps \in Nat
    BY WithdrawalAssumption DEF Inductive, Typed
  <2>2. ops' = ops \/ (ops < MaxOps /\ ops' = ops + 1)
    BY DEF WalletMoves, NewDay, vars
  <2> QED
    BY <2>1, <2>2
<1>4. today' \in 1 .. MaxDay
  <2>1. today \in 1 .. MaxDay /\ MaxDay \in Nat
    BY WithdrawalAssumption DEF Inductive, Typed
  <2>2. today' = today \/ (today < MaxDay /\ today' = today + 1)
    BY DEF WalletMoves, NewDay, vars
  <2> QED
    BY <2>1, <2>2
<1>5. wallet' \in Wallet /\ Solvent(wallet') /\ moved' \in Int
  <2>1. CASE NewDay \/ UNCHANGED vars
    <3>1. wallet' = wallet /\ moved' = moved
      BY <2>1 DEF NewDay, vars, books
    <3> QED
      BY <3>1, Now
  <2>2. CASE WalletMoves
    <3>1. PICK a \in Amounts, sign \in {1, -1} :
            /\ wallet.avail + sign * a >= 0
            /\ wallet' = [wallet EXCEPT !.avail = @ + sign * a]
            /\ moved' = moved + sign * a
      BY <2>2 DEF WalletMoves
    <3> DEFINE m == sign * a
               b == wallet.avail + m
    <3>2. m \in Int
      <4>1. a \in Int /\ (sign = 1 \/ sign = -1)
        BY Now
      <4>2. CASE sign = 1
        BY <4>1, <4>2
      <4>3. CASE sign = -1
        BY <4>1, <4>3
      <4> QED
        BY <4>1, <4>2, <4>3
    <3>3. b >= 0 /\ wallet' = [wallet EXCEPT !.avail = b] /\ moved' = moved + m
      BY <3>1
    <3> HIDE DEF m
    <3>4. b \in Int /\ moved' \in Int /\ wallet \in Wallet /\ Solvent(wallet)
      BY <3>2, <3>3, Now
    <3> HIDE DEF b
    <3> QED
      BY <3>3, <3>4, Changed
  <2> QED
    BY <2>1, <2>2
<1>6. disturbed' \in BOOLEAN
  BY <1>1, Now
<1>7. Typed'
  BY <1>1, <1>3, <1>4, <1>5, <1>6 DEF Inductive, Typed
<1>8. AvailableNeverNegative'
  BY <1>5 DEF AvailableNeverNegative, Solvent
<1> QED
  BY <1>2, <1>7, <1>8 DEF Inductive

LEMMA InitInductive == Init => Inductive
<1> SUFFICES ASSUME Init PROVE Inductive
  OBVIOUS
<1>1. disturbed \in BOOLEAN
  BY DEF Init
<1>2. wallet \in Wallet
  BY WithdrawalAssumption DEF Init, Wallet
<1>3. Typed
  BY <1>1, <1>2, WithdrawalAssumption DEF Init, Typed
<1>4. JobsRight
  BY EmptySeq DEF Init, JobsRight
<1>5. AvailableNeverNegative
  BY WithdrawalAssumption DEF Init, AvailableNeverNegative
<1> QED
  BY <1>3, <1>4, <1>5 DEF Inductive

LEMMA NextInductive == Inductive /\ [Next]_vars => Inductive'
<1> SUFFICES ASSUME Inductive, [Next]_vars PROVE Inductive'
  OBVIOUS
<1>1. ASSUME NEW h \in Handlers, Call(h) PROVE Inductive'
  BY <1>1, CallKeeps
<1>2. ASSUME NEW h \in Handlers, Step(h) PROVE Inductive'
  BY <1>2, CheckKeeps, InsertKeeps, DecideKeeps, CompleteKeeps, SaveWalletKeeps, SaveRequestKeeps,
     ProviderKeeps, DebitKeeps, CreditKeeps DEF Step
<1>3. ASSUME NEW h \in Handlers, Break(h) PROVE Inductive'
  BY <1>3, BreakKeeps
<1> QED
  BY <1>1, <1>2, <1>3, OutsideKeeps DEF Next

-----------------------------------------------------------------------------
(* Sums over handlers and over requests: the number of units that f        *)
(* assigns to the elements of S.                                           *)

Units(f, S) == UNION {{x} \X (1 .. f[x]) : x \in S}
Total(f, S) == Cardinality(Units(f, S))

(* One element has as many units as f gives it. *)
LEMMA UnitsOfOne ==
  ASSUME NEW x, NEW n \in Nat
  PROVE  IsFiniteSet({x} \X (1 .. n)) /\ Cardinality({x} \X (1 .. n)) = n
<1>1. IsFiniteSet({x}) /\ Cardinality({x}) = 1
  BY FS_Singleton
<1>2. IsFiniteSet(1 .. n) /\ Cardinality(1 .. n) = n
  BY FS_Interval
<1>3. \A A, B : IsFiniteSet(A) /\ IsFiniteSet(B) =>
        IsFiniteSet(A \X B) /\ Cardinality(A \X B) = Cardinality(A) * Cardinality(B)
  BY FS_Product
<1>4. /\ IsFiniteSet({x} \X (1 .. n))
      /\ Cardinality({x} \X (1 .. n)) = Cardinality({x}) * Cardinality(1 .. n)
  BY <1>1, <1>2, <1>3, Zenon
<1> QED
  BY <1>1, <1>2, <1>4

(* The sum without x, and x. *)
LEMMA TotalOfRest ==
  ASSUME NEW S, NEW f, NEW x \in S, f[x] \in Nat, IsFiniteSet(Units(f, S \ {x}))
  PROVE  IsFiniteSet(Units(f, S)) /\ Total(f, S) = Total(f, S \ {x}) + f[x]
<1> DEFINE here == {x} \X (1 .. f[x])
           rest == Units(f, S \ {x})
<1>1. Units(f, S) = rest \cup here
  BY DEF Units
<1>2. rest \cap here = {}
  BY DEF Units
<1>3. IsFiniteSet(here) /\ Cardinality(here) = f[x]
  BY UnitsOfOne
<1>4. Cardinality(rest \cap here) = 0
  BY <1>2, FS_EmptySet
<1>5. Cardinality(rest) \in Nat
  BY FS_CardinalityType
<1> HIDE DEF here, rest
<1>6. /\ IsFiniteSet(rest \cup here)
      /\ Cardinality(rest \cup here) = Cardinality(rest) + Cardinality(here) - Cardinality(rest \cap here)
  BY <1>3, FS_Union DEF rest
<1> QED
  BY <1>1, <1>3, <1>4, <1>5, <1>6 DEF Total, rest

(* One element changes. *)
LEMMA TotalChanges ==
  ASSUME NEW S, NEW f, NEW g, NEW x \in S, f[x] \in Nat, g[x] \in Nat,
         IsFiniteSet(Units(f, S)), \A y \in S \ {x} : g[y] = f[y]
  PROVE  IsFiniteSet(Units(g, S)) /\ Total(g, S) = Total(f, S) - f[x] + g[x]
<1>1. Units(f, S \ {x}) \subseteq Units(f, S)
  BY DEF Units
<1>2. Units(g, S \ {x}) = Units(f, S \ {x})
  BY DEF Units
<1>3. IsFiniteSet(Units(f, S \ {x}))
  BY <1>1, FS_Subset
<1>4. Total(f, S) = Total(f, S \ {x}) + f[x]
  BY <1>3, TotalOfRest
<1>5. IsFiniteSet(Units(g, S)) /\ Total(g, S) = Total(g, S \ {x}) + g[x]
  BY <1>2, <1>3, TotalOfRest
<1>6. Total(f, S \ {x}) \in Nat
  BY <1>3, FS_CardinalityType DEF Total
<1>7. Total(g, S \ {x}) = Total(f, S \ {x})
  BY <1>2 DEF Total
<1> QED
  BY <1>4, <1>5, <1>6, <1>7

(* Nothing adds up to nothing. *)
LEMMA TotalOfNothing ==
  ASSUME NEW S, NEW f, \A x \in S : f[x] = 0
  PROVE  IsFiniteSet(Units(f, S)) /\ Total(f, S) = 0
<1>1. Units(f, S) = {}
  BY DEF Units
<1> QED
  BY <1>1, FS_EmptySet DEF Total

-----------------------------------------------------------------------------
(* The books.  As long as no save fell on a changed row, no debit was      *)
(* overtaken and nothing broke, each list of steps tells what it will      *)
(* still do to the sums, and so what it has done to one side of them only. *)

Items(j) == {j[i] : i \in 1 .. Len(j)}

(* A request that was pending or approved came from a user. *)
Opened(was, status) == was.status = status /\ ~was.gateway

SameDay(v, w) == v.day = w.day /\ v.withdrawn = w.withdrawn
Earlier(v, w) == v.day < w.day \/ (v.day = w.day /\ v.withdrawn < w.withdrawn)

(* Save s of the wallet adds n to what it holds, and counts or does not.   *)
Adds(s, n) == s.row.avail + s.row.cashback = s.was.avail + s.was.cashback + n
CountsOn(s) == Adds(s, 0) /\ Earlier(s.was, s.row)

(* The steps that follow step s in a list. *)
Follows(s, rest) ==
  /\ s.do \in {"ask", "insert", "approve", "complete", "credit"} => rest = << >>
  /\ s.do = "checkMonth" => rest = <<Insert(s.q, s.a, FALSE)>>
  /\ s.do = "insert" => s.row.status = IF s.row.gateway THEN "COMPLETED" ELSE "PENDING"
  /\ s.do = "approve" => Opened(s.was, "PENDING")
  /\ s.do = "refund" => rest = <<SaveRequest(s.q, "REJECTED", s.was)>> /\ Opened(s.was, "APPROVED")
  /\ s.do = "complete" => Opened(s.was, "APPROVED")
  /\ s.do = "saveWallet" =>
       \/ rest = << >> /\ Adds(s, 0) /\ SameDay(s.was, s.row)
       \/ rest = << >> /\ CountsOn(s)
       \/ /\ Adds(s, 0) /\ SameDay(s.was, s.row)
          /\ \E q \in Requests, a \in Amounts : rest = <<Ask(q, a)>>
       \/ /\ SameDay(s.was, s.row)
          /\ \E q \in Requests, was \in Request :
               \/ /\ Opened(was, "PENDING") /\ Adds(s, 0 - was.amount)
                  /\ rest = <<SaveRequest(q, "APPROVED", was)>>
               \/ /\ Opened(was, "APPROVED") /\ Adds(s, was.amount)
                  /\ rest = <<SaveRequest(q, "REJECTED", was)>>
  /\ s.do = "saveRequest" =>
       \/ rest = << >> /\ Opened(s.was, "PENDING") /\ s.status \in {"APPROVED", "REJECTED"}
       \/ rest = << >> /\ Opened(s.was, "APPROVED") /\ s.status = "REJECTED"
       \/ /\ Opened(s.was, "APPROVED") /\ s.status = "COMPLETED"
          /\ \E row, was \in Wallet : rest = <<SaveWallet(row, was)>> /\ CountsOn(SaveWallet(row, was))
  /\ s.do = "payOut" =>
       /\ s.was.avail >= s.a
       /\ \E q \in Requests : rest = <<Debit(s.a, s.was), Insert(q, s.a, TRUE)>>
  /\ s.do = "debit" => s.was.avail >= s.a /\ \E q \in Requests : rest = <<Insert(q, s.a, TRUE)>>
  /\ s.do = "takeIn" => rest = <<Credit(s.a)>>

Planned(j) == j # << >> => Follows(Head(j), Tail(j))

(* The requests that a list is about to insert: each is in one list only,  *)
(* and in no row yet.                                                      *)
Claimed(j) == {s.q : s \in {s \in Items(j) : s.do \in {"ask", "checkMonth", "insert"}}}

ClaimsRight ==
  /\ \A h \in Handlers : \A q \in Claimed(job[h]) :
       ~Exists(q) /\ \A g \in Handlers \ {h} : q \notin Claimed(job[g])
  /\ \A q \in Existing : request[q].gateway => request[q].status = "COMPLETED"
  /\ IsFiniteSet(Existing)

(* What is taken from the wallet, or given back, before its request says   *)
(* so, what the provider has sent before it is booked, or has received.    *)
First(j, do) == j # << >> /\ Head(j).do = do

Taken(j) == IF First(j, "saveRequest") /\ Head(j).status = "APPROVED" THEN Head(j).was.amount ELSE 0

Given(j) ==
  IF First(j, "saveRequest") /\ Head(j).status = "REJECTED" /\ Head(j).was.status = "APPROVED"
  THEN Head(j).was.amount ELSE 0

Sent(j) == IF First(j, "debit") THEN Head(j).a
           ELSE IF First(j, "insert") /\ Head(j).row.gateway THEN Head(j).row.amount ELSE 0

Received(j) == IF First(j, "credit") THEN Head(j).a ELSE 0

TakenOf(jobs) == [h \in Handlers |-> Taken(jobs[h])]
GivenOf(jobs) == [h \in Handlers |-> Given(jobs[h])]
SentOf(jobs) == [h \in Handlers |-> Sent(jobs[h])]
ReceivedOf(jobs) == [h \in Handlers |-> Received(jobs[h])]

(* What a row counts as, for the user's requests and the provider's.       *)
Drawn(row) ==
  IF row # NoRequest /\ row.status \in {"APPROVED", "COMPLETED"} /\ ~row.gateway
  THEN row.amount ELSE 0
Sold(row) ==
  IF row # NoRequest /\ row.status = "COMPLETED" /\ row.gateway THEN row.amount ELSE 0

DrawnOf(rows) == [q \in Requests |-> Drawn(rows[q])]
SoldOf(rows) == [q \in Requests |-> Sold(rows[q])]

SumsFinite ==
  /\ IsFiniteSet(Units(TakenOf(job), Handlers)) /\ IsFiniteSet(Units(GivenOf(job), Handlers))
  /\ IsFiniteSet(Units(SentOf(job), Handlers)) /\ IsFiniteSet(Units(ReceivedOf(job), Handlers))
  /\ IsFiniteSet(Units(DrawnOf(request), Requests)) /\ IsFiniteSet(Units(SoldOf(request), Requests))

SumsRight ==
  /\ wallet.avail + wallet.cashback + Total(DrawnOf(request), Requests) + Total(TakenOf(job), Handlers)
       = moved + OpeningCash + Total(GivenOf(job), Handlers)
  /\ paidOut = Total(SoldOf(request), Requests) + Total(SentOf(job), Handlers)
  /\ paidIn = Total(ReceivedOf(job), Handlers)

(* The daily counter.  Of two saves that count, computed from one wallet,  *)
(* the second will fall on a row that has changed; where there is but one, *)
(* and it will not, it saves what was completed.                           *)
Counts(j) == {s \in Items(j) : s.do = "saveWallet" /\ Earlier(s.was, s.row)}

Lost(w, j) == \E s \in Counts(j) : Earlier(s.was, w)

DaysRight ==
  /\ wallet.day <= today
  /\ \A h \in Handlers : \A s \in Items(job[h]) : s.do = "saveWallet" => s.row.day <= today

CounterRight ==
  /\ \A h \in Handlers : \A s \in Counts(job[h]) : ~Earlier(wallet, s.was)
  /\ (\A h \in Handlers : ~Lost(wallet, job[h])) =>
       /\ (\A h \in Handlers : Counts(job[h]) = {}) => wallet.withdrawn = completed
       /\ \A h \in Handlers :
            (\A g \in Handlers \ {h} : Counts(job[g]) = {}) =>
              \A s \in Counts(job[h]) : s.row.withdrawn = completed

Orderly ==
  /\ \A h \in Handlers : Planned(job[h])
  /\ ClaimsRight
  /\ SumsFinite /\ SumsRight
  /\ DaysRight /\ CounterRight

OrderlyUntilDisturbed == ~disturbed => Orderly

-----------------------------------------------------------------------------
(* Short lists, and what is in them. *)

LEMMA OneItem ==
  ASSUME NEW a
  PROVE  /\ <<a>> # << >> /\ Head(<<a>>) = a /\ Tail(<<a>>) = << >>
         /\ Items(<<a>>) = {a} /\ Len(<<a>>) = 1 /\ <<a>> \o << >> = <<a>>
BY DEF Items

LEMMA TwoItems ==
  ASSUME NEW a, NEW b
  PROVE  /\ <<a, b>> # << >> /\ Head(<<a, b>>) = a /\ Tail(<<a, b>>) = <<b>>
         /\ Items(<<a, b>>) = {a, b} /\ Len(<<a, b>>) = 2
         /\ <<a, b>> \o << >> = <<a, b>> /\ <<a>> \o <<b>> = <<a, b>>
<1> DEFINE j == <<a, b>>
<1>1. Len(j) = 2 /\ j[1] = a /\ j[2] = b /\ j # << >> /\ Head(j) = a /\ Tail(j) = <<b>>
  OBVIOUS
<1>2. 1 .. 2 = {1, 2}
  OBVIOUS
<1> HIDE DEF j
<1>3. Items(j) = {a, b}
  BY <1>1, <1>2 DEF Items
<1> DEFINE l == <<a>> \o <<b>>
           S == {a, b}
<1>4. <<a>> \in Seq(S) /\ <<b>> \in Seq(S) /\ <<a, b>> \in Seq(S)
  OBVIOUS
<1>5. <<a, b>> \o << >> = <<a, b>>
  BY <1>4, ConcatEmptySeq
<1>6. l \in Seq(S) /\ Len(l) = 2 /\ l[1] = a /\ l[2] = b
  <2>1. Len(<<a>>) = 1 /\ Len(<<b>>) = 1 /\ <<a>>[1] = a /\ <<b>>[1] = b
    OBVIOUS
  <2> QED
    BY <1>4, <2>1, ConcatProperties
<1> HIDE DEF l
<1>7. l = j
  BY <1>1, <1>2, <1>4, <1>6, SeqEqual DEF j
<1> QED
  BY <1>1, <1>3, <1>5, <1>7 DEF j, l

LEMMA ThreeItems ==
  ASSUME NEW a, NEW b, NEW c
  PROVE  /\ <<a, b, c>> # << >> /\ Head(<<a, b, c>>) = a /\ Tail(<<a, b, c>>) = <<b, c>>
         /\ Items(<<a, b, c>>) = {a, b, c}
<1> DEFINE j == <<a, b, c>>
<1>1. /\ Len(j) = 3 /\ j[1] = a /\ j[2] = b /\ j[3] = c /\ j # << >>
      /\ Head(j) = a /\ Tail(j) = <<b, c>>
  OBVIOUS
<1>2. 1 .. 3 = {1, 2, 3}
  OBVIOUS
<1> HIDE DEF j
<1>3. Items(j) = {a, b, c}
  BY <1>1, <1>2 DEF Items
<1> QED
  BY <1>1, <1>3 DEF j

LEMMA NoItems == Items(<< >>) = {} /\ << >> \o << >> = << >>
BY DEF Items

(* The first item, and the others. *)
LEMMA ItemsOfRest ==
  ASSUME NEW S, NEW j \in Seq(S), j # << >>
  PROVE  /\ Items(j) = {Head(j)} \cup Items(Tail(j))
         /\ Tail(j) \in Seq(S) /\ << >> \o Tail(j) = Tail(j)
<1> DEFINE t == Tail(j)
<1>1. /\ Len(j) \in Nat /\ Len(j) >= 1 /\ Len(t) = Len(j) - 1 /\ Head(j) = j[1]
      /\ \A i \in 1 .. Len(t) : t[i] = j[i + 1]
      /\ t \in Seq(S) /\ << >> \o t = t
  OBVIOUS
<1> HIDE DEF t
<1>2. ASSUME NEW i \in 1 .. Len(j)
      PROVE  j[i] = Head(j) \/ j[i] \in Items(t)
  <2>1. CASE i = 1
    BY <1>1, <2>1
  <2>2. CASE i # 1
    <3>1. i - 1 \in 1 .. Len(t) /\ (i - 1) + 1 = i
      BY <1>1, <2>2
    <3>2. t[i - 1] = j[i]
      BY <1>1, <3>1
    <3> QED
      BY <3>1, <3>2 DEF Items
  <2> QED
    BY <2>1, <2>2
<1>3. ASSUME NEW i \in 1 .. Len(t)
      PROVE  t[i] \in Items(j)
  <2>1. i + 1 \in 1 .. Len(j) /\ t[i] = j[i + 1]
    BY <1>1
  <2> QED
    BY <2>1 DEF Items
<1>4. Head(j) \in Items(j)
  BY <1>1 DEF Items
<1>5. Items(j) = {Head(j)} \cup Items(t)
  BY <1>2, <1>3, <1>4 DEF Items
<1> QED
  BY <1>1, <1>5 DEF t

-----------------------------------------------------------------------------
(* What lists are worth. *)

LEMMA StepsCount ==
  ASSUME NEW Q, NEW w \in Todo(Q)
  PROVE  /\ w.do = "saveRequest" => w.q \in Q /\ w.was \in Request /\ w.was.amount \in Nat
                                   /\ w.status \in WithdrawalStatuses
         /\ w.do \in {"payOut", "debit", "takeIn", "credit"} => w.a \in Nat /\ w.a \in Amounts
         /\ w.do = "insert" => w.q \in Requests /\ w.row \in Request /\ w.row.amount \in Nat
         /\ w.do = "saveWallet" => w.row \in Wallet /\ w.was \in Wallet
         /\ w.do \in {"approve", "refund", "complete"} =>
              w.q \in Q /\ w.was \in Request /\ w.was.amount \in Nat /\ w.was.amount \in Amounts
         /\ w.do \in {"ask", "checkMonth"} => w.q \in Requests /\ w.a \in Amounts
         /\ w.do \in {"payOut", "debit"} => w.was \in Wallet
<1>1. Amounts \subseteq Nat
  BY WithdrawalAssumption
<1>2. w.do = "saveRequest" => w.q \in Q /\ w.was \in Request /\ w.was.amount \in Nat
                              /\ w.status \in WithdrawalStatuses
  BY <1>1, Kinds DEF SaveRequests, Request
<1>3. /\ w.do \in {"payOut", "debit", "takeIn", "credit"} => w.a \in Nat /\ w.a \in Amounts
      /\ w.do \in {"payOut", "debit"} => w.was \in Wallet
  BY <1>1, Kinds DEF Payments, Deposits
<1>4. w.do = "insert" => w.q \in Requests /\ w.row \in Request /\ w.row.amount \in Nat
  BY <1>1, Kinds DEF Inserts, Request
<1>5. w.do = "saveWallet" => w.row \in Wallet /\ w.was \in Wallet
  BY Kinds DEF SaveWallets
<1>6. w.do \in {"approve", "refund", "complete"} =>
        w.q \in Q /\ w.was \in Request /\ w.was.amount \in Nat /\ w.was.amount \in Amounts
  BY <1>1, Kinds DEF Reads, Request
<1>7. w.do \in {"ask", "checkMonth"} => w.q \in Requests /\ w.a \in Amounts
  BY Kinds DEF Asks
<1> QED
  BY <1>2, <1>3, <1>4, <1>5, <1>6, <1>7

LEMMA ListsCount ==
  ASSUME Inductive, NEW h \in Handlers
  PROVE  /\ Taken(job[h]) \in Nat /\ Given(job[h]) \in Nat
         /\ Sent(job[h]) \in Nat /\ Received(job[h]) \in Nat
<1> DEFINE j == job[h]
           s == Head(j)
<1>1. j # << >> => s \in Todo(Existing)
  BY NextStep
<1>2. ASSUME j # << >>
      PROVE  /\ s.do = "saveRequest" => s.was.amount \in Nat
             /\ s.do \in {"debit", "credit"} => s.a \in Nat
             /\ s.do = "insert" => s.row.amount \in Nat
  <2>1. PICK w \in Todo(Existing) : w = s
    BY <1>1, <1>2
  <2> HIDE DEF s
  <2> QED
    BY <2>1, StepsCount
<1> HIDE DEF j, s
<1>6. Taken(j) \in Nat /\ Given(j) \in Nat
  BY <1>2 DEF Taken, Given, First, s
<1>7. Sent(j) \in Nat /\ Received(j) \in Nat
  BY <1>2 DEF Sent, Received, First, s
<1> QED
  BY <1>6, <1>7 DEF j

(* A list that does nothing to the sums, and holds no save that counts.    *)
Neutral(j) ==
  /\ Taken(j) = 0 /\ Given(j) = 0 /\ Sent(j) = 0 /\ Received(j) = 0
  /\ Counts(j) = {}
  /\ \A s \in Items(j) : s.do = "saveWallet" => s.row.day <= today

LEMMA NothingLeft ==
  Neutral(<< >>) /\ Planned(<< >>) /\ Claimed(<< >>) = {} /\ Counts(<< >>) = {}
BY NoItems DEF Neutral, Taken, Given, Sent, Received, First, Counts, Planned, Claimed

(* What the first item tells. *)
LEMMA FirstTells ==
  ASSUME NEW j, j # << >>
  PROVE  /\ Head(j).do # "saveRequest" => Taken(j) = 0 /\ Given(j) = 0
         /\ Head(j).do \notin {"debit", "insert"} => Sent(j) = 0
         /\ Head(j).do # "credit" => Received(j) = 0
         /\ Head(j).do = "saveRequest" =>
              /\ Taken(j) = IF Head(j).status = "APPROVED" THEN Head(j).was.amount ELSE 0
              /\ Given(j) = IF Head(j).status = "REJECTED" /\ Head(j).was.status = "APPROVED"
                            THEN Head(j).was.amount ELSE 0
         /\ Head(j).do = "debit" => Sent(j) = Head(j).a
         /\ Head(j).do = "insert" =>
              Sent(j) = IF Head(j).row.gateway THEN Head(j).row.amount ELSE 0
         /\ Head(j).do = "credit" => Received(j) = Head(j).a
<1> DEFINE s == Head(j)
<1> HIDE DEF s
<1>1. /\ s.do # "saveRequest" => Taken(j) = 0 /\ Given(j) = 0
      /\ s.do = "saveRequest" =>
              /\ Taken(j) = IF s.status = "APPROVED" THEN s.was.amount ELSE 0
              /\ Given(j) = IF s.status = "REJECTED" /\ s.was.status = "APPROVED"
                            THEN s.was.amount ELSE 0
  BY DEF Taken, Given, First, s
<1>2. /\ s.do \notin {"debit", "insert"} => Sent(j) = 0
      /\ s.do = "debit" => Sent(j) = s.a
      /\ s.do = "insert" => Sent(j) = IF s.row.gateway THEN s.row.amount ELSE 0
  <2>1. CASE s.do = "insert"
    BY <2>1 DEF Sent, First, s
  <2>2. CASE s.do # "insert"
    BY <2>2 DEF Sent, First, s
  <2> QED
    BY <2>1, <2>2
<1>3. /\ s.do # "credit" => Received(j) = 0
      /\ s.do = "credit" => Received(j) = s.a
  BY DEF Received, First, s
<1> QED
  BY <1>1, <1>2, <1>3 DEF s

-----------------------------------------------------------------------------
(* One list changes: what becomes of each part of the invariant. *)

LEMMA OneList ==
  ASSUME Inductive, NEW h \in Handlers, NEW k, job' = [job EXCEPT ![h] = k]
  PROVE  job'[h] = k /\ \A g \in Handlers \ {h} : job'[g] = job[g]
<1>1. DOMAIN job = Handlers
  BY DEF Inductive, JobsRight
<1> QED
  BY <1>1

LEMMA PlansKept ==
  ASSUME Inductive, NEW h \in Handlers, NEW k, job' = [job EXCEPT ![h] = k],
         \A g \in Handlers : Planned(job[g]), Planned(k)
  PROVE  \A g \in Handlers : Planned(job'[g])
BY OneList, Zenon

(* Nothing is claimed that was not claimed before, or that was free. *)
LEMMA ClaimsKept ==
  ASSUME Inductive, ClaimsRight, NEW h \in Handlers, NEW k, job' = [job EXCEPT ![h] = k],
         request' = request,
         \A q \in Claimed(k) : q \in Claimed(job[h])
                                 \/ (~Exists(q) /\ \A g \in Handlers : q \notin Claimed(job[g]))
  PROVE  ClaimsRight'
<1>1. job'[h] = k /\ \A g \in Handlers \ {h} : job'[g] = job[g]
  BY OneList
<1>2. ASSUME NEW g \in Handlers, NEW q \in Claimed(job'[g])
      PROVE  ~Exists(q) /\ \A f \in Handlers \ {g} : q \notin Claimed(job'[f])
  <2>1. CASE g = h
    BY <1>1, <1>2, <2>1 DEF ClaimsRight
  <2>2. CASE g # h
    <3>1. q \in Claimed(job[g])
      BY <1>1, <1>2, <2>2
    <3>2. ~Exists(q) /\ \A f \in Handlers \ {g} : q \notin Claimed(job[f])
      BY <3>1 DEF ClaimsRight
    <3>3. q \notin Claimed(k)
      BY <2>2, <3>1, <3>2
    <3> QED
      BY <1>1, <3>2, <3>3
  <2> QED
    BY <2>1, <2>2
<1>3. Existing' = Existing /\ \A q : Exists(q)' = Exists(q)
  BY DEF Existing, Exists
<1>4. \A q \in Existing' : request'[q].gateway => request'[q].status = "COMPLETED"
  BY <1>3 DEF ClaimsRight
<1>5. IsFiniteSet(Existing')
  BY <1>3 DEF ClaimsRight
<1> QED
  BY <1>2, <1>3, <1>4, <1>5 DEF ClaimsRight

(* The sums over handlers, after one list has changed. *)
LEMMA ListTotals ==
  ASSUME Inductive, Inductive', SumsFinite,
         NEW h \in Handlers, NEW k, job' = [job EXCEPT ![h] = k]
  PROVE  /\ IsFiniteSet(Units(TakenOf(job'), Handlers)) /\ IsFiniteSet(Units(GivenOf(job'), Handlers))
         /\ IsFiniteSet(Units(SentOf(job'), Handlers)) /\ IsFiniteSet(Units(ReceivedOf(job'), Handlers))
         /\ Total(TakenOf(job'), Handlers) = Total(TakenOf(job), Handlers) - Taken(job[h]) + Taken(k)
         /\ Total(GivenOf(job'), Handlers) = Total(GivenOf(job), Handlers) - Given(job[h]) + Given(k)
         /\ Total(SentOf(job'), Handlers) = Total(SentOf(job), Handlers) - Sent(job[h]) + Sent(k)
         /\ Total(ReceivedOf(job'), Handlers)
              = Total(ReceivedOf(job), Handlers) - Received(job[h]) + Received(k)
<1>1. job'[h] = k /\ \A g \in Handlers \ {h} : job'[g] = job[g]
  BY OneList
<1>2. /\ Taken(job[h]) \in Nat /\ Given(job[h]) \in Nat
      /\ Sent(job[h]) \in Nat /\ Received(job[h]) \in Nat
  BY ListsCount
<1>3. /\ Taken(job'[h]) \in Nat /\ Given(job'[h]) \in Nat
      /\ Sent(job'[h]) \in Nat /\ Received(job'[h]) \in Nat
  <2>1. (/\ Taken(job[h]) \in Nat /\ Given(job[h]) \in Nat
         /\ Sent(job[h]) \in Nat /\ Received(job[h]) \in Nat)'
    BY ListsCount, PTL
  <2> QED
    BY <2>1
<1>4. PICK jobs : jobs = job'
  OBVIOUS
<1>5. /\ IsFiniteSet(Units(TakenOf(jobs), Handlers))
      /\ Total(TakenOf(jobs), Handlers) = Total(TakenOf(job), Handlers) - Taken(job[h]) + Taken(k)
  <2>1. /\ TakenOf(job)[h] = Taken(job[h]) /\ TakenOf(jobs)[h] = Taken(k)
        /\ \A g \in Handlers \ {h} : TakenOf(jobs)[g] = TakenOf(job)[g]
    BY <1>1, <1>4 DEF TakenOf
  <2>2. TakenOf(job)[h] \in Nat /\ TakenOf(jobs)[h] \in Nat /\ IsFiniteSet(Units(TakenOf(job), Handlers))
    BY <1>1, <1>2, <1>3, <2>1 DEF SumsFinite
  <2>3. /\ IsFiniteSet(Units(TakenOf(jobs), Handlers))
        /\ Total(TakenOf(jobs), Handlers)
             = Total(TakenOf(job), Handlers) - TakenOf(job)[h] + TakenOf(jobs)[h]
    BY <2>1, <2>2, TotalChanges
  <2> QED
    BY <2>1, <2>3
<1>6. /\ IsFiniteSet(Units(GivenOf(jobs), Handlers))
      /\ Total(GivenOf(jobs), Handlers) = Total(GivenOf(job), Handlers) - Given(job[h]) + Given(k)
  <2>1. /\ GivenOf(job)[h] = Given(job[h]) /\ GivenOf(jobs)[h] = Given(k)
        /\ \A g \in Handlers \ {h} : GivenOf(jobs)[g] = GivenOf(job)[g]
    BY <1>1, <1>4 DEF GivenOf
  <2>2. GivenOf(job)[h] \in Nat /\ GivenOf(jobs)[h] \in Nat /\ IsFiniteSet(Units(GivenOf(job), Handlers))
    BY <1>1, <1>2, <1>3, <2>1 DEF SumsFinite
  <2>3. /\ IsFiniteSet(Units(GivenOf(jobs), Handlers))
        /\ Total(GivenOf(jobs), Handlers)
             = Total(GivenOf(job), Handlers) - GivenOf(job)[h] + GivenOf(jobs)[h]
    BY <2>1, <2>2, TotalChanges
  <2> QED
    BY <2>1, <2>3
<1>7. /\ IsFiniteSet(Units(SentOf(jobs), Handlers))
      /\ Total(SentOf(jobs), Handlers) = Total(SentOf(job), Handlers) - Sent(job[h]) + Sent(k)
  <2>1. /\ SentOf(job)[h] = Sent(job[h]) /\ SentOf(jobs)[h] = Sent(k)
        /\ \A g \in Handlers \ {h} : SentOf(jobs)[g] = SentOf(job)[g]
    BY <1>1, <1>4 DEF SentOf
  <2>2. SentOf(job)[h] \in Nat /\ SentOf(jobs)[h] \in Nat /\ IsFiniteSet(Units(SentOf(job), Handlers))
    BY <1>1, <1>2, <1>3, <2>1 DEF SumsFinite
  <2>3. /\ IsFiniteSet(Units(SentOf(jobs), Handlers))
        /\ Total(SentOf(jobs), Handlers)
             = Total(SentOf(job), Handlers) - SentOf(job)[h] + SentOf(jobs)[h]
    BY <2>1, <2>2, TotalChanges
  <2> QED
    BY <2>1, <2>3
<1>8. /\ IsFiniteSet(Units(ReceivedOf(jobs), Handlers))
      /\ Total(ReceivedOf(jobs), Handlers)
           = Total(ReceivedOf(job), Handlers) - Received(job[h]) + Received(k)
  <2>1. /\ ReceivedOf(job)[h] = Received(job[h]) /\ ReceivedOf(jobs)[h] = Received(k)
        /\ \A g \in Handlers \ {h} : ReceivedOf(jobs)[g] = ReceivedOf(job)[g]
    BY <1>1, <1>4 DEF ReceivedOf
  <2>2. ReceivedOf(job)[h] \in Nat /\ ReceivedOf(jobs)[h] \in Nat /\ IsFiniteSet(Units(ReceivedOf(job), Handlers))
    BY <1>1, <1>2, <1>3, <2>1 DEF SumsFinite
  <2>3. /\ IsFiniteSet(Units(ReceivedOf(jobs), Handlers))
        /\ Total(ReceivedOf(jobs), Handlers)
             = Total(ReceivedOf(job), Handlers) - ReceivedOf(job)[h] + ReceivedOf(jobs)[h]
    BY <2>1, <2>2, TotalChanges
  <2> QED
    BY <2>1, <2>3
<1> QED
  BY <1>4, <1>5, <1>6, <1>7, <1>8

(* The sums over requests, after one row has changed. *)
LEMMA RowTotals ==
  ASSUME Inductive, SumsFinite, NEW q \in Requests, NEW row \in Request,
         request' = [request EXCEPT ![q] = row]
  PROVE  /\ IsFiniteSet(Units(DrawnOf(request'), Requests))
         /\ IsFiniteSet(Units(SoldOf(request'), Requests))
         /\ Total(DrawnOf(request'), Requests)
              = Total(DrawnOf(request), Requests) - Drawn(request[q]) + Drawn(row)
         /\ Total(SoldOf(request'), Requests)
              = Total(SoldOf(request), Requests) - Sold(request[q]) + Sold(row)
         /\ Drawn(request[q]) \in Nat /\ Drawn(row) \in Nat
         /\ Sold(request[q]) \in Nat /\ Sold(row) \in Nat
<1>1. request \in [Requests -> Request \cup {NoRequest}] /\ Amounts \subseteq Nat
  BY Now DEF Inductive, Typed
<1>2. request'[q] = row /\ \A p \in Requests \ {q} : request'[p] = request[p]
  BY <1>1
<1>3. ASSUME NEW x \in Request \cup {NoRequest}
      PROVE  Drawn(x) \in Nat /\ Sold(x) \in Nat
  <2>1. x # NoRequest => x.amount \in Nat
    BY <1>1 DEF Request
  <2> QED
    BY <2>1 DEF Drawn, Sold
<1>4. Drawn(request[q]) \in Nat /\ Drawn(row) \in Nat /\ Sold(request[q]) \in Nat /\ Sold(row) \in Nat
  BY <1>1, <1>3
<1>5. PICK rows : rows = request'
  OBVIOUS
<1>6. /\ IsFiniteSet(Units(DrawnOf(rows), Requests))
      /\ Total(DrawnOf(rows), Requests)
           = Total(DrawnOf(request), Requests) - Drawn(request[q]) + Drawn(row)
  <2>1. /\ DrawnOf(request)[q] = Drawn(request[q]) /\ DrawnOf(rows)[q] = Drawn(row)
        /\ \A p \in Requests \ {q} : DrawnOf(rows)[p] = DrawnOf(request)[p]
    BY <1>2, <1>5 DEF DrawnOf
  <2>2. IsFiniteSet(Units(DrawnOf(request), Requests))
    BY DEF SumsFinite
  <2>3. DrawnOf(request)[q] \in Nat /\ DrawnOf(rows)[q] \in Nat
    BY <1>4, <2>1
  <2>4. /\ IsFiniteSet(Units(DrawnOf(rows), Requests))
        /\ Total(DrawnOf(rows), Requests)
             = Total(DrawnOf(request), Requests) - DrawnOf(request)[q] + DrawnOf(rows)[q]
    BY <2>1, <2>2, <2>3, TotalChanges
  <2> QED
    BY <2>1, <2>4
<1>7. /\ IsFiniteSet(Units(SoldOf(rows), Requests))
      /\ Total(SoldOf(rows), Requests)
           = Total(SoldOf(request), Requests) - Sold(request[q]) + Sold(row)
  <2>1. /\ SoldOf(request)[q] = Sold(request[q]) /\ SoldOf(rows)[q] = Sold(row)
        /\ \A p \in Requests \ {q} : SoldOf(rows)[p] = SoldOf(request)[p]
    BY <1>2, <1>5 DEF SoldOf
  <2>2. IsFiniteSet(Units(SoldOf(request), Requests))
    BY DEF SumsFinite
  <2>3. SoldOf(request)[q] \in Nat /\ SoldOf(rows)[q] \in Nat
    BY <1>4, <2>1
  <2>4. /\ IsFiniteSet(Units(SoldOf(rows), Requests))
        /\ Total(SoldOf(rows), Requests)
             = Total(SoldOf(request), Requests) - SoldOf(request)[q] + SoldOf(rows)[q]
    BY <2>1, <2>2, <2>3, TotalChanges
  <2> QED
    BY <2>1, <2>4
<1> QED
  BY <1>4, <1>5, <1>6, <1>7

(* The counter, when neither it nor the saves that count have changed. *)
LEMMA CounterKept ==
  ASSUME Inductive, DaysRight, CounterRight,
         NEW h \in Handlers, NEW k, job' = [job EXCEPT ![h] = k],
         SameDay(wallet', wallet), completed' = completed, today' = today,
         Counts(k) = Counts(job[h]),
         \A s \in Items(k) : s.do = "saveWallet" => s.row.day <= today
  PROVE  DaysRight' /\ CounterRight'
<1>1. job'[h] = k /\ \A g \in Handlers \ {h} : job'[g] = job[g]
  BY OneList
<1>2. \A g \in Handlers : Counts(job'[g]) = Counts(job[g])
  BY <1>1
<1>3. wallet'.day = wallet.day /\ wallet'.withdrawn = wallet.withdrawn
  BY DEF SameDay
<1>4. \A v : /\ Earlier(wallet', v) <=> Earlier(wallet, v)
             /\ Earlier(v, wallet') <=> Earlier(v, wallet)
  BY <1>3 DEF Earlier
<1>5. \A g \in Handlers : Lost(wallet', job'[g]) <=> Lost(wallet, job[g])
  BY <1>2, <1>4 DEF Lost
<1>6. \A g \in Handlers : \A s \in Items(job'[g]) : s.do = "saveWallet" => s.row.day <= today
  BY <1>1 DEF DaysRight
<1>7. DaysRight'
  BY <1>3, <1>6 DEF DaysRight
<1>8. CounterRight'
  <2>1. \A g \in Handlers : \A s \in Counts(job'[g]) : ~Earlier(wallet', s.was)
    BY <1>2, <1>4 DEF CounterRight
  <2>2. ASSUME \A g \in Handlers : ~Lost(wallet', job'[g])
        PROVE  /\ (\A g \in Handlers : Counts(job'[g]) = {}) => wallet'.withdrawn = completed'
               /\ \A f \in Handlers :
                    (\A g \in Handlers \ {f} : Counts(job'[g]) = {}) =>
                      \A s \in Counts(job'[f]) : s.row.withdrawn = completed'
    <3>1. \A g \in Handlers : ~Lost(wallet, job[g])
      BY <1>5, <2>2
    <3> QED
      BY <1>2, <1>3, <3>1 DEF CounterRight
  <2> QED
    BY <2>1, <2>2 DEF CounterRight
<1> QED
  BY <1>7, <1>8

(* A step that reads, or plans, and leaves the books alone. *)
LEMMA NeutralKeeps ==
  ASSUME Inductive, Inductive', Orderly,
         NEW h \in Handlers, NEW k, job' = [job EXCEPT ![h] = k],
         wallet' = wallet, request' = request, today' = today,
         moved' = moved, paidOut' = paidOut, paidIn' = paidIn, completed' = completed,
         Neutral(job[h]), Neutral(k), Planned(k),
         \A q \in Claimed(k) : q \in Claimed(job[h])
                                 \/ (~Exists(q) /\ \A g \in Handlers : q \notin Claimed(job[g]))
  PROVE  Orderly'
<1>1. \A g \in Handlers : Planned(job'[g])
  BY PlansKept DEF Orderly
<1>2. ClaimsRight'
  BY ClaimsKept DEF Orderly
<1>3. DaysRight' /\ CounterRight'
  <2>1. SameDay(wallet', wallet)
    BY DEF SameDay
  <2>2. Counts(k) = Counts(job[h]) /\ \A s \in Items(k) : s.do = "saveWallet" => s.row.day <= today
    BY DEF Neutral
  <2> QED
    BY <2>1, <2>2, CounterKept DEF Orderly
<1>4. /\ IsFiniteSet(Units(TakenOf(job'), Handlers)) /\ IsFiniteSet(Units(GivenOf(job'), Handlers))
      /\ IsFiniteSet(Units(SentOf(job'), Handlers)) /\ IsFiniteSet(Units(ReceivedOf(job'), Handlers))
      /\ Total(TakenOf(job'), Handlers) = Total(TakenOf(job), Handlers) - Taken(job[h]) + Taken(k)
      /\ Total(GivenOf(job'), Handlers) = Total(GivenOf(job), Handlers) - Given(job[h]) + Given(k)
      /\ Total(SentOf(job'), Handlers) = Total(SentOf(job), Handlers) - Sent(job[h]) + Sent(k)
      /\ Total(ReceivedOf(job'), Handlers)
           = Total(ReceivedOf(job), Handlers) - Received(job[h]) + Received(k)
  BY ListTotals DEF Orderly
<1>5. /\ Taken(job[h]) = 0 /\ Given(job[h]) = 0 /\ Sent(job[h]) = 0 /\ Received(job[h]) = 0
      /\ Taken(k) = 0 /\ Given(k) = 0 /\ Sent(k) = 0 /\ Received(k) = 0
  BY DEF Neutral
<1>6. SumsFinite /\ SumsRight
  BY DEF Orderly
<1>7. SumsFinite'
  BY <1>4, <1>6 DEF SumsFinite
<1>8. SumsRight'
  <2>1. /\ Total(TakenOf(job), Handlers) \in Nat /\ Total(GivenOf(job), Handlers) \in Nat
        /\ Total(SentOf(job), Handlers) \in Nat /\ Total(ReceivedOf(job), Handlers) \in Nat
    BY <1>6, FS_CardinalityType DEF SumsFinite, Total
  <2>2. /\ Total(TakenOf(job'), Handlers) = Total(TakenOf(job), Handlers)
        /\ Total(GivenOf(job'), Handlers) = Total(GivenOf(job), Handlers)
        /\ Total(SentOf(job'), Handlers) = Total(SentOf(job), Handlers)
        /\ Total(ReceivedOf(job'), Handlers) = Total(ReceivedOf(job), Handlers)
    BY <1>4, <1>5, <2>1
  <2> QED
    BY <1>6, <2>2 DEF SumsRight
<1> QED
  BY <1>1, <1>2, <1>3, <1>7, <1>8 DEF Orderly

-----------------------------------------------------------------------------
(* Operations that begin. *)

(* What a list begins with decides whether it is neutral. *)
LEMMA NeutralLists ==
  ASSUME NEW j, j # << >>,
         \/ Head(j).do \in {"ask", "checkMonth", "approve", "refund", "complete", "payOut", "takeIn"}
         \/ Head(j).do = "insert" /\ ~Head(j).row.gateway
         \/ Head(j).do = "saveWallet"
         \/ Head(j).do = "saveRequest" /\ Head(j).status = "REJECTED" /\ Head(j).was.status = "PENDING",
         \A s \in Items(j) : s.do = "saveWallet" => ~Earlier(s.was, s.row) /\ s.row.day <= today
  PROVE  Neutral(j)
<1>1. Taken(j) = 0 /\ Given(j) = 0 /\ Sent(j) = 0 /\ Received(j) = 0
  BY FirstTells
<1>2. Counts(j) = {} /\ \A s \in Items(j) : s.do = "saveWallet" => s.row.day <= today
  BY DEF Counts
<1> QED
  BY <1>1, <1>2 DEF Neutral

(* An operation that begins, begins with a neutral list of steps. *)
LEMMA BeginsOrderly ==
  ASSUME Inductive, Inductive', Orderly, NEW h \in Handlers, NEW k, Begin(h, k),
         Neutral(k), Planned(k),
         \A q \in Claimed(k) : ~Exists(q) /\ \A g \in Handlers : q \notin Claimed(job[g])
  PROVE  Orderly'
<1>1. /\ job[h] = << >> /\ job' = [job EXCEPT ![h] = k]
      /\ wallet' = wallet /\ request' = request /\ today' = today
      /\ moved' = moved /\ paidOut' = paidOut /\ paidIn' = paidIn /\ completed' = completed
  BY DEF Begin, books
<1>2. Neutral(job[h])
  BY <1>1, NothingLeft
<1> QED
  BY <1>1, <1>2, NeutralKeeps

(* Lists are short, so Unused looks at all of them. *)
LEMMA ShortRest ==
  ASSUME NEW s, s.do \in Steps, NEW rest, Follows(s, rest)
  PROVE  Len(rest) \in 0 .. 2
<1> SUFFICES rest = << >> \/ (\E a : rest = <<a>>) \/ \E a, b : rest = <<a, b>>
  <2>1. Len(<< >>) \in 0 .. 2
    OBVIOUS
  <2>2. ASSUME NEW a PROVE Len(<<a>>) \in 0 .. 2
    OBVIOUS
  <2>3. ASSUME NEW a, NEW b PROVE Len(<<a, b>>) \in 0 .. 2
    OBVIOUS
  <2> QED
    BY <2>1, <2>2, <2>3, Zenon
<1>1. CASE s.do \in {"ask", "insert", "approve", "complete", "credit"}
  BY <1>1 DEF Follows
<1>2. CASE s.do = "checkMonth"
  BY <1>2 DEF Follows
<1>3. CASE s.do = "refund"
  BY <1>3 DEF Follows
<1>4. CASE s.do = "saveWallet"
  BY <1>4 DEF Follows
<1>5. CASE s.do = "saveRequest"
  BY <1>5 DEF Follows
<1>6. CASE s.do = "payOut"
  BY <1>6 DEF Follows
<1>7. CASE s.do = "debit"
  BY <1>7 DEF Follows
<1>8. CASE s.do = "takeIn"
  BY <1>8 DEF Follows
<1> QED
  BY <1>1, <1>2, <1>3, <1>4, <1>5, <1>6, <1>7, <1>8 DEF Steps

LEMMA UnusedIsFree ==
  ASSUME Inductive, \A h \in Handlers : Planned(job[h]), NEW q, Unused(q)
  PROVE  ~Exists(q) /\ \A g \in Handlers : q \notin Claimed(job[g])
<1>1. ~Exists(q)
  BY DEF Unused
<1>2. ASSUME NEW g \in Handlers, q \in Claimed(job[g])
      PROVE  FALSE
  <2> DEFINE j == job[g]
  <2>1. j \in Seq(Todo(Existing))
    BY DEF Inductive, JobsRight
  <2>2. PICK i \in 1 .. Len(j) : j[i].do \in {"ask", "checkMonth", "insert"} /\ j[i].q = q
    BY <1>2 DEF Claimed, Items
  <2>3. j # << >> /\ Head(j) \in Todo(Existing) /\ Len(j) = 1 + Len(Tail(j)) /\ DOMAIN j = 1 .. Len(j)
    <3>1. Len(j) \in Nat /\ DOMAIN j = 1 .. Len(j)
      BY <2>1, LenProperties
    <3>2. j # << >>
      BY <2>2, <3>1
    <3>3. Len(Tail(j)) = Len(j) - 1
      BY <2>1, <3>2, HeadTailProperties
    <3>4. Head(j) \in Todo(Existing)
      BY <3>2, NextStep
    <3> QED
      BY <3>1, <3>2, <3>3, <3>4
  <2>4. Follows(Head(j), Tail(j))
    BY <2>3 DEF Planned
  <2>5. Head(j).do \in Steps
    BY <2>3, Kinds
  <2> HIDE DEF j
  <2>6. Len(Tail(j)) \in 0 .. 2
    BY <2>4, <2>5, ShortRest
  <2>7. i \in 1 .. 4 /\ i \in DOMAIN j
    BY <2>2, <2>3, <2>6
  <2> QED
    BY <2>2, <2>7 DEF Unused, j
<1> QED
  BY <1>1, <1>2

LEMMA CallOrderly ==
  ASSUME Inductive, Inductive', Orderly, NEW h \in Handlers, Call(h)
  PROVE  Orderly'
<1>1. ASSUME NEW q \in Requests, NEW a \in Amounts, RequestWithdrawal(h, q, a)
      PROVE  Orderly'
  <2> DEFINE k == <<Ask(q, a)>>
  <2>1. Begin(h, k) /\ ~Exists(q) /\ \A g \in Handlers : q \notin Claimed(job[g])
    BY <1>1, UnusedIsFree DEF RequestWithdrawal, Orderly
  <2>2. /\ k # << >> /\ Head(k) = Ask(q, a) /\ Tail(k) = << >> /\ Items(k) = {Ask(q, a)}
    BY OneItem
  <2>3. Ask(q, a).do = "ask" /\ Ask(q, a).q = q
    BY DEF Ask
  <2> HIDE DEF k
  <2>4. Neutral(k)
    BY <2>2, <2>3, NeutralLists
  <2>5. Planned(k)
    BY <2>2, <2>3 DEF Planned, Follows
  <2>6. Claimed(k) = {q}
    BY <2>2, <2>3 DEF Claimed
  <2> QED
    BY <2>1, <2>4, <2>5, <2>6, BeginsOrderly
<1>2. ASSUME NEW q \in Requests, NEW a \in Amounts, Cashback(h, q, a)
      PROVE  Orderly'
  <2> DEFINE row == [wallet EXCEPT !.avail = @ + a, !.cashback = @ - a]
             s == SaveWallet(row, wallet)
             k == <<s, Ask(q, a)>>
  <2>1. Begin(h, k) /\ ~Exists(q) /\ \A g \in Handlers : q \notin Claimed(job[g])
    BY <1>2, UnusedIsFree DEF Cashback, Orderly
  <2>2. /\ k # << >> /\ Head(k) = s /\ Tail(k) = <<Ask(q, a)>> /\ Items(k) = {s, Ask(q, a)}
    BY TwoItems
  <2>3. /\ row.avail = wallet.avail + a /\ row.cashback = wallet.cashback - a
        /\ row.withdrawn = wallet.withdrawn /\ row.day = wallet.day
        /\ a \in Int
    BY Now DEF Wallet
  <2> HIDE DEF row
  <2>4. s.do = "saveWallet" /\ s.row = row /\ s.was = wallet /\ Ask(q, a).do = "ask" /\ Ask(q, a).q = q
    BY DEF Ask, SaveWallet
  <2> HIDE DEF k, s
  <2>5. Adds(s, 0) /\ SameDay(s.was, s.row)
    BY <2>3, <2>4, Now DEF Adds, SameDay
  <2>6. ~Earlier(s.was, s.row) /\ s.row.day <= today
    BY <2>3, <2>4, Now DEF Earlier, Orderly, DaysRight
  <2>7. Neutral(k)
    BY <2>2, <2>4, <2>6, NeutralLists
  <2>8. Planned(k)
    BY <2>2, <2>4, <2>5 DEF Planned, Follows
  <2>9. Claimed(k) = {q}
    BY <2>2, <2>4 DEF Claimed
  <2> QED
    BY <2>1, <2>7, <2>8, <2>9, BeginsOrderly
<1>3. ASSUME NEW q \in Requests, NEW a \in Amounts, Withdraw(h, q, a)
      PROVE  Orderly'
  <2> DEFINE p == PayOut(a, wallet)
             d == Debit(a, wallet)
             i == Insert(q, a, TRUE)
             k == <<p, d, i>>
  <2>1. Begin(h, k) /\ wallet.avail >= a /\ ~Exists(q) /\ \A g \in Handlers : q \notin Claimed(job[g])
    BY <1>3, UnusedIsFree DEF Withdraw, Orderly
  <2>2. /\ k # << >> /\ Head(k) = p /\ Tail(k) = <<d, i>> /\ Items(k) = {p, d, i}
    BY ThreeItems
  <2>3. /\ p.do = "payOut" /\ p.a = a /\ p.was = wallet /\ d.do = "debit" /\ i.do = "insert" /\ i.q = q
        /\ d = Debit(p.a, p.was) /\ i = Insert(q, p.a, TRUE)
    BY DEF PayOut, Debit, Insert
  <2> HIDE DEF k, p, d, i
  <2>4. Neutral(k)
    BY <2>2, <2>3, NeutralLists
  <2>5. Planned(k)
    BY <2>1, <2>2, <2>3 DEF Planned, Follows
  <2>6. Claimed(k) = {q}
    BY <2>2, <2>3 DEF Claimed
  <2> QED
    BY <2>1, <2>4, <2>5, <2>6, BeginsOrderly
<1>4. ASSUME NEW q \in Requests, ApproveWithdrawal(h, q)
      PROVE  Orderly'
  <2> DEFINE s == Approve(q)
             k == <<s>>
  <2>1. Begin(h, k) /\ Exists(q) /\ request[q].status = "PENDING"
    BY <1>4 DEF ApproveWithdrawal
  <2>2. Opened(request[q], "PENDING")
    BY <2>1 DEF Opened, Orderly, ClaimsRight, Existing
  <2>3. /\ k # << >> /\ Head(k) = s /\ Tail(k) = << >> /\ Items(k) = {s}
    BY OneItem
  <2>4. s.do = "approve" /\ s.was = request[q]
    BY DEF Approve
  <2> HIDE DEF k, s
  <2>5. Neutral(k)
    BY <2>3, <2>4, NeutralLists
  <2>6. Planned(k)
    BY <2>2, <2>3, <2>4 DEF Planned, Follows
  <2>7. Claimed(k) = {}
    BY <2>3, <2>4 DEF Claimed
  <2> QED
    BY <2>1, <2>5, <2>6, <2>7, BeginsOrderly
<1>5. ASSUME NEW q \in Requests, RejectWithdrawal(h, q)
      PROVE  Orderly'
  <2> DEFINE r == Refund(q)
             s == SaveRequest(q, "REJECTED", request[q])
  <2>1. /\ r.do = "refund" /\ r.q = q /\ r.was = request[q]
        /\ s.do = "saveRequest" /\ s.status = "REJECTED" /\ s.was = request[q]
        /\ s = SaveRequest(r.q, "REJECTED", r.was)
    BY DEF Refund, SaveRequest
  <2>2. Exists(q)
    BY <1>5 DEF RejectWithdrawal
  <2>3. CASE request[q].status = "PENDING" /\ Begin(h, <<s>>)
    <3> DEFINE k == <<s>>
    <3>1. Opened(request[q], "PENDING")
      BY <2>2, <2>3 DEF Opened, Orderly, ClaimsRight, Existing
    <3>2. /\ k # << >> /\ Head(k) = s /\ Tail(k) = << >> /\ Items(k) = {s} /\ Begin(h, k)
      BY <2>3, OneItem
    <3> HIDE DEF k, s, r
    <3>3. Neutral(k)
      BY <2>1, <2>3, <3>2, NeutralLists
    <3>4. Planned(k)
      BY <2>1, <3>1, <3>2 DEF Planned, Follows
    <3>5. Claimed(k) = {}
      BY <2>1, <3>2 DEF Claimed
    <3> QED
      BY <3>2, <3>3, <3>4, <3>5, BeginsOrderly
  <2>4. CASE request[q].status = "APPROVED" /\ Begin(h, <<r, s>>)
    <3> DEFINE k == <<r, s>>
    <3>1. Opened(request[q], "APPROVED")
      BY <2>2, <2>4 DEF Opened, Orderly, ClaimsRight, Existing
    <3>2. /\ k # << >> /\ Head(k) = r /\ Tail(k) = <<s>> /\ Items(k) = {r, s} /\ Begin(h, k)
      BY <2>4, TwoItems
    <3> HIDE DEF k, s, r
    <3>3. Neutral(k)
      BY <2>1, <3>2, NeutralLists
    <3>4. Planned(k)
      BY <2>1, <3>1, <3>2 DEF Planned, Follows
    <3>5. Claimed(k) = {}
      BY <2>1, <3>2 DEF Claimed
    <3> QED
      BY <3>2, <3>3, <3>4, <3>5, BeginsOrderly
  <2> QED
    BY <1>5, <2>3, <2>4 DEF RejectWithdrawal
<1>6. ASSUME NEW q \in Requests, CompleteWithdrawal(h, q)
      PROVE  Orderly'
  <2> DEFINE s == Complete(q)
             k == <<s>>
  <2>1. Begin(h, k) /\ Exists(q) /\ request[q].status = "APPROVED"
    BY <1>6 DEF CompleteWithdrawal
  <2>2. Opened(request[q], "APPROVED")
    BY <2>1 DEF Opened, Orderly, ClaimsRight, Existing
  <2>3. /\ k # << >> /\ Head(k) = s /\ Tail(k) = << >> /\ Items(k) = {s}
    BY OneItem
  <2>4. s.do = "complete" /\ s.was = request[q]
    BY DEF Complete
  <2> HIDE DEF k, s
  <2>5. Neutral(k)
    BY <2>3, <2>4, NeutralLists
  <2>6. Planned(k)
    BY <2>2, <2>3, <2>4 DEF Planned, Follows
  <2>7. Claimed(k) = {}
    BY <2>3, <2>4 DEF Claimed
  <2> QED
    BY <2>1, <2>5, <2>6, <2>7, BeginsOrderly
<1>7. ASSUME NEW a \in Amounts, Deposit(h, a)
      PROVE  Orderly'
  <2> DEFINE s == TakeIn(a)
             c == Credit(a)
             k == <<s, c>>
  <2>1. Begin(h, k)
    BY <1>7 DEF Deposit
  <2>2. /\ k # << >> /\ Head(k) = s /\ Tail(k) = <<c>> /\ Items(k) = {s, c}
    BY TwoItems
  <2>3. s.do = "takeIn" /\ c.do = "credit" /\ c = Credit(s.a)
    BY DEF TakeIn, Credit
  <2> HIDE DEF k, s, c
  <2>4. Neutral(k)
    BY <2>2, <2>3, NeutralLists
  <2>5. Planned(k)
    BY <2>2, <2>3 DEF Planned, Follows
  <2>6. Claimed(k) = {}
    BY <2>2, <2>3 DEF Claimed
  <2> QED
    BY <2>1, <2>4, <2>5, <2>6, BeginsOrderly
<1>8. CASE SaveIban(h)
  <2> DEFINE s == SaveWallet(wallet, wallet)
             k == <<s>>
  <2>1. Begin(h, k)
    BY <1>8 DEF SaveIban
  <2>2. /\ k # << >> /\ Head(k) = s /\ Tail(k) = << >> /\ Items(k) = {s}
    BY OneItem
  <2>3. s.do = "saveWallet" /\ s.row = wallet /\ s.was = wallet
    BY DEF SaveWallet
  <2> HIDE DEF k, s
  <2>4. Adds(s, 0) /\ SameDay(s.was, s.row) /\ ~Earlier(s.was, s.row) /\ s.row.day <= today
    BY <2>3, Now DEF Adds, SameDay, Earlier, Orderly, DaysRight
  <2>5. Neutral(k)
    BY <2>2, <2>3, <2>4, NeutralLists
  <2>6. Planned(k)
    BY <2>2, <2>3, <2>4 DEF Planned, Follows
  <2>7. Claimed(k) = {}
    BY <2>2, <2>3 DEF Claimed
  <2> QED
    BY <2>1, <2>5, <2>6, <2>7, BeginsOrderly
<1> QED
  BY <1>1, <1>2, <1>3, <1>4, <1>5, <1>6, <1>7, <1>8 DEF Call

-----------------------------------------------------------------------------
(* Steps that read, and decide what the later ones are. *)

LEMMA StepTaken ==
  ASSUME Inductive, \A g \in Handlers : Planned(job[g]), NEW h \in Handlers, job[h] # << >>
  PROVE  /\ Head(job[h]) \in Todo(Existing)
         /\ Follows(Head(job[h]), Tail(job[h]))
         /\ Items(job[h]) = {Head(job[h])} \cup Items(Tail(job[h]))
         /\ << >> \o Tail(job[h]) = Tail(job[h])
<1>1. job[h] \in Seq(Todo(Existing))
  BY DEF Inductive, JobsRight
<1>2. /\ Items(job[h]) = {Head(job[h])} \cup Items(Tail(job[h]))
      /\ << >> \o Tail(job[h]) = Tail(job[h])
  BY <1>1, ItemsOfRest
<1>3. Follows(Head(job[h]), Tail(job[h]))
  BY DEF Planned
<1> QED
  BY <1>2, <1>3, NextStep

LEMMA AskOrderly ==
  ASSUME Inductive, Inductive', Orderly, NEW h \in Handlers, DoAsk(h)
  PROVE  Orderly'
<1> DEFINE j == job[h]
           s == Head(j)
           c == CheckMonth(s.q, s.a)
           i == Insert(s.q, s.a, FALSE)
<1>1. /\ j # << >> /\ s.do = "ask"
      /\ wallet' = wallet /\ request' = request /\ today' = today
      /\ moved' = moved /\ paidOut' = paidOut /\ paidIn' = paidIn /\ completed' = completed
      /\ Then(h, <<c, i>>) \/ Drop(h)
  BY DEF DoAsk, Doing, books
<1>2. /\ Follows(s, Tail(j)) /\ Items(j) = {s} \cup Items(Tail(j)) /\ s \in Todo(Existing)
  BY <1>1, StepTaken DEF Orderly
<1> HIDE DEF s
<1>3. Tail(j) = << >>
  BY <1>1, <1>2 DEF Follows
<1>4. Items(j) = {s}
  BY <1>2, <1>3, NoItems
<1>5. /\ c.do = "checkMonth" /\ c.q = s.q /\ c.a = s.a /\ i.do = "insert" /\ i.q = s.q
      /\ i = Insert(c.q, c.a, FALSE)
  BY DEF CheckMonth, Insert
<1> DEFINE k == <<c, i>>
<1>6. /\ k # << >> /\ Head(k) = c /\ Tail(k) = <<i>> /\ Items(k) = {c, i} /\ k \o << >> = k
  BY TwoItems
<1> HIDE DEF k, c, i
<1>7. job' = [job EXCEPT ![h] = k] \/ job' = [job EXCEPT ![h] = << >>]
  <2>1. CASE Then(h, k)
    <3>1. job' = [job EXCEPT ![h] = k \o Tail(job[h])]
      BY <2>1 DEF Then
    <3> QED
      BY <1>3, <1>6, <3>1 DEF j
  <2>2. CASE Drop(h)
    BY <2>2 DEF Drop
  <2> QED
    BY <1>1, <2>1, <2>2 DEF k
<1>8. Neutral(j) /\ Claimed(j) = {s.q}
  <2>1. Neutral(j)
    <3>1. Head(j).do = "ask" /\ \A t \in Items(j) : t.do # "saveWallet"
      BY <1>1, <1>4 DEF s
    <3> QED
      BY <1>1, <3>1, NeutralLists
  <2> QED
    BY <1>1, <1>4, <2>1 DEF Claimed
<1>9. Neutral(k) /\ Planned(k) /\ Claimed(k) = {s.q}
  <2>1. Neutral(k)
    BY <1>5, <1>6, NeutralLists
  <2>2. Planned(k)
    BY <1>5, <1>6 DEF Planned, Follows
  <2> QED
    BY <1>5, <1>6, <2>1, <2>2 DEF Claimed
<1> QED
  BY <1>1, <1>7, <1>8, <1>9, NothingLeft, NeutralKeeps DEF j

LEMMA CheckMonthOrderly ==
  ASSUME Inductive, Inductive', Orderly, NEW h \in Handlers, DoCheckMonth(h)
  PROVE  Orderly'
<1> DEFINE j == job[h]
           s == Head(j)
           i == Insert(s.q, s.a, FALSE)
<1>1. /\ j # << >> /\ s.do = "checkMonth"
      /\ wallet' = wallet /\ request' = request /\ today' = today
      /\ moved' = moved /\ paidOut' = paidOut /\ paidIn' = paidIn /\ completed' = completed
      /\ Then(h, << >>) \/ Drop(h)
  BY DEF DoCheckMonth, Doing, Advance, books
<1>2. /\ Follows(s, Tail(j)) /\ Items(j) = {s} \cup Items(Tail(j)) /\ s \in Todo(Existing)
      /\ << >> \o Tail(j) = Tail(j)
  BY <1>1, StepTaken DEF Orderly
<1> HIDE DEF s
<1>3. Tail(j) = <<i>>
  BY <1>1, <1>2 DEF Follows
<1>4. i.do = "insert" /\ i.q = s.q /\ i.row.status = "PENDING" /\ ~i.row.gateway
  BY DEF Insert
<1> DEFINE k == <<i>>
<1>5. k # << >> /\ Head(k) = i /\ Tail(k) = << >> /\ Items(k) = {i}
  BY OneItem
<1> HIDE DEF k, i
<1>6. job' = [job EXCEPT ![h] = k] \/ job' = [job EXCEPT ![h] = << >>]
  <2>1. CASE Then(h, << >>)
    <3>1. job' = [job EXCEPT ![h] = << >> \o Tail(job[h])]
      BY <2>1 DEF Then
    <3> QED
      BY <1>2, <1>3, <3>1 DEF j, k
  <2>2. CASE Drop(h)
    BY <2>2 DEF Drop
  <2> QED
    BY <1>1, <2>1, <2>2
<1>7. Items(j) = {s, i}
  BY <1>2, <1>3, <1>5 DEF k
<1>8. Neutral(j) /\ Claimed(j) = {s.q}
  <2>1. Neutral(j)
    <3>1. Head(j).do = "checkMonth" /\ \A t \in Items(j) : t.do # "saveWallet"
      BY <1>1, <1>4, <1>7 DEF s
    <3> QED
      BY <1>1, <3>1, NeutralLists
  <2> QED
    BY <1>1, <1>4, <1>7, <2>1 DEF Claimed
<1>9. Neutral(k) /\ Planned(k) /\ Claimed(k) = {s.q}
  <2>1. Neutral(k)
    BY <1>4, <1>5, NeutralLists
  <2>2. Planned(k)
    BY <1>4, <1>5 DEF Planned, Follows
  <2> QED
    BY <1>4, <1>5, <2>1, <2>2 DEF Claimed
<1> QED
  BY <1>1, <1>6, <1>8, <1>9, NothingLeft, NeutralKeeps DEF j

LEMMA ApproveOrderly ==
  ASSUME Inductive, Inductive', Orderly, NEW h \in Handlers, DoApprove(h)
  PROVE  Orderly'
<1> DEFINE j == job[h]
           s == Head(j)
           row == [wallet EXCEPT !.avail = @ - s.was.amount]
           w == SaveWallet(row, wallet)
           no == SaveRequest(s.q, "REJECTED", s.was)
           yes == SaveRequest(s.q, "APPROVED", s.was)
<1>1. /\ j # << >> /\ s.do = "approve"
      /\ wallet' = wallet /\ request' = request /\ today' = today
      /\ moved' = moved /\ paidOut' = paidOut /\ paidIn' = paidIn /\ completed' = completed
      /\ Then(h, <<no>>) \/ Then(h, <<w, yes>>)
  BY DEF DoApprove, Doing, books
<1>2. /\ Follows(s, Tail(j)) /\ Items(j) = {s} \cup Items(Tail(j)) /\ s \in Todo(Existing)
  BY <1>1, StepTaken DEF Orderly
<1> HIDE DEF s
<1>3. Tail(j) = << >> /\ Opened(s.was, "PENDING")
  BY <1>1, <1>2 DEF Follows
<1>4. s.q \in Requests /\ s.was \in Request /\ s.was.amount \in Nat
  BY <1>1, <1>2, StepsCount DEF Existing
<1>5. Items(j) = {s}
  BY <1>2, <1>3, NoItems
<1>6. /\ row.avail = wallet.avail - s.was.amount /\ row.cashback = wallet.cashback
      /\ row.withdrawn = wallet.withdrawn /\ row.day = wallet.day
  BY Now DEF Wallet
<1> HIDE DEF row
<1>7. /\ w.do = "saveWallet" /\ w.row = row /\ w.was = wallet
      /\ no.do = "saveRequest" /\ no.status = "REJECTED" /\ no.was = s.was
      /\ yes.do = "saveRequest"
  BY DEF SaveWallet, SaveRequest
<1> DEFINE k == <<no>>
           l == <<w, yes>>
<1>8. /\ k # << >> /\ Head(k) = no /\ Tail(k) = << >> /\ Items(k) = {no} /\ k \o << >> = k
      /\ l # << >> /\ Head(l) = w /\ Tail(l) = <<yes>> /\ Items(l) = {w, yes} /\ l \o << >> = l
  <2>1. k # << >> /\ Head(k) = no /\ Tail(k) = << >> /\ Items(k) = {no} /\ k \o << >> = k
    BY OneItem
  <2>2. l # << >> /\ Head(l) = w /\ Tail(l) = <<yes>> /\ Items(l) = {w, yes} /\ l \o << >> = l
    BY TwoItems
  <2> QED
    BY <2>1, <2>2
<1> HIDE DEF k, l, w, no
<1>9. job' = [job EXCEPT ![h] = k] \/ job' = [job EXCEPT ![h] = l]
  <2>1. Then(h, k) \/ Then(h, l)
    BY <1>1 DEF k, l
  <2>2. job' = [job EXCEPT ![h] = k \o Tail(job[h])] \/ job' = [job EXCEPT ![h] = l \o Tail(job[h])]
    BY <2>1 DEF Then
  <2> QED
    BY <1>3, <1>8, <2>2 DEF j
<1>10. Neutral(j)
  <2>1. Head(j).do = "approve" /\ \A t \in Items(j) : t.do # "saveWallet"
    BY <1>1, <1>5 DEF s
  <2> QED
    BY <1>1, <2>1, NeutralLists
<1>11. Neutral(k) /\ Planned(k) /\ Claimed(k) = {}
  <2>1. Neutral(k)
    BY <1>3, <1>7, <1>8, NeutralLists DEF Opened
  <2>2. Planned(k)
    BY <1>3, <1>7, <1>8 DEF Planned, Follows
  <2> QED
    BY <1>7, <1>8, <2>1, <2>2 DEF Claimed
<1>12. Neutral(l) /\ Planned(l) /\ Claimed(l) = {}
  <2>1. SameDay(w.was, w.row) /\ Adds(w, 0 - s.was.amount)
    BY <1>4, <1>6, <1>7, Now DEF SameDay, Adds
  <2>2. ~Earlier(w.was, w.row) /\ w.row.day <= today
    BY <1>6, <1>7, Now DEF Earlier, Orderly, DaysRight
  <2>3. Neutral(l)
    BY <1>7, <1>8, <2>2, NeutralLists
  <2>4. Planned(l)
    BY <1>3, <1>4, <1>7, <1>8, <2>1 DEF Planned, Follows, yes
  <2> QED
    BY <1>7, <1>8, <2>3, <2>4 DEF Claimed
<1> QED
  BY <1>1, <1>9, <1>10, <1>11, <1>12, NeutralKeeps DEF j

LEMMA RefundOrderly ==
  ASSUME Inductive, Inductive', Orderly, NEW h \in Handlers, DoRefund(h)
  PROVE  Orderly'
<1> DEFINE j == job[h]
           s == Head(j)
           row == [wallet EXCEPT !.avail = @ + s.was.amount]
           w == SaveWallet(row, wallet)
           no == SaveRequest(s.q, "REJECTED", s.was)
<1>1. /\ j # << >> /\ s.do = "refund"
      /\ wallet' = wallet /\ request' = request /\ today' = today
      /\ moved' = moved /\ paidOut' = paidOut /\ paidIn' = paidIn /\ completed' = completed
      /\ Then(h, <<w>>)
  BY DEF DoRefund, Doing, books
<1>2. /\ Follows(s, Tail(j)) /\ Items(j) = {s} \cup Items(Tail(j)) /\ s \in Todo(Existing)
  BY <1>1, StepTaken DEF Orderly
<1> HIDE DEF s
<1>3. Tail(j) = <<no>> /\ Opened(s.was, "APPROVED")
  BY <1>1, <1>2 DEF Follows
<1>4. s.q \in Requests /\ s.was \in Request /\ s.was.amount \in Nat
  BY <1>1, <1>2, StepsCount DEF Existing
<1>5. /\ row.avail = wallet.avail + s.was.amount /\ row.cashback = wallet.cashback
      /\ row.withdrawn = wallet.withdrawn /\ row.day = wallet.day
  BY Now DEF Wallet
<1> HIDE DEF row
<1>6. /\ w.do = "saveWallet" /\ w.row = row /\ w.was = wallet
      /\ no.do = "saveRequest" /\ no.status = "REJECTED" /\ no.was = s.was
  BY DEF SaveWallet, SaveRequest
<1> DEFINE l == <<w, no>>
<1>7. /\ Items(<<no>>) = {no} /\ <<w>> \o <<no>> = l
      /\ l # << >> /\ Head(l) = w /\ Tail(l) = <<no>> /\ Items(l) = {w, no}
  BY OneItem, TwoItems
<1>8. job' = [job EXCEPT ![h] = l]
  <2>1. job' = [job EXCEPT ![h] = <<w>> \o Tail(job[h])]
    BY <1>1 DEF Then
  <2> QED
    BY <1>3, <1>7, <2>1 DEF j
<1> HIDE DEF l, w
<1>9. Neutral(j)
  <2>1. Head(j).do = "refund" /\ \A t \in Items(j) : t.do # "saveWallet"
    BY <1>1, <1>2, <1>3, <1>6, <1>7 DEF s
  <2> QED
    BY <1>1, <2>1, NeutralLists
<1>10. Neutral(l) /\ Planned(l) /\ Claimed(l) = {}
  <2>1. SameDay(w.was, w.row) /\ Adds(w, s.was.amount)
    BY <1>4, <1>5, <1>6, Now DEF SameDay, Adds
  <2>2. ~Earlier(w.was, w.row) /\ w.row.day <= today
    BY <1>5, <1>6, Now DEF Earlier, Orderly, DaysRight
  <2>3. Neutral(l)
    BY <1>6, <1>7, <2>2, NeutralLists
  <2>4. Planned(l)
    BY <1>3, <1>4, <1>6, <1>7, <2>1 DEF Planned, Follows, no
  <2> QED
    BY <1>6, <1>7, <2>3, <2>4 DEF Claimed
<1> QED
  BY <1>1, <1>8, <1>9, <1>10, NeutralKeeps DEF j

-----------------------------------------------------------------------------
(* Steps that store a request. *)

LEMMA TotalsCount ==
  ASSUME SumsFinite
  PROVE  /\ Total(TakenOf(job), Handlers) \in Nat /\ Total(GivenOf(job), Handlers) \in Nat
         /\ Total(SentOf(job), Handlers) \in Nat /\ Total(ReceivedOf(job), Handlers) \in Nat
         /\ Total(DrawnOf(request), Requests) \in Nat /\ Total(SoldOf(request), Requests) \in Nat
BY FS_CardinalityType DEF SumsFinite, Total

(* What a list and a row stop or start to count for, balances. *)
LEMMA SumsMoved ==
  ASSUME Inductive, Inductive', SumsFinite, SumsRight,
         NEW h \in Handlers, NEW k, job' = [job EXCEPT ![h] = k],
         NEW q \in Requests, NEW row \in Request, request' = [request EXCEPT ![q] = row],
         wallet' = wallet, moved' = moved, paidOut' = paidOut, paidIn' = paidIn,
         Drawn(row) + Taken(k) + Given(job[h]) = Drawn(request[q]) + Taken(job[h]) + Given(k),
         Sold(row) + Sent(k) = Sold(request[q]) + Sent(job[h]),
         Received(k) = Received(job[h])
  PROVE  SumsFinite' /\ SumsRight'
<1>1. /\ IsFiniteSet(Units(TakenOf(job'), Handlers)) /\ IsFiniteSet(Units(GivenOf(job'), Handlers))
      /\ IsFiniteSet(Units(SentOf(job'), Handlers)) /\ IsFiniteSet(Units(ReceivedOf(job'), Handlers))
      /\ Total(TakenOf(job'), Handlers) = Total(TakenOf(job), Handlers) - Taken(job[h]) + Taken(k)
      /\ Total(GivenOf(job'), Handlers) = Total(GivenOf(job), Handlers) - Given(job[h]) + Given(k)
      /\ Total(SentOf(job'), Handlers) = Total(SentOf(job), Handlers) - Sent(job[h]) + Sent(k)
      /\ Total(ReceivedOf(job'), Handlers)
           = Total(ReceivedOf(job), Handlers) - Received(job[h]) + Received(k)
  BY ListTotals
<1>2. /\ IsFiniteSet(Units(DrawnOf(request'), Requests))
      /\ IsFiniteSet(Units(SoldOf(request'), Requests))
      /\ Total(DrawnOf(request'), Requests)
           = Total(DrawnOf(request), Requests) - Drawn(request[q]) + Drawn(row)
      /\ Total(SoldOf(request'), Requests)
           = Total(SoldOf(request), Requests) - Sold(request[q]) + Sold(row)
      /\ Drawn(request[q]) \in Nat /\ Drawn(row) \in Nat
      /\ Sold(request[q]) \in Nat /\ Sold(row) \in Nat
  BY RowTotals
<1>3. SumsFinite'
  BY <1>1, <1>2 DEF SumsFinite
<1>4. /\ Taken(job[h]) \in Nat /\ Given(job[h]) \in Nat
      /\ Sent(job[h]) \in Nat /\ Received(job[h]) \in Nat
  BY ListsCount
<1>5. Taken(k) \in Nat /\ Given(k) \in Nat /\ Sent(k) \in Nat /\ Received(k) \in Nat
  <2>1. (/\ Taken(job[h]) \in Nat /\ Given(job[h]) \in Nat
         /\ Sent(job[h]) \in Nat /\ Received(job[h]) \in Nat)'
    BY ListsCount, PTL
  <2>2. job'[h] = k
    BY OneList
  <2> QED
    BY <2>1, <2>2
<1>6. SumsRight'
  <2>1. wallet.avail + wallet.cashback + Total(DrawnOf(request'), Requests) + Total(TakenOf(job'), Handlers)
          = moved + OpeningCash + Total(GivenOf(job'), Handlers)
    BY <1>1, <1>2, <1>4, <1>5, TotalsCount, Now, WithdrawalAssumption DEF SumsRight
  <2>2. paidOut = Total(SoldOf(request'), Requests) + Total(SentOf(job'), Handlers)
    BY <1>1, <1>2, <1>4, <1>5, TotalsCount, Now DEF SumsRight
  <2>3. paidIn = Total(ReceivedOf(job'), Handlers)
    BY <1>1, <1>4, <1>5, TotalsCount, Now DEF SumsRight
  <2> QED
    BY <2>1, <2>2, <2>3 DEF SumsRight
<1> QED
  BY <1>3, <1>6

LEMMA InsertOrderly ==
  ASSUME Inductive, Inductive', Orderly, NEW h \in Handlers, DoInsert(h)
  PROVE  Orderly'
<1> DEFINE j == job[h]
           s == Head(j)
<1>1. /\ j # << >> /\ s.do = "insert"
      /\ request' = [request EXCEPT ![s.q] = s.row]
      /\ wallet' = wallet /\ today' = today
      /\ moved' = moved /\ paidOut' = paidOut /\ paidIn' = paidIn /\ completed' = completed
      /\ job' = [job EXCEPT ![h] = << >> \o Tail(job[h])]
  BY DEF DoInsert, Doing, Advance, Then, books
<1>2. /\ Follows(s, Tail(j)) /\ Items(j) = {s} \cup Items(Tail(j)) /\ s \in Todo(Existing)
      /\ << >> \o Tail(j) = Tail(j)
  BY <1>1, StepTaken DEF Orderly
<1>3. s = Head(j)
  OBVIOUS
<1> HIDE DEF s
<1>4. Tail(j) = << >> /\ s.row.status = IF s.row.gateway THEN "COMPLETED" ELSE "PENDING"
  BY <1>1, <1>2 DEF Follows
<1>5. /\ s.q \in Requests /\ s.row \in Request /\ s.row.amount \in Nat /\ s.row.gateway \in BOOLEAN
  <2>1. s.q \in Requests /\ s.row \in Request /\ s.row.amount \in Nat
    BY <1>1, <1>2, StepsCount
  <2> QED
    BY <2>1 DEF Request
<1>6. Items(j) = {s}
  BY <1>2, <1>4, NoItems
<1>7. job' = [job EXCEPT ![h] = << >>]
  BY <1>1, <1>2, <1>4 DEF j
<1>8. Claimed(j) = {s.q} /\ Counts(j) = {}
  BY <1>1, <1>6 DEF Claimed, Counts
<1>9. request[s.q] = NoRequest
  BY <1>8 DEF Orderly, ClaimsRight, Exists
<1>10. \A g \in Handlers : Planned(job'[g])
  BY <1>7, PlansKept, NothingLeft DEF Orderly
<1>11. DaysRight' /\ CounterRight'
  <2>1. SameDay(wallet', wallet)
    BY <1>1 DEF SameDay
  <2>2. Counts(<< >>) = Counts(job[h]) /\ Items(<< >>) = {}
    BY <1>8, NothingLeft, NoItems
  <2> QED
    BY <1>1, <1>7, <2>1, <2>2, CounterKept DEF Orderly
<1>12. SumsFinite' /\ SumsRight'
  <2>1. s.row # NoRequest
    BY <1>5, MarkerAssumption
  <2>2. Drawn(request[s.q]) = 0 /\ Sold(request[s.q]) = 0 /\ Drawn(s.row) = 0
    BY <1>4, <1>9, <2>1 DEF Drawn, Sold
  <2>3. Sold(s.row) = IF s.row.gateway THEN s.row.amount ELSE 0
    BY <1>4, <2>1 DEF Sold
  <2>4. /\ Taken(j) = 0 /\ Given(j) = 0 /\ Received(j) = 0
        /\ Sent(j) = IF s.row.gateway THEN s.row.amount ELSE 0
    BY <1>1, <1>3, FirstTells
  <2>5. Taken(<< >>) = 0 /\ Given(<< >>) = 0 /\ Received(<< >>) = 0 /\ Sent(<< >>) = 0
    BY NothingLeft DEF Neutral
  <2>6. /\ Drawn(s.row) + Taken(<< >>) + Given(j) = Drawn(request[s.q]) + Taken(j) + Given(<< >>)
        /\ Sold(s.row) + Sent(<< >>) = Sold(request[s.q]) + Sent(j)
        /\ Received(<< >>) = Received(j)
    BY <1>5, <2>2, <2>3, <2>4, <2>5
  <2> QED
    BY <1>1, <1>5, <1>7, <2>6, SumsMoved DEF Orderly, j
<1>13. ClaimsRight'
  <2>1. job'[h] = << >> /\ \A g \in Handlers \ {h} : job'[g] = job[g]
    BY <1>7, OneList
  <2>2. request \in [Requests -> Request \cup {NoRequest}]
    BY DEF Inductive, Typed
  <2>3. /\ request'[s.q] = s.row
        /\ \A q \in Requests \ {s.q} : request'[q] = request[q]
        /\ \A q : q # s.q => request'[q] = request[q]
    BY <1>1, <1>5, <2>2
  <2>4. ASSUME NEW g \in Handlers, NEW q \in Claimed(job'[g])
        PROVE  request'[q] = NoRequest /\ \A f \in Handlers \ {g} : q \notin Claimed(job'[f])
    <3>1. g # h /\ q \in Claimed(job[g])
      BY <2>1, <2>4, NothingLeft
    <3>2. request[q] = NoRequest /\ \A f \in Handlers \ {g} : q \notin Claimed(job[f])
      BY <3>1 DEF Orderly, ClaimsRight, Exists
    <3>3. q # s.q
      BY <1>8, <3>1, <3>2
    <3>4. \A f \in Handlers \ {g} : q \notin Claimed(job'[f])
      BY <2>1, <3>2, NothingLeft
    <3> QED
      BY <2>3, <3>2, <3>3, <3>4
  <2>5. Existing' = Existing \cup {s.q}
    BY <1>5, <2>3, MarkerAssumption DEF Existing, Exists
  <2>6. IsFiniteSet(Existing')
    BY <2>5, FS_AddElement DEF Orderly, ClaimsRight
  <2>7. \A q \in Existing' : request'[q].gateway => request'[q].status = "COMPLETED"
    BY <1>4, <2>3, <2>5 DEF Orderly, ClaimsRight
  <2> QED
    BY <2>4, <2>6, <2>7 DEF ClaimsRight, Exists
<1> QED
  BY <1>10, <1>11, <1>12, <1>13 DEF Orderly

(* A request saved over the row it was read from: what was taken from the  *)
(* wallet, or given back to it, is now in the row.                         *)
LEMMA SaveRequestOrderly ==
  ASSUME Inductive, Inductive', Orderly, NEW h \in Handlers, DoSaveRequest(h), ~disturbed'
  PROVE  Orderly'
<1> DEFINE j == job[h]
           s == Head(j)
           k == Tail(j)
           row == [request[s.q] EXCEPT !.status = s.status]
<1>1. /\ j # << >> /\ s.do = "saveRequest" /\ s.was = request[s.q]
      /\ request' = [request EXCEPT ![s.q] = row]
      /\ wallet' = wallet /\ today' = today
      /\ moved' = moved /\ paidOut' = paidOut /\ paidIn' = paidIn /\ completed' = completed
      /\ job' = [job EXCEPT ![h] = << >> \o k]
  BY DEF DoSaveRequest, Doing, Advance, Then, books, Disturb
<1>2. /\ Follows(s, k) /\ Items(j) = {s} \cup Items(k) /\ s \in Todo(Existing)
      /\ << >> \o k = k
  BY <1>1, StepTaken DEF Orderly
<1>3. s = Head(j) /\ k = Tail(j)
  OBVIOUS
<1> HIDE DEF s, k
<1>4. job' = [job EXCEPT ![h] = k]
  BY <1>1, <1>2
<1>5. s.q \in Existing /\ s.was \in Request /\ s.was.amount \in Nat /\ s.status \in WithdrawalStatuses
  BY <1>1, <1>2, StepsCount
<1>6. /\ row \in Request /\ row.status = s.status /\ row.amount = s.was.amount
      /\ row.gateway = s.was.gateway
  BY <1>1, <1>5 DEF Request
<1> HIDE DEF row
<1>7. s.q \in Requests /\ row # NoRequest /\ request[s.q] # NoRequest
  BY <1>1, <1>5, <1>6, MarkerAssumption DEF Existing
<1>8. \/ k = << >> /\ Opened(s.was, "PENDING") /\ s.status \in {"APPROVED", "REJECTED"}
      \/ k = << >> /\ Opened(s.was, "APPROVED") /\ s.status = "REJECTED"
      \/ /\ Opened(s.was, "APPROVED") /\ s.status = "COMPLETED"
         /\ \E w : k = <<w>> /\ w.do = "saveWallet" /\ CountsOn(w)
  <2>1. ASSUME NEW r \in Wallet, NEW was \in Wallet, k = <<SaveWallet(r, was)>>,
               CountsOn(SaveWallet(r, was))
        PROVE  \E w : k = <<w>> /\ w.do = "saveWallet" /\ CountsOn(w)
    <3>1. SaveWallet(r, was).do = "saveWallet"
      BY DEF SaveWallet
    <3> QED
      BY <2>1, <3>1
  <2> QED
    BY <1>1, <1>2, <2>1 DEF Follows
<1>9. Planned(k) /\ Claimed(k) = {}
  <2>1. CASE k = << >>
    BY <2>1, NothingLeft
  <2>2. ASSUME NEW w, k = <<w>>, w.do = "saveWallet", CountsOn(w)
        PROVE  Planned(k) /\ Claimed(k) = {}
    <3>1. Head(k) = w /\ Tail(k) = << >> /\ Items(k) = {w}
      BY <2>2, OneItem
    <3>2. Planned(k)
      BY <2>2, <3>1 DEF Planned, Follows, CountsOn
    <3> QED
      BY <2>2, <3>1, <3>2 DEF Claimed
  <2> QED
    BY <1>8, <2>1, <2>2
<1>10. \A g \in Handlers : Planned(job'[g])
  BY <1>4, <1>9, PlansKept DEF Orderly
<1>11. DaysRight' /\ CounterRight'
  <2>1. SameDay(wallet', wallet)
    BY <1>1 DEF SameDay
  <2>2. Counts(k) = Counts(j)
    BY <1>1, <1>2 DEF Counts
  <2>3. \A t \in Items(k) : t.do = "saveWallet" => t.row.day <= today
    BY <1>2 DEF Orderly, DaysRight, j
  <2> QED
    BY <1>1, <1>4, <2>1, <2>2, <2>3, CounterKept DEF Orderly, j
<1>12. SumsFinite' /\ SumsRight'
  <2>1. /\ Taken(j) = IF s.status = "APPROVED" THEN s.was.amount ELSE 0
        /\ Given(j) = IF s.status = "REJECTED" /\ s.was.status = "APPROVED" THEN s.was.amount ELSE 0
        /\ Sent(j) = 0 /\ Received(j) = 0
    BY <1>1, <1>3, FirstTells
  <2>2. Taken(k) = 0 /\ Given(k) = 0 /\ Sent(k) = 0 /\ Received(k) = 0
    <3>1. CASE k = << >>
      BY <3>1, NothingLeft DEF Neutral
    <3>2. ASSUME NEW w, k = <<w>>, w.do = "saveWallet"
          PROVE  Taken(k) = 0 /\ Given(k) = 0 /\ Sent(k) = 0 /\ Received(k) = 0
      <4>1. k # << >> /\ Head(k) = w
        BY <3>2, OneItem
      <4> QED
        BY <3>2, <4>1, FirstTells
    <3> QED
      BY <1>8, <3>1, <3>2
  <2>3. /\ Drawn(request[s.q]) = IF s.was.status = "APPROVED" THEN s.was.amount ELSE 0
        /\ Sold(request[s.q]) = 0
    BY <1>1, <1>7, <1>8 DEF Drawn, Sold, Opened
  <2>4. /\ Drawn(row) = IF s.status \in {"APPROVED", "COMPLETED"} THEN s.was.amount ELSE 0
        /\ Sold(row) = 0
    BY <1>6, <1>7, <1>8 DEF Drawn, Sold, Opened
  <2>5. /\ Drawn(row) + Taken(k) + Given(j) = Drawn(request[s.q]) + Taken(j) + Given(k)
        /\ Sold(row) + Sent(k) = Sold(request[s.q]) + Sent(j)
        /\ Received(k) = Received(j)
    <3>1. CASE Opened(s.was, "PENDING") /\ s.status \in {"APPROVED", "REJECTED"}
      BY <1>5, <2>1, <2>2, <2>3, <2>4, <3>1 DEF Opened
    <3>2. CASE Opened(s.was, "APPROVED") /\ s.status \in {"REJECTED", "COMPLETED"}
      BY <1>5, <2>1, <2>2, <2>3, <2>4, <3>2 DEF Opened
    <3> QED
      BY <1>8, <3>1, <3>2
  <2> QED
    BY <1>1, <1>4, <1>6, <1>7, <2>5, SumsMoved DEF Orderly, j
<1>13. ClaimsRight'
  <2>1. job'[h] = k /\ \A g \in Handlers \ {h} : job'[g] = job[g]
    BY <1>4, OneList
  <2>2. request \in [Requests -> Request \cup {NoRequest}]
    BY DEF Inductive, Typed
  <2>3. /\ request'[s.q] = row
        /\ \A q : q # s.q => request'[q] = request[q]
    BY <1>1, <1>7, <2>2
  <2>4. \A q : request'[q] = NoRequest <=> request[q] = NoRequest
    BY <1>7, <2>3
  <2>5. Existing' = Existing
    BY <2>4 DEF Existing, Exists
  <2>6. ASSUME NEW g \in Handlers, NEW q \in Claimed(job'[g])
        PROVE  request'[q] = NoRequest /\ \A f \in Handlers \ {g} : q \notin Claimed(job'[f])
    <3>1. g # h /\ q \in Claimed(job[g])
      BY <1>9, <2>1, <2>6
    <3>2. request[q] = NoRequest /\ \A f \in Handlers \ {g} : q \notin Claimed(job[f])
      BY <3>1 DEF Orderly, ClaimsRight, Exists
    <3>3. \A f \in Handlers \ {g} : q \notin Claimed(job'[f])
      BY <1>9, <2>1, <3>2
    <3> QED
      BY <2>4, <3>2, <3>3
  <2>7. \A q \in Existing' : request'[q].gateway => request'[q].status = "COMPLETED"
    BY <1>6, <1>8, <2>3, <2>5 DEF Orderly, ClaimsRight, Opened
  <2> QED
    BY <2>5, <2>6, <2>7 DEF ClaimsRight, Exists, Orderly
<1> QED
  BY <1>10, <1>11, <1>12, <1>13 DEF Orderly

-----------------------------------------------------------------------------
(* Steps that move money, or count what was completed. *)

LEMMA SumsShift ==
  ASSUME Inductive, Inductive', SumsFinite, SumsRight, request' = request,
         NEW h \in Handlers, NEW k, job' = [job EXCEPT ![h] = k],
         wallet'.avail + wallet'.cashback + moved + Taken(k) + Given(job[h])
           = wallet.avail + wallet.cashback + moved' + Taken(job[h]) + Given(k),
         paidOut' + Sent(job[h]) = paidOut + Sent(k),
         paidIn' + Received(job[h]) = paidIn + Received(k)
  PROVE  SumsFinite' /\ SumsRight'
<1>1. /\ IsFiniteSet(Units(TakenOf(job'), Handlers)) /\ IsFiniteSet(Units(GivenOf(job'), Handlers))
      /\ IsFiniteSet(Units(SentOf(job'), Handlers)) /\ IsFiniteSet(Units(ReceivedOf(job'), Handlers))
      /\ Total(TakenOf(job'), Handlers) = Total(TakenOf(job), Handlers) - Taken(job[h]) + Taken(k)
      /\ Total(GivenOf(job'), Handlers) = Total(GivenOf(job), Handlers) - Given(job[h]) + Given(k)
      /\ Total(SentOf(job'), Handlers) = Total(SentOf(job), Handlers) - Sent(job[h]) + Sent(k)
      /\ Total(ReceivedOf(job'), Handlers)
           = Total(ReceivedOf(job), Handlers) - Received(job[h]) + Received(k)
  BY ListTotals
<1>2. SumsFinite'
  BY <1>1 DEF SumsFinite
<1>3. /\ Taken(job[h]) \in Nat /\ Given(job[h]) \in Nat
      /\ Sent(job[h]) \in Nat /\ Received(job[h]) \in Nat
  BY ListsCount
<1>4. Taken(k) \in Nat /\ Given(k) \in Nat /\ Sent(k) \in Nat /\ Received(k) \in Nat
  <2>1. (/\ Taken(job[h]) \in Nat /\ Given(job[h]) \in Nat
         /\ Sent(job[h]) \in Nat /\ Received(job[h]) \in Nat)'
    BY ListsCount, PTL
  <2>2. job'[h] = k
    BY OneList
  <2> QED
    BY <2>1, <2>2
<1>5. (/\ wallet.avail \in Int /\ wallet.cashback \in Int
       /\ moved \in Int /\ paidOut \in Nat /\ paidIn \in Int)'
  BY Now, PTL
<1>6. /\ wallet'.avail + wallet'.cashback + Total(DrawnOf(request), Requests)
           + Total(TakenOf(job'), Handlers)
           = moved' + OpeningCash + Total(GivenOf(job'), Handlers)
      /\ paidOut' = Total(SoldOf(request), Requests) + Total(SentOf(job'), Handlers)
      /\ paidIn' = Total(ReceivedOf(job'), Handlers)
  <2>1. OpeningCash \in Int
    BY WithdrawalAssumption
  <2>2. wallet'.avail + wallet'.cashback + Total(DrawnOf(request), Requests)
           + Total(TakenOf(job'), Handlers)
           = moved' + OpeningCash + Total(GivenOf(job'), Handlers)
    BY <1>1, <1>3, <1>4, <1>5, <2>1, TotalsCount, Now DEF SumsRight
  <2>3. paidOut' = Total(SoldOf(request), Requests) + Total(SentOf(job'), Handlers)
    BY <1>1, <1>3, <1>4, <1>5, TotalsCount, Now DEF SumsRight
  <2>4. paidIn' = Total(ReceivedOf(job'), Handlers)
    BY <1>1, <1>3, <1>4, <1>5, TotalsCount, Now DEF SumsRight
  <2> QED
    BY <2>2, <2>3, <2>4
<1> QED
  BY <1>2, <1>6 DEF SumsRight

(* Every save there is holds wallets. *)
LEMMA SavesHoldWallets ==
  ASSUME Inductive, NEW g \in Handlers, NEW t \in Items(job[g]), t.do = "saveWallet"
  PROVE  /\ t.was.day \in Int /\ t.was.withdrawn \in Int
         /\ t.row.day \in Int /\ t.row.withdrawn \in Int
<1>1. t \in Todo(Existing)
  BY ElementOfSeq, LenProperties DEF Inductive, JobsRight, Items
<1>2. t.was \in Wallet /\ t.row \in Wallet
  BY <1>1, StepsCount
<1>3. MaxDay \in Nat
  BY WithdrawalAssumption
<1> QED
  BY <1>2, <1>3 DEF Wallet

LEMMA CompleteOrderly ==
  ASSUME Inductive, Inductive', Orderly, NEW h \in Handlers, DoComplete(h)
  PROVE  Orderly'
<1> DEFINE j == job[h]
           s == Head(j)
           row == [wallet EXCEPT !.withdrawn = Counter + s.was.amount, !.day = today]
           w == SaveWallet(row, wallet)
           d == SaveRequest(s.q, "COMPLETED", s.was)
           k == <<d, w>>
<1>1. /\ j # << >> /\ s.do = "complete"
      /\ wallet' = wallet /\ request' = request /\ today' = today
      /\ moved' = moved /\ paidOut' = paidOut /\ paidIn' = paidIn
      /\ completed' = s.was.amount + IF wallet.day = today THEN completed ELSE 0
      /\ job' = [job EXCEPT ![h] = k \o Tail(job[h])]
  BY DEF DoComplete, Doing, Then
<1>2. /\ Follows(s, Tail(j)) /\ Items(j) = {s} \cup Items(Tail(j)) /\ s \in Todo(Existing)
  BY <1>1, StepTaken DEF Orderly
<1>3. s = Head(j)
  OBVIOUS
<1> HIDE DEF s
<1>4. Tail(j) = << >> /\ Opened(s.was, "APPROVED")
  BY <1>1, <1>2 DEF Follows
<1>5. s.was \in Request /\ s.was.amount \in Nat /\ s.was.amount # 0
  <2>1. s.was \in Request /\ s.was.amount \in Nat /\ s.was.amount \in Amounts
    BY <1>1, <1>2, StepsCount
  <2> QED
    BY <2>1, Now
<1>6. Items(j) = {s} /\ Counts(j) = {} /\ Claimed(j) = {}
  <2>1. Items(j) = {s}
    BY <1>2, <1>4, NoItems
  <2> QED
    BY <1>1, <2>1 DEF Counts, Claimed
<1>7. /\ row.avail = wallet.avail /\ row.cashback = wallet.cashback
      /\ row.withdrawn = Counter + s.was.amount /\ row.day = today
  BY Now DEF Wallet
<1>8. row \in Wallet /\ wallet \in Wallet
  <2>1. Counter \in Nat
    BY Now DEF Counter
  <2>2. Counter + s.was.amount \in Nat
    BY <1>5, <2>1
  <2> QED
    BY <2>2, Now, Changed
<1> HIDE DEF row
<1>9. /\ w.do = "saveWallet" /\ w.row = row /\ w.was = wallet
      /\ d.do = "saveRequest" /\ d.status = "COMPLETED" /\ d.was = s.was
  BY DEF SaveWallet, SaveRequest
<1>10. /\ k # << >> /\ Head(k) = d /\ Tail(k) = <<w>> /\ Items(k) = {d, w} /\ k \o << >> = k
  BY TwoItems
<1>11. Earlier(wallet, row) /\ CountsOn(w)
  <2>1. Earlier(wallet, row)
    BY <1>5, <1>7, Now DEF Earlier, Counter, Orderly, DaysRight
  <2> QED
    BY <1>7, <1>9, <2>1, Now DEF CountsOn, Adds
<1>12. Planned(k)
  <2>1. Follows(d, <<w>>)
    BY <1>4, <1>8, <1>9, <1>11 DEF Follows
  <2> QED
    BY <1>10, <2>1 DEF Planned
<1> HIDE DEF w, d, k
<1>13. job' = [job EXCEPT ![h] = k]
  BY <1>1, <1>4, <1>10 DEF j
<1>14. Claimed(k) = {} /\ Counts(k) = {w}
  BY <1>9, <1>10, <1>11 DEF Claimed, Counts
<1>15. \A g \in Handlers : Planned(job'[g])
  BY <1>12, <1>13, PlansKept DEF Orderly
<1>16. ClaimsRight'
  BY <1>1, <1>13, <1>14, ClaimsKept DEF Orderly
<1>17. SumsFinite' /\ SumsRight'
  <2>1. /\ Taken(j) = 0 /\ Given(j) = 0 /\ Sent(j) = 0 /\ Received(j) = 0
        /\ Taken(k) = 0 /\ Given(k) = 0 /\ Sent(k) = 0 /\ Received(k) = 0
    BY <1>1, <1>3, <1>9, <1>10, FirstTells
  <2>2. /\ wallet'.avail + wallet'.cashback + moved + Taken(k) + Given(j)
             = wallet.avail + wallet.cashback + moved' + Taken(j) + Given(k)
        /\ paidOut' + Sent(j) = paidOut + Sent(k)
        /\ paidIn' + Received(j) = paidIn + Received(k)
    BY <1>1, <2>1
  <2> QED
    BY <1>1, <1>13, <2>2, SumsShift DEF Orderly, j
<1>18. job'[h] = k /\ \A g \in Handlers \ {h} : job'[g] = job[g]
  BY <1>13, OneList
<1>19. DaysRight'
  <2>1. \A g \in Handlers : \A t \in Items(job'[g]) : t.do = "saveWallet" => t.row.day <= today
    BY <1>7, <1>9, <1>10, <1>18, Now DEF Orderly, DaysRight
  <2> QED
    BY <1>1, <2>1 DEF Orderly, DaysRight
<1>20. CounterRight'
  <2>1. \A g \in Handlers : \A t \in Counts(job'[g]) : ~Earlier(wallet', t.was)
    <3>1. ~Earlier(wallet, wallet)
      BY Now DEF Earlier
    <3> QED
      BY <1>1, <1>9, <1>14, <1>18, <3>1 DEF Orderly, CounterRight
  <2>2. Counts(job'[h]) # {}
    BY <1>14, <1>18
  <2>3. ASSUME \A g \in Handlers \ {h} : Counts(job'[g]) = {}
        PROVE  row.withdrawn = completed'
    <3>1. \A g \in Handlers : Counts(job[g]) = {}
      BY <1>6, <1>18, <2>3 DEF j
    <3>2. \A g \in Handlers : ~Lost(wallet, job[g])
      BY <3>1 DEF Lost
    <3>3. wallet.withdrawn = completed
      BY <3>1, <3>2 DEF Orderly, CounterRight
    <3> QED
      BY <1>1, <1>5, <1>7, <3>3, Now DEF Counter
  <2>4. ASSUME NEW f \in Handlers, \A g \in Handlers \ {f} : Counts(job'[g]) = {}
        PROVE  \A t \in Counts(job'[f]) : t.row.withdrawn = completed'
    <3>1. f = h
      BY <2>2, <2>4
    <3> QED
      BY <1>9, <1>14, <1>18, <2>3, <2>4, <3>1
  <2> QED
    BY <2>1, <2>2, <2>4 DEF CounterRight
<1> QED
  BY <1>15, <1>16, <1>17, <1>19, <1>20 DEF Orderly

(* A wallet saved over the row it was read from. *)
LEMMA SaveWalletOrderly ==
  ASSUME Inductive, Inductive', Orderly, NEW h \in Handlers, DoSaveWallet(h), ~disturbed'
  PROVE  Orderly'
<1> DEFINE j == job[h]
           s == Head(j)
           k == Tail(j)
<1>1. /\ j # << >> /\ s.do = "saveWallet" /\ s.was = wallet /\ wallet' = s.row
      /\ request' = request /\ today' = today
      /\ moved' = moved /\ paidOut' = paidOut /\ paidIn' = paidIn /\ completed' = completed
      /\ job' = [job EXCEPT ![h] = << >> \o k]
  BY DEF DoSaveWallet, Doing, Advance, Then, books, Disturb
<1>2. /\ Follows(s, k) /\ Items(j) = {s} \cup Items(k) /\ s \in Todo(Existing)
      /\ << >> \o k = k
  BY <1>1, StepTaken DEF Orderly
<1>3. s = Head(j) /\ k = Tail(j)
  OBVIOUS
<1> HIDE DEF s, k
<1>4. job' = [job EXCEPT ![h] = k]
  BY <1>1, <1>2
<1>5. (/\ wallet.avail \in Int /\ wallet.cashback \in Int /\ wallet.day \in 0 .. MaxDay
       /\ wallet.withdrawn \in Nat)'
  BY Now, PTL
<1>6. \/ k = << >> /\ Adds(s, 0) /\ SameDay(s.was, s.row)
      \/ k = << >> /\ CountsOn(s)
      \/ Adds(s, 0) /\ SameDay(s.was, s.row) /\ \E x : k = <<x>> /\ x.do = "ask"
      \/ SameDay(s.was, s.row) /\ \E x : k = <<x>> /\ x.do = "saveRequest"
           /\ \/ /\ Opened(x.was, "PENDING") /\ x.status = "APPROVED" /\ x.was \in Request
                 /\ Adds(s, 0 - x.was.amount)
              \/ /\ Opened(x.was, "APPROVED") /\ x.status = "REJECTED" /\ x.was \in Request
                 /\ Adds(s, x.was.amount)
  <2>1. \A q, a : Ask(q, a).do = "ask"
    BY DEF Ask
  <2>2. \A q, st, was : /\ SaveRequest(q, st, was).do = "saveRequest" /\ SaveRequest(q, st, was).was = was
                        /\ SaveRequest(q, st, was).status = st
    BY DEF SaveRequest
  <2>3. \/ k = << >> /\ Adds(s, 0) /\ SameDay(s.was, s.row)
        \/ k = << >> /\ CountsOn(s)
        \/ /\ Adds(s, 0) /\ SameDay(s.was, s.row)
           /\ \E q \in Requests, a \in Amounts : k = <<Ask(q, a)>>
        \/ /\ SameDay(s.was, s.row)
           /\ \E q \in Requests, was \in Request :
                \/ /\ Opened(was, "PENDING") /\ Adds(s, 0 - was.amount)
                   /\ k = <<SaveRequest(q, "APPROVED", was)>>
                \/ /\ Opened(was, "APPROVED") /\ Adds(s, was.amount)
                   /\ k = <<SaveRequest(q, "REJECTED", was)>>
    BY <1>1, <1>2 DEF Follows
  <2> QED
    BY <2>1, <2>2, <2>3
<1>7. k = << >> \/ \E x : k = <<x>> /\ x.do \in {"ask", "saveRequest"}
  BY <1>6
<1>8. Counts(k) = {} /\ \A t \in Items(k) : t.do # "saveWallet"
  <2>1. \A t \in Items(k) : t.do # "saveWallet"
    <3>1. ASSUME NEW x, k = <<x>> PROVE Items(k) = {x}
      BY <3>1, OneItem
    <3> QED
      BY <1>7, <3>1, NoItems
  <2> QED
    BY <2>1 DEF Counts
<1>9. Planned(k) /\ Claimed(k) \subseteq Claimed(j)
  <2>1. Claimed(k) \subseteq Claimed(j)
    BY <1>2 DEF Claimed
  <2>2. CASE k = << >>
    BY <2>1, <2>2, NothingLeft
  <2>3. ASSUME NEW x, k = <<x>>, Follows(x, << >>)
        PROVE  Planned(k)
    <3>1. Head(k) = x /\ Tail(k) = << >>
      BY <2>3, OneItem
    <3> QED
      BY <2>3, <3>1 DEF Planned
  <2>4. ASSUME NEW x, x.do = "ask" PROVE Follows(x, << >>)
    BY <2>4 DEF Follows
  <2>5. ASSUME NEW x, x.do = "saveRequest",
               \/ Opened(x.was, "PENDING") /\ x.status = "APPROVED"
               \/ Opened(x.was, "APPROVED") /\ x.status = "REJECTED"
        PROVE  Follows(x, << >>)
    BY <2>5 DEF Follows
  <2> QED
    BY <1>6, <2>1, <2>2, <2>3, <2>4, <2>5
<1>10. \A g \in Handlers : Planned(job'[g])
  BY <1>4, <1>9, PlansKept DEF Orderly
<1>11. ClaimsRight'
  BY <1>1, <1>4, <1>9, ClaimsKept DEF Orderly, j
<1>12. SumsFinite' /\ SumsRight'
  <2>1. Taken(j) = 0 /\ Given(j) = 0 /\ Sent(j) = 0 /\ Received(j) = 0
    BY <1>1, <1>3, FirstTells
  <2>2. Sent(k) = 0 /\ Received(k) = 0
    <3>1. ASSUME NEW x, k = <<x>>, x.do \in {"ask", "saveRequest"}
          PROVE  Sent(k) = 0 /\ Received(k) = 0
      <4>1. k # << >> /\ Head(k) = x
        BY <3>1, OneItem
      <4> QED
        BY <3>1, <4>1, FirstTells
    <3> QED
      BY <1>7, <3>1, NothingLeft DEF Neutral
  <2>3. s.row.avail + s.row.cashback + Taken(k) = s.was.avail + s.was.cashback + Given(k)
    <3>1. CASE Adds(s, 0) /\ (k = << >> \/ \E x : k = <<x>> /\ x.do = "ask")
      <4>1. Taken(k) = 0 /\ Given(k) = 0
        <5>1. ASSUME NEW x, k = <<x>>, x.do = "ask" PROVE Taken(k) = 0 /\ Given(k) = 0
          <6>1. k # << >> /\ Head(k) = x
            BY <5>1, OneItem
          <6> QED
            BY <5>1, <6>1, FirstTells
        <5> QED
          BY <3>1, <5>1, NothingLeft DEF Neutral
      <4> QED
        BY <1>1, <1>5, <3>1, <4>1, Now DEF Adds
    <3>2. ASSUME NEW x, k = <<x>>, x.do = "saveRequest", x.was \in Request,
                 \/ Opened(x.was, "PENDING") /\ x.status = "APPROVED" /\ Adds(s, 0 - x.was.amount)
                 \/ Opened(x.was, "APPROVED") /\ x.status = "REJECTED" /\ Adds(s, x.was.amount)
          PROVE  s.row.avail + s.row.cashback + Taken(k) = s.was.avail + s.was.cashback + Given(k)
      <4>1. k # << >> /\ Head(k) = x
        BY <3>2, OneItem
      <4>2. /\ Taken(k) = IF x.status = "APPROVED" THEN x.was.amount ELSE 0
            /\ Given(k) = IF x.status = "REJECTED" /\ x.was.status = "APPROVED" THEN x.was.amount ELSE 0
        BY <3>2, <4>1, FirstTells
      <4>3. x.was.amount \in Int
        BY <3>2, Now DEF Request
      <4>4. /\ s.row.avail \in Int /\ s.row.cashback \in Int
            /\ s.was.avail \in Int /\ s.was.cashback \in Int
        BY <1>1, <1>5, Now
      <4>5. CASE Opened(x.was, "PENDING") /\ x.status = "APPROVED" /\ Adds(s, 0 - x.was.amount)
        <5>1. Taken(k) = x.was.amount /\ Given(k) = 0
          BY <4>2, <4>5
        <5> QED
          BY <4>3, <4>4, <4>5, <5>1 DEF Adds
      <4>6. CASE Opened(x.was, "APPROVED") /\ x.status = "REJECTED" /\ Adds(s, x.was.amount)
        <5>1. Taken(k) = 0 /\ Given(k) = x.was.amount
          BY <4>2, <4>6 DEF Opened
        <5> QED
          BY <4>3, <4>4, <4>6, <5>1 DEF Adds
      <4> QED
        BY <3>2, <4>5, <4>6
    <3> QED
      BY <1>6, <3>1, <3>2 DEF CountsOn
  <2>4. Taken(k) \in Nat /\ Given(k) \in Nat
    <3>1. (Taken(job[h]) \in Nat /\ Given(job[h]) \in Nat)'
      BY ListsCount, PTL
    <3> QED
      BY <1>4, <3>1, OneList
  <2>5. /\ wallet'.avail + wallet'.cashback + moved + Taken(k) + Given(j)
             = wallet.avail + wallet.cashback + moved' + Taken(j) + Given(k)
        /\ paidOut' + Sent(j) = paidOut + Sent(k)
        /\ paidIn' + Received(j) = paidIn + Received(k)
    <3>1. moved' = moved /\ moved \in Int /\ paidOut' = paidOut /\ paidIn' = paidIn
      BY <1>1, Now
    <3>2. wallet'.avail + wallet'.cashback + Taken(k) = wallet.avail + wallet.cashback + Given(k)
      BY <1>1, <2>3
    <3>3. wallet.avail \in Int /\ wallet.cashback \in Int
      BY Now
    <3> QED
      BY <1>5, <2>1, <2>2, <2>4, <3>1, <3>2, <3>3
  <2> QED
    BY <1>1, <1>4, <2>5, SumsShift DEF Orderly, j
<1>13. DaysRight' /\ CounterRight'
  <2>1. CASE SameDay(s.was, s.row)
    <3>1. SameDay(wallet', wallet)
      BY <1>1, <2>1 DEF SameDay
    <3>2. Counts(j) = {}
      <4>1. ~Earlier(s.was, s.row)
        BY <1>1, <1>5, <2>1, Now DEF Earlier, SameDay
      <4> QED
        BY <1>2, <1>8, <4>1 DEF Counts
    <3> QED
      BY <1>1, <1>4, <1>8, <3>1, <3>2, CounterKept DEF Orderly, j
  <2>2. CASE k = << >> /\ CountsOn(s)
    <3>1. Earlier(wallet, wallet') /\ Counts(j) = {s}
      BY <1>1, <1>2, <2>2, NoItems DEF CountsOn, Counts
    <3>2. job'[h] = << >> /\ \A g \in Handlers \ {h} : job'[g] = job[g]
      BY <1>4, <2>2, OneList
    <3>3. DaysRight'
      <4>1. s.row.day <= today
        BY <1>1, <1>2 DEF Orderly, DaysRight, j
      <4>2. \A g \in Handlers : \A t \in Items(job'[g]) : t.do = "saveWallet" => t.row.day <= today
        BY <3>2, NoItems DEF Orderly, DaysRight
      <4> QED
        BY <1>1, <4>1, <4>2 DEF DaysRight
    <3>4. \A g \in Handlers \ {h} : \A t \in Counts(job[g]) : Earlier(t.was, wallet') /\ ~Earlier(wallet', t.was)
      <4>1. ASSUME NEW g \in Handlers \ {h}, NEW t \in Counts(job[g])
            PROVE  Earlier(t.was, wallet') /\ ~Earlier(wallet', t.was)
        <5>1. ~Earlier(wallet, t.was)
          BY DEF Orderly, CounterRight
        <5>2. t.was.day \in Int /\ t.was.withdrawn \in Int
          BY SavesHoldWallets DEF Counts
        <5>3. /\ wallet'.day \in Int /\ wallet'.withdrawn \in Int /\ wallet.day \in Int
              /\ wallet.withdrawn \in Int
          BY <1>5, Now, WithdrawalAssumption
        <5> QED
          BY <3>1, <5>1, <5>2, <5>3 DEF Earlier
      <4> QED
        BY <4>1
    <3>5. \A g \in Handlers : \A t \in Counts(job'[g]) : ~Earlier(wallet', t.was)
      BY <3>2, <3>4, NothingLeft
    <3>6. ASSUME \A g \in Handlers : ~Lost(wallet', job'[g])
          PROVE  /\ \A g \in Handlers : Counts(job'[g]) = {}
                 /\ wallet'.withdrawn = completed'
      <4>1. \A g \in Handlers \ {h} : Counts(job[g]) = {}
        BY <3>2, <3>4, <3>6 DEF Lost
      <4>2. \A g \in Handlers : Counts(job'[g]) = {}
        BY <3>2, <4>1, NothingLeft
      <4>3. \A g \in Handlers : ~Lost(wallet, job[g])
        <5>1. ~Earlier(wallet, wallet)
          BY Now DEF Earlier
        <5> QED
          BY <1>1, <3>1, <4>1, <5>1 DEF Lost, j
      <4>4. s.row.withdrawn = completed
        BY <3>1, <4>1, <4>3 DEF Orderly, CounterRight, j
      <4> QED
        BY <1>1, <4>2, <4>4
    <3>7. CounterRight'
      BY <3>5, <3>6 DEF CounterRight
    <3> QED
      BY <3>3, <3>7
  <2> QED
    BY <1>6, <2>1, <2>2
<1> QED
  BY <1>10, <1>11, <1>12, <1>13 DEF Orderly

(* A step that moves money between the wallet, the provider and the list.  *)
LEMMA MoneyOrderly ==
  ASSUME Inductive, Inductive', Orderly,
         NEW h \in Handlers, job[h] # << >>, job' = [job EXCEPT ![h] = Tail(job[h])],
         Head(job[h]).do # "saveWallet",
         request' = request, today' = today, completed' = completed, SameDay(wallet', wallet),
         Planned(Tail(job[h])),
         wallet'.avail + wallet'.cashback + moved + Taken(Tail(job[h])) + Given(job[h])
           = wallet.avail + wallet.cashback + moved' + Taken(job[h]) + Given(Tail(job[h])),
         paidOut' + Sent(job[h]) = paidOut + Sent(Tail(job[h])),
         paidIn' + Received(job[h]) = paidIn + Received(Tail(job[h]))
  PROVE  Orderly'
<1> DEFINE k == Tail(job[h])
<1>1. Items(job[h]) = {Head(job[h])} \cup Items(k)
  BY StepTaken DEF Orderly
<1>2. Claimed(k) \subseteq Claimed(job[h])
  BY <1>1 DEF Claimed
<1>3. Counts(k) = Counts(job[h])
  BY <1>1 DEF Counts
<1>4. \A t \in Items(k) : t.do = "saveWallet" => t.row.day <= today
  BY <1>1 DEF Orderly, DaysRight
<1> HIDE DEF k
<1>5. job' = [job EXCEPT ![h] = k] /\ Planned(k)
  BY DEF k
<1>6. \A g \in Handlers : Planned(job'[g])
  BY <1>5, PlansKept DEF Orderly
<1>7. ClaimsRight'
  BY <1>2, <1>5, ClaimsKept DEF Orderly
<1>8. SumsFinite' /\ SumsRight'
  BY <1>5, SumsShift DEF Orderly, k
<1>9. DaysRight' /\ CounterRight'
  BY <1>3, <1>4, <1>5, CounterKept DEF Orderly
<1> QED
  BY <1>6, <1>7, <1>8, <1>9 DEF Orderly

(* The provider pays out what is then debited and booked. *)
LEMMA PayOutOrderly ==
  ASSUME Inductive, Inductive', Orderly, NEW h \in Handlers, DoPayOut(h)
  PROVE  Orderly'
<1> DEFINE j == job[h]
           s == Head(j)
           k == Tail(j)
<1>1. /\ j # << >> /\ s.do = "payOut" /\ paidOut' = paidOut + s.a
      /\ wallet' = wallet /\ request' = request /\ today' = today
      /\ moved' = moved /\ paidIn' = paidIn /\ completed' = completed
      /\ job' = [job EXCEPT ![h] = << >> \o k]
  BY DEF DoPayOut, Doing, Advance, Then
<1>2. Follows(s, k) /\ s \in Todo(Existing) /\ << >> \o k = k
  BY <1>1, StepTaken DEF Orderly
<1>3. s = Head(j) /\ k = Tail(j)
  OBVIOUS
<1> HIDE DEF s, k
<1>4. PICK q \in Requests : k = <<Debit(s.a, s.was), Insert(q, s.a, TRUE)>> /\ s.was.avail >= s.a
  BY <1>1, <1>2 DEF Follows
<1>5. /\ k # << >> /\ Head(k) = Debit(s.a, s.was) /\ Tail(k) = <<Insert(q, s.a, TRUE)>>
  BY <1>4, TwoItems
<1>6. /\ Debit(s.a, s.was).do = "debit" /\ Debit(s.a, s.was).a = s.a /\ Debit(s.a, s.was).was = s.was
  BY DEF Debit
<1>7. Follows(Debit(s.a, s.was), <<Insert(q, s.a, TRUE)>>)
  BY <1>4, <1>6 DEF Follows
<1>8. Planned(k)
  BY <1>5, <1>7 DEF Planned
<1>9. /\ Taken(j) = 0 /\ Given(j) = 0 /\ Sent(j) = 0 /\ Received(j) = 0
      /\ Taken(k) = 0 /\ Given(k) = 0 /\ Sent(k) = s.a /\ Received(k) = 0
  BY <1>1, <1>3, <1>5, <1>6, FirstTells
<1>10. s.a \in Nat
  BY <1>1, <1>2, StepsCount
<1>11. /\ wallet'.avail + wallet'.cashback + moved + Taken(k) + Given(j)
            = wallet.avail + wallet.cashback + moved' + Taken(j) + Given(k)
       /\ paidOut' + Sent(j) = paidOut + Sent(k)
       /\ paidIn' + Received(j) = paidIn + Received(k)
  BY <1>1, <1>9, <1>10, Now
<1>12. SameDay(wallet', wallet)
  BY <1>1 DEF SameDay
<1>13. job' = [job EXCEPT ![h] = k] /\ s.do # "saveWallet"
  BY <1>1, <1>2
<1> QED
  BY <1>1, <1>3, <1>8, <1>11, <1>12, <1>13, MoneyOrderly DEF j

(* WalletService debits what the provider has paid out.  It refuses only   *)
(* what another has taken since.                                           *)
LEMMA DebitOrderly ==
  ASSUME Inductive, Inductive', Orderly, NEW h \in Handlers, DoDebit(h), ~disturbed'
  PROVE  Orderly'
<1> DEFINE j == job[h]
           s == Head(j)
           k == Tail(j)
<1>1. /\ j # << >> /\ s.do = "debit"
      /\ request' = request /\ today' = today
      /\ paidOut' = paidOut /\ paidIn' = paidIn /\ completed' = completed
      /\ \/ /\ wallet.avail >= s.a
            /\ wallet' = [wallet EXCEPT !.avail = @ - s.a] /\ moved' = moved - s.a
            /\ job' = [job EXCEPT ![h] = << >> \o k]
         \/ ~(wallet.avail >= s.a) /\ wallet = s.was
  BY DEF DoDebit, Doing, Advance, Then, Disturb
<1>2. Follows(s, k) /\ s \in Todo(Existing) /\ << >> \o k = k
  BY <1>1, StepTaken DEF Orderly
<1>3. s = Head(j) /\ k = Tail(j)
  OBVIOUS
<1> HIDE DEF s, k
<1>4. PICK q \in Requests : k = <<Insert(q, s.a, TRUE)>> /\ s.was.avail >= s.a
  BY <1>1, <1>2 DEF Follows
<1>5. /\ wallet' = [wallet EXCEPT !.avail = @ - s.a] /\ moved' = moved - s.a
      /\ job' = [job EXCEPT ![h] = k]
  BY <1>1, <1>2, <1>4
<1>6. /\ k # << >> /\ Head(k) = Insert(q, s.a, TRUE) /\ Tail(k) = << >>
  BY <1>4, OneItem
<1> DEFINE i == Insert(q, s.a, TRUE)
<1>7. /\ i.do = "insert" /\ i.row.gateway /\ i.row.amount = s.a /\ i.row.status = "COMPLETED"
  BY DEF Insert
<1>8. Head(k) = i
  BY <1>6
<1> HIDE DEF i
<1>9. Planned(k)
  BY <1>6, <1>7, <1>8 DEF Planned, Follows
<1>10. /\ Taken(j) = 0 /\ Given(j) = 0 /\ Sent(j) = s.a /\ Received(j) = 0
       /\ Taken(k) = 0 /\ Given(k) = 0 /\ Sent(k) = s.a /\ Received(k) = 0
  BY <1>1, <1>3, <1>6, <1>7, <1>8, FirstTells
<1>11. s.a \in Nat
  BY <1>1, <1>2, StepsCount
<1>12. /\ wallet'.avail = wallet.avail - s.a /\ wallet'.cashback = wallet.cashback
       /\ SameDay(wallet', wallet)
  BY <1>5, Now DEF Wallet, SameDay
<1>13. /\ wallet'.avail + wallet'.cashback + moved + Taken(k) + Given(j)
            = wallet.avail + wallet.cashback + moved' + Taken(j) + Given(k)
       /\ paidOut' + Sent(j) = paidOut + Sent(k)
       /\ paidIn' + Received(j) = paidIn + Received(k)
  BY <1>1, <1>5, <1>10, <1>11, <1>12, Now
<1>14. s.do # "saveWallet"
  BY <1>1
<1> QED
  BY <1>1, <1>3, <1>5, <1>9, <1>12, <1>13, <1>14, MoneyOrderly DEF j

LEMMA TakeInOrderly ==
  ASSUME Inductive, Inductive', Orderly, NEW h \in Handlers, DoTakeIn(h)
  PROVE  Orderly'
<1> DEFINE j == job[h]
           s == Head(j)
           k == Tail(j)
<1>1. /\ j # << >> /\ s.do = "takeIn" /\ paidIn' = paidIn + s.a
      /\ wallet' = wallet /\ request' = request /\ today' = today
      /\ moved' = moved /\ paidOut' = paidOut /\ completed' = completed
      /\ job' = [job EXCEPT ![h] = << >> \o k]
  BY DEF DoTakeIn, Doing, Advance, Then
<1>2. Follows(s, k) /\ s \in Todo(Existing) /\ << >> \o k = k
  BY <1>1, StepTaken DEF Orderly
<1>3. s = Head(j) /\ k = Tail(j)
  OBVIOUS
<1> HIDE DEF s, k
<1> DEFINE c == Credit(s.a)
<1>4. k = <<c>>
  BY <1>1, <1>2 DEF Follows
<1>5. /\ k # << >> /\ Head(k) = c /\ Tail(k) = << >>
  BY <1>4, OneItem
<1>6. c.do = "credit" /\ c.a = s.a
  BY DEF Credit
<1> HIDE DEF c
<1>7. Planned(k)
  BY <1>5, <1>6 DEF Planned, Follows
<1>8. /\ Taken(j) = 0 /\ Given(j) = 0 /\ Sent(j) = 0 /\ Received(j) = 0
      /\ Taken(k) = 0 /\ Given(k) = 0 /\ Sent(k) = 0 /\ Received(k) = s.a
  BY <1>1, <1>3, <1>5, <1>6, FirstTells
<1>9. s.a \in Nat
  BY <1>1, <1>2, StepsCount
<1>10. /\ wallet'.avail + wallet'.cashback + moved + Taken(k) + Given(j)
            = wallet.avail + wallet.cashback + moved' + Taken(j) + Given(k)
       /\ paidOut' + Sent(j) = paidOut + Sent(k)
       /\ paidIn' + Received(j) = paidIn + Received(k)
  BY <1>1, <1>8, <1>9, Now
<1>11. SameDay(wallet', wallet)
  BY <1>1 DEF SameDay
<1>12. job' = [job EXCEPT ![h] = k] /\ s.do # "saveWallet"
  BY <1>1, <1>2
<1> QED
  BY <1>1, <1>3, <1>7, <1>10, <1>11, <1>12, MoneyOrderly DEF j

LEMMA CreditOrderly ==
  ASSUME Inductive, Inductive', Orderly, NEW h \in Handlers, DoCredit(h)
  PROVE  Orderly'
<1> DEFINE j == job[h]
           s == Head(j)
           k == Tail(j)
<1>1. /\ j # << >> /\ s.do = "credit" /\ paidIn' = paidIn - s.a /\ moved' = moved + s.a
      /\ wallet' = [wallet EXCEPT !.avail = @ + s.a]
      /\ request' = request /\ today' = today /\ paidOut' = paidOut /\ completed' = completed
      /\ job' = [job EXCEPT ![h] = << >> \o k]
  BY DEF DoCredit, Doing, Advance, Then
<1>2. Follows(s, k) /\ s \in Todo(Existing) /\ << >> \o k = k
  BY <1>1, StepTaken DEF Orderly
<1>3. s = Head(j) /\ k = Tail(j)
  OBVIOUS
<1> HIDE DEF s, k
<1>4. k = << >>
  BY <1>1, <1>2 DEF Follows
<1>5. /\ Taken(j) = 0 /\ Given(j) = 0 /\ Sent(j) = 0 /\ Received(j) = s.a
  BY <1>1, <1>3, FirstTells
<1>6. Planned(k) /\ Taken(k) = 0 /\ Given(k) = 0 /\ Sent(k) = 0 /\ Received(k) = 0
  BY <1>4, NothingLeft DEF Neutral
<1>7. s.a \in Nat
  BY <1>1, <1>2, StepsCount
<1>8. /\ wallet'.avail = wallet.avail + s.a /\ wallet'.cashback = wallet.cashback
      /\ SameDay(wallet', wallet)
  BY <1>1, Now DEF Wallet, SameDay
<1>9. /\ wallet'.avail + wallet'.cashback + moved + Taken(k) + Given(j)
           = wallet.avail + wallet.cashback + moved' + Taken(j) + Given(k)
      /\ paidOut' + Sent(j) = paidOut + Sent(k)
      /\ paidIn' + Received(j) = paidIn + Received(k)
  <2>1. /\ wallet.avail \in Int /\ wallet.cashback \in Int
        /\ moved \in Int /\ paidOut \in Int /\ paidIn \in Int
    BY Now
  <2>2. wallet'.avail + wallet'.cashback + moved = wallet.avail + wallet.cashback + moved'
    BY <1>1, <1>7, <1>8, <2>1
  <2>3. paidIn' + s.a = paidIn
    BY <1>1, <1>7, <2>1
  <2>4. moved' \in Int /\ paidIn' \in Int /\ wallet'.avail \in Int /\ wallet'.cashback \in Int
    BY <1>1, <1>7, <1>8, <2>1
  <2> QED
    BY <1>1, <1>5, <1>6, <1>7, <2>1, <2>2, <2>3, <2>4
<1>10. job' = [job EXCEPT ![h] = k] /\ s.do # "saveWallet"
  BY <1>1, <1>2
<1> QED
  BY <1>1, <1>3, <1>6, <1>8, <1>9, <1>10, MoneyOrderly DEF j

(* WalletService moves money, days pass, nothing happens. *)
LEMMA OutsideOrderly ==
  ASSUME Inductive, Inductive', Orderly, WalletMoves \/ NewDay \/ UNCHANGED vars
  PROVE  Orderly'
<1>1. /\ job' = job /\ request' = request
      /\ paidOut' = paidOut /\ paidIn' = paidIn /\ completed' = completed
  BY DEF WalletMoves, NewDay, vars, books
<1>2. /\ wallet'.cashback = wallet.cashback /\ SameDay(wallet', wallet)
      /\ wallet'.avail + moved = wallet.avail + moved'
  <2>1. CASE WalletMoves
    <3>1. PICK a \in Amounts, sign \in {1, -1} :
            /\ wallet' = [wallet EXCEPT !.avail = @ + sign * a]
            /\ moved' = moved + sign * a
      BY <2>1 DEF WalletMoves
    <3> DEFINE m == sign * a
    <3>2. m \in Int
      <4>1. a \in Int /\ (sign = 1 \/ sign = -1)
        BY Now
      <4>2. CASE sign = 1
        BY <4>1, <4>2
      <4>3. CASE sign = -1
        BY <4>1, <4>3
      <4> QED
        BY <4>1, <4>2, <4>3
    <3>3. wallet' = [wallet EXCEPT !.avail = wallet.avail + m] /\ moved' = moved + m
      BY <3>1
    <3> HIDE DEF m
    <3>4. wallet'.cashback = wallet.cashback /\ SameDay(wallet', wallet) /\ wallet'.avail = wallet.avail + m
      BY <3>3, Now DEF Wallet, SameDay
    <3> QED
      BY <3>2, <3>3, <3>4, Now
  <2>2. CASE NewDay \/ UNCHANGED vars
    <3>1. wallet' = wallet /\ moved' = moved
      BY <2>2 DEF NewDay, vars, books
    <3> QED
      BY <3>1 DEF SameDay
  <2> QED
    BY <2>1, <2>2
<1>3. today' \in Int /\ today' >= today
  BY Now DEF WalletMoves, NewDay, vars
<1>4. \A g \in Handlers : Planned(job'[g])
  BY <1>1 DEF Orderly
<1>5. ClaimsRight'
  <2>1. Existing' = Existing
    BY <1>1 DEF Existing, Exists
  <2> QED
    BY <1>1, <2>1 DEF Orderly, ClaimsRight, Exists
<1>6. SumsFinite'
  BY <1>1 DEF Orderly, SumsFinite
<1>7. SumsRight'
  <2>1. (wallet.avail \in Int /\ wallet.cashback \in Int /\ moved \in Int)'
    BY Now, PTL
  <2>2. wallet'.avail + wallet'.cashback + Total(DrawnOf(request), Requests) + Total(TakenOf(job), Handlers)
          = moved' + OpeningCash + Total(GivenOf(job), Handlers)
    <3>1. wallet.avail + wallet.cashback + Total(DrawnOf(request), Requests) + Total(TakenOf(job), Handlers)
            = moved + OpeningCash + Total(GivenOf(job), Handlers)
      BY DEF Orderly, SumsRight
    <3> QED
      BY <1>2, <2>1, <3>1, TotalsCount, Now, WithdrawalAssumption DEF Orderly
  <2> QED
    BY <1>1, <2>2 DEF Orderly, SumsRight
<1>8. wallet'.day = wallet.day /\ wallet'.withdrawn = wallet.withdrawn
  BY <1>2 DEF SameDay
<1>9. DaysRight'
  <2>1. \A g \in Handlers : \A t \in Items(job[g]) : t.do = "saveWallet" => t.row.day <= today'
    <3>1. ASSUME NEW g \in Handlers, NEW t \in Items(job[g]), t.do = "saveWallet"
          PROVE  t.row.day <= today'
      <4>1. t.row.day <= today
        BY <3>1 DEF Orderly, DaysRight
      <4>2. t.row.day \in Int
        BY <3>1, SavesHoldWallets
      <4> QED
        BY <1>3, <4>1, <4>2, Now
    <3> QED
      BY <3>1
  <2>2. wallet'.day <= today'
    BY <1>3, <1>8, Now DEF Orderly, DaysRight
  <2> QED
    BY <1>1, <2>1, <2>2 DEF DaysRight
<1>10. CounterRight'
  <2>1. \A v : /\ Earlier(wallet', v) <=> Earlier(wallet, v)
               /\ Earlier(v, wallet') <=> Earlier(v, wallet)
    BY <1>8 DEF Earlier
  <2>2. \A g \in Handlers : Lost(wallet', job[g]) <=> Lost(wallet, job[g])
    BY <2>1 DEF Lost
  <2> QED
    BY <1>1, <1>8, <2>1, <2>2 DEF Orderly, CounterRight
<1> QED
  BY <1>4, <1>5, <1>6, <1>7, <1>9, <1>10 DEF Orderly

LEMMA InitOrderly == Init => Orderly
<1> SUFFICES ASSUME Init PROVE Orderly
  OBVIOUS
<1>1. \A h \in Handlers : job[h] = << >>
  BY DEF Init
<1>2. \A q \in Requests : request[q] = NoRequest
  BY DEF Init
<1>3. Existing = {}
  BY <1>2 DEF Existing, Exists
<1>4. ClaimsRight
  BY <1>1, <1>3, NothingLeft, FS_EmptySet DEF ClaimsRight
<1>5. /\ \A h \in Handlers : /\ TakenOf(job)[h] = 0 /\ GivenOf(job)[h] = 0
                             /\ SentOf(job)[h] = 0 /\ ReceivedOf(job)[h] = 0
      /\ \A q \in Requests : DrawnOf(request)[q] = 0 /\ SoldOf(request)[q] = 0
  <2>1. Taken(<< >>) = 0 /\ Given(<< >>) = 0 /\ Sent(<< >>) = 0 /\ Received(<< >>) = 0
    BY NothingLeft DEF Neutral
  <2>2. Drawn(NoRequest) = 0 /\ Sold(NoRequest) = 0
    BY DEF Drawn, Sold
  <2> QED
    BY <1>1, <1>2, <2>1, <2>2 DEF TakenOf, GivenOf, SentOf, ReceivedOf, DrawnOf, SoldOf
<1>6. SumsFinite
  BY <1>5, TotalOfNothing DEF SumsFinite
<1>7. /\ Total(TakenOf(job), Handlers) = 0 /\ Total(GivenOf(job), Handlers) = 0
      /\ Total(SentOf(job), Handlers) = 0 /\ Total(ReceivedOf(job), Handlers) = 0
      /\ Total(DrawnOf(request), Requests) = 0 /\ Total(SoldOf(request), Requests) = 0
  BY <1>5, TotalOfNothing
<1>8. SumsRight
  BY <1>7, WithdrawalAssumption DEF Init, SumsRight
<1>9. DaysRight
  BY <1>1, NoItems DEF Init, DaysRight
<1>10. CounterRight
  BY <1>1, NothingLeft DEF Init, CounterRight
<1> QED
  BY <1>1, <1>4, <1>6, <1>8, <1>9, <1>10, NothingLeft DEF Orderly

LEMMA NextOrderly ==
  Inductive /\ OrderlyUntilDisturbed /\ [Next]_vars => OrderlyUntilDisturbed'
<1> SUFFICES ASSUME Inductive, OrderlyUntilDisturbed, [Next]_vars, ~disturbed'
             PROVE  Orderly'
  BY DEF OrderlyUntilDisturbed
<1>1. Inductive'
  BY NextInductive
<1>2. ASSUME NEW h \in Handlers, Break(h) PROVE FALSE
  BY <1>2 DEF Break, Disturb
<1>3. ~disturbed
  <2>1. ASSUME NEW h \in Handlers, Call(h) PROVE ~disturbed
    <3>1. ASSUME NEW k, Begin(h, k) PROVE ~disturbed
      BY <3>1 DEF Begin
    <3>2. \E k : Begin(h, k)
      <4>1. ASSUME NEW q \in Requests, NEW a \in Amounts,
                   RequestWithdrawal(h, q, a) \/ Cashback(h, q, a) \/ Withdraw(h, q, a)
            PROVE  \E k : Begin(h, k)
        BY <4>1 DEF RequestWithdrawal, Cashback, Withdraw
      <4>2. ASSUME NEW q \in Requests,
                   ApproveWithdrawal(h, q) \/ RejectWithdrawal(h, q) \/ CompleteWithdrawal(h, q)
            PROVE  \E k : Begin(h, k)
        BY <4>2 DEF ApproveWithdrawal, RejectWithdrawal, CompleteWithdrawal
      <4>3. ASSUME NEW a \in Amounts, Deposit(h, a) PROVE \E k : Begin(h, k)
        BY <4>3 DEF Deposit
      <4>4. CASE SaveIban(h)
        BY <4>4 DEF SaveIban
      <4> QED
        BY <2>1, <4>1, <4>2, <4>3, <4>4 DEF Call
    <3> QED
      BY <3>1, <3>2
  <2>2. ASSUME NEW h \in Handlers, Step(h) PROVE ~disturbed
    BY <2>2 DEF Step, DoAsk, DoCheckMonth, DoInsert, DoApprove, DoRefund, DoComplete, DoSaveWallet,
       DoSaveRequest, DoPayOut, DoDebit, DoTakeIn, DoCredit, Disturb
  <2>3. CASE WalletMoves \/ NewDay \/ UNCHANGED vars
    BY <2>3 DEF WalletMoves, NewDay, vars
  <2> QED
    BY <1>2, <2>1, <2>2, <2>3 DEF Next
<1>4. Orderly
  BY <1>3 DEF OrderlyUntilDisturbed
<1>5. ASSUME NEW h \in Handlers, Call(h) PROVE Orderly'
  BY <1>1, <1>4, <1>5, CallOrderly
<1>6. ASSUME NEW h \in Handlers, Step(h) PROVE Orderly'
  BY <1>1, <1>4, <1>6, AskOrderly, CheckMonthOrderly, InsertOrderly, ApproveOrderly, RefundOrderly,
     CompleteOrderly, SaveWalletOrderly, SaveRequestOrderly, PayOutOrderly, DebitOrderly,
     TakeInOrderly, CreditOrderly DEF Step
<1>7. CASE WalletMoves \/ NewDay \/ UNCHANGED vars
  BY <1>1, <1>4, <1>7, OutsideOrderly
<1> QED
  BY <1>2, <1>5, <1>6, <1>7 DEF Next

-----------------------------------------------------------------------------
(* The sum of the requests. *)

(* Few elements have few units. *)
LEMMA UnitsAreFinite ==
  ASSUME NEW S, IsFiniteSet(S), NEW f, \A x \in S : f[x] \in Nat
  PROVE  IsFiniteSet(Units(f, S))
<1> DEFINE some == {{x} \X (1 .. f[x]) : x \in S}
           give == [x \in S |-> {x} \X (1 .. f[x])]
<1>1. IsFiniteSet(some)
  <2>1. give \in Surjection(S, some)
    BY DEF Surjection
  <2> HIDE DEF give, some
  <2> QED
    BY <2>1, FS_Surjection
<1>2. ASSUME NEW s \in some
      PROVE  IsFiniteSet(s)
  <2>1. PICK x \in S : s = {x} \X (1 .. f[x])
    OBVIOUS
  <2> QED
    BY <2>1, UnitsOfOne
<1> QED
  BY <1>1, <1>2, FS_UNION DEF Units

Chosen(statuses, gateways) ==
  {q \in Requests : Exists(q) /\ request[q].status \in statuses /\ request[q].gateway \in gateways}

(* The recursion of the sum computes it: a smallest set on which it went   *)
(* wrong would have a smaller one.                                         *)
LEMMA SumIsTotal ==
  ASSUME NEW statuses, NEW gateways, NEW S, S = Chosen(statuses, gateways), IsFiniteSet(S),
         NEW f, \A q \in S : f[q] = request[q].amount /\ f[q] \in Nat
  PROVE  Withdrawn(statuses, gateways) = Total(f, S)
<1>1. ASSUME NEW B \in SUBSET (SUBSET S), B # {}
      PROVE  \E s \in B : \A t \in B : ~(t \subseteq s /\ t # s)
  <2>1. IsWellFoundedOn(StrictSubsetOrdering(S), SUBSET S)
    BY FS_StrictSubsetOrderingWellFounded, FS_FiniteSubsetsOfFinite
  <2>2. \E s \in B : \A t \in B : ~ (<<t, s>> \in StrictSubsetOrdering(S))
    BY <1>1, <2>1, WFMin
  <2> QED
    BY <2>2 DEF StrictSubsetOrdering
<1> DEFINE pick(s) == CHOOSE x \in s : TRUE
           Sums(g) == g = [s \in SUBSET S |->
                             IF s = {} THEN 0 ELSE request[pick(s)].amount + g[s \ {pick(s)}]]
           total == [s \in SUBSET S |-> Total(f, s)]
<1>2. Sums(total)
  <2> SUFFICES ASSUME NEW s \in SUBSET S
               PROVE  Total(f, s) = IF s = {} THEN 0
                                    ELSE request[pick(s)].amount + Total(f, s \ {pick(s)})
    OBVIOUS
  <2>1. CASE s = {}
    BY <2>1, TotalOfNothing
  <2>2. CASE s # {}
    <3> DEFINE x == pick(s)
    <3>1. x \in s
      BY <2>2
    <3> HIDE DEF x
    <3>2. IsFiniteSet(s \ {x}) /\ f[x] \in Nat /\ f[x] = request[x].amount
      BY <3>1, FS_Subset
    <3>3. \A y \in s \ {x} : f[y] \in Nat
      OBVIOUS
    <3>4. IsFiniteSet(Units(f, s \ {x}))
      BY <3>2, <3>3, UnitsAreFinite
    <3>5. Total(f, s \ {x}) \in Nat
      BY <3>4, FS_CardinalityType DEF Total
    <3>6. Total(f, s) = Total(f, s \ {x}) + f[x]
      <4>1. x \in s /\ f[x] \in Nat /\ IsFiniteSet(Units(f, s \ {x}))
        BY <3>1, <3>2, <3>4
      <4> HIDE DEF x
      <4> QED
        BY <4>1, TotalOfRest
    <3>7. Total(f, s) = request[x].amount + Total(f, s \ {x})
      BY <3>2, <3>5, <3>6
    <3> QED
      BY <2>2, <3>7 DEF x
  <2> QED
    BY <2>1, <2>2
<1> DEFINE iter == CHOOSE g : Sums(g)
<1>3. Sums(iter)
  <2> HIDE DEF Sums
  <2> QED
    BY <1>2
<1>4. Withdrawn(statuses, gateways) = iter[S]
  BY DEF Withdrawn, MapThenSumSet, MapThenFoldSet, Chosen
<1> HIDE DEF iter
<1>5. ASSUME NEW s \in SUBSET S PROVE iter[s] = Total(f, s)
  <2> DEFINE B == {t \in SUBSET S : iter[t] # Total(f, t)}
  <2> SUFFICES ASSUME B # {} PROVE FALSE
    OBVIOUS
  <2>1. B \in SUBSET (SUBSET S)
    OBVIOUS
  <2>2. PICK t \in B : \A u \in B : ~(u \subseteq t /\ u # t)
    <3> HIDE DEF B
    <3> QED
      BY <1>1, <2>1
  <2>3. CASE t = {}
    <3>1. iter[t] = 0 /\ total[t] = 0 /\ total[t] = Total(f, t)
      BY <1>2, <1>3, <2>2, <2>3
    <3> QED
      BY <2>2, <3>1
  <2>4. CASE t # {}
    <3>1. pick(t) \in t
      BY <2>4
    <3>2. iter[t] = request[pick(t)].amount + iter[t \ {pick(t)}]
      BY <1>3, <2>4
    <3>3. Total(f, t) = request[pick(t)].amount + Total(f, t \ {pick(t)})
      BY <1>2, <2>4
    <3> HIDE DEF pick
    <3>4. iter[t \ {pick(t)}] = Total(f, t \ {pick(t)})
      BY <2>2, <3>1
    <3> QED
      BY <2>2, <3>2, <3>3, <3>4
  <2> QED
    BY <2>3, <2>4
<1> QED
  BY <1>4, <1>5

(* What the users' requests and the provider's add up to. *)
LEMMA RequestsAddUp ==
  ASSUME Inductive, IsFiniteSet(Existing)
  PROVE  /\ Withdrawn({"APPROVED", "COMPLETED"}, {FALSE}) = Total(DrawnOf(request), Requests)
         /\ Withdrawn({"COMPLETED"}, {TRUE}) = Total(SoldOf(request), Requests)
<1>1. /\ \A st, gw : IsFiniteSet(Chosen(st, gw))
      /\ \A q \in Existing : request[q] \in Request
  <2>1. \A st, gw : Chosen(st, gw) \subseteq Existing
    BY DEF Chosen, Existing
  <2>2. \A q \in Existing : request[q] \in Request
    BY DEF Inductive, Typed, Existing, Exists
  <2> QED
    BY <2>1, <2>2, FS_Subset
<1>2. \A q \in Existing : /\ request[q].amount \in Nat /\ request[q].gateway \in BOOLEAN
                          /\ request[q].status \in WithdrawalStatuses
  BY <1>1, Now DEF Request
<1>3. ASSUME NEW f, NEW S \in SUBSET Requests, \A q \in Requests \ S : f[q] = 0
      PROVE  Total(f, S) = Total(f, Requests)
  <2>1. Units(f, S) = Units(f, Requests)
    <3>1. \A q \in Requests \ S : {q} \X (1 .. f[q]) = {}
      BY <1>3
    <3> QED
      BY <3>1 DEF Units
  <2> QED
    BY <2>1 DEF Total
<1>4. Withdrawn({"APPROVED", "COMPLETED"}, {FALSE}) = Total(DrawnOf(request), Requests)
  <2> DEFINE S == Chosen({"APPROVED", "COMPLETED"}, {FALSE})
             f == DrawnOf(request)
  <2>1. S \in SUBSET Requests /\ IsFiniteSet(S)
    BY <1>1 DEF Chosen
  <2>2. \A q \in S : f[q] = request[q].amount /\ f[q] \in Nat
    BY <1>2 DEF Chosen, DrawnOf, Drawn, Exists, Existing
  <2>3. \A q \in Requests \ S : f[q] = 0
    BY <1>2 DEF Chosen, DrawnOf, Drawn, Exists, Existing
  <2> HIDE DEF S, f
  <2>4. Withdrawn({"APPROVED", "COMPLETED"}, {FALSE}) = Total(f, S)
    BY <2>1, <2>2, SumIsTotal DEF S
  <2>5. Total(f, S) = Total(f, Requests)
    BY <1>3, <2>1, <2>3
  <2> QED
    BY <2>4, <2>5 DEF f
<1>5. Withdrawn({"COMPLETED"}, {TRUE}) = Total(SoldOf(request), Requests)
  <2> DEFINE S == Chosen({"COMPLETED"}, {TRUE})
             f == SoldOf(request)
  <2>1. S \in SUBSET Requests /\ IsFiniteSet(S)
    BY <1>1 DEF Chosen
  <2>2. \A q \in S : f[q] = request[q].amount /\ f[q] \in Nat
    BY <1>2 DEF Chosen, SoldOf, Sold, Exists, Existing
  <2>3. \A q \in Requests \ S : f[q] = 0
    BY <1>2 DEF Chosen, SoldOf, Sold, Exists, Existing
  <2> HIDE DEF S, f
  <2>4. Withdrawn({"COMPLETED"}, {TRUE}) = Total(f, S)
    BY <2>1, <2>2, SumIsTotal DEF S
  <2>5. Total(f, S) = Total(f, Requests)
    BY <1>3, <2>1, <2>3
  <2> QED
    BY <2>4, <2>5 DEF f
<1> QED
  BY <1>4, <1>5

-----------------------------------------------------------------------------
(* Theorems. *)

(* However many requests of one user overlap, every wallet that some       *)
(* handler is still to save was computed from a balance that covered it,   *)
(* and every request still to be saved is there.                           *)
THEOREM InductiveInvariant == Spec => []Inductive
BY InitInductive, NextInductive, PTL DEF Spec

(* The rows, and the steps each handler has left, keep their type; the     *)
(* request that approveWithdrawal and the like save is never missing.      *)
THEOREM TypeCorrect == Spec => []TypeOK
<1>1. Inductive => TypeOK
  <2> SUFFICES ASSUME Inductive PROVE TypeOK
    OBVIOUS
  <2>1. ASSUME NEW h \in Handlers, NEW i \in DOMAIN job[h]
        PROVE  /\ job[h][i].do \in Steps
               /\ job[h][i].do = "saveWallet" => job[h][i].row \in Wallet
               /\ job[h][i].do = "saveRequest" => Exists(job[h][i].q)
    <3>1. job[h][i] \in Todo(Existing)
      BY ElementOfSeq, LenProperties DEF Inductive, JobsRight
    <3>2. job[h][i].do = "saveWallet" => job[h][i].row \in Wallet
      BY <3>1, Kinds DEF SaveWallets
    <3>3. job[h][i].do = "saveRequest" => Exists(job[h][i].q)
      BY <3>1, Kinds DEF SaveRequests, Existing
    <3> QED
      BY <3>1, <3>2, <3>3, Kinds
  <2>2. disturbed \in BOOLEAN
    BY DEF Inductive, Typed
  <2> QED
    BY <2>1, <2>2 DEF Inductive, Typed, TypeOK
<1> QED
  BY <1>1, InductiveInvariant, PTL

(* approveWithdrawal, rejectWithdrawal, the cashback conversion and the    *)
(* bank account are saved over balances that may have moved since, and a   *)
(* payout may be overtaken: no balance becomes negative by it.             *)
THEOREM NeverNegative == Spec => []AvailableNeverNegative
<1>1. Inductive => AvailableNeverNegative
  BY DEF Inductive
<1> QED
  BY <1>1, InductiveInvariant, PTL

(* As long as no save falls on a changed row, no debit is overtaken and    *)
(* nothing breaks half way, each list of steps accounts for what it has    *)
(* done to one side of the books only: what approveWithdrawal has taken    *)
(* from the wallet or rejectWithdrawal given back, what the provider has   *)
(* sent or received; and of the saves that count up the day, all but one   *)
(* will fall on a changed row.                                             *)
THEOREM BooksInOrder == Spec => []OrderlyUntilDisturbed
<1>1. Init => OrderlyUntilDisturbed
  BY InitOrderly DEF OrderlyUntilDisturbed
<1> QED
  BY <1>1, InductiveInvariant, NextOrderly, PTL DEF Spec

(* However many operations overlap: while none has gone wrong, the books   *)
(* agree whenever none is under way.  The balance and the approved         *)
(* requests are what WalletService moved and what came from cashback, the  *)
(* provider paid out and took in what was booked, and the daily counter is *)
(* what was completed on the day of the last completion.                   *)
THEOREM BooksAgree == Spec => []BooksBalance
<1>1. Inductive /\ OrderlyUntilDisturbed => BooksBalance
  <2> SUFFICES ASSUME Inductive, OrderlyUntilDisturbed, Quiet, ~disturbed
               PROVE  /\ wallet.avail + Withdrawn({"APPROVED", "COMPLETED"}, {FALSE})
                           = moved + (OpeningCash - wallet.cashback)
                      /\ paidOut = Withdrawn({"COMPLETED"}, {TRUE})
                      /\ paidIn = 0
                      /\ wallet.withdrawn = completed
    BY DEF BooksBalance
  <2>1. Orderly
    BY DEF OrderlyUntilDisturbed
  <2>2. /\ \A h \in Handlers : /\ TakenOf(job)[h] = 0 /\ GivenOf(job)[h] = 0
                               /\ SentOf(job)[h] = 0 /\ ReceivedOf(job)[h] = 0
        /\ \A h \in Handlers : Counts(job[h]) = {}
    BY NothingLeft DEF Quiet, Neutral, TakenOf, GivenOf, SentOf, ReceivedOf
  <2>3. /\ Total(TakenOf(job), Handlers) = 0 /\ Total(GivenOf(job), Handlers) = 0
        /\ Total(SentOf(job), Handlers) = 0 /\ Total(ReceivedOf(job), Handlers) = 0
    BY <2>2, TotalOfNothing
  <2>4. /\ Withdrawn({"APPROVED", "COMPLETED"}, {FALSE}) = Total(DrawnOf(request), Requests)
        /\ Withdrawn({"COMPLETED"}, {TRUE}) = Total(SoldOf(request), Requests)
    BY <2>1, RequestsAddUp DEF Orderly, ClaimsRight
  <2>5. Total(DrawnOf(request), Requests) \in Nat /\ Total(SoldOf(request), Requests) \in Nat
    BY <2>1, TotalsCount DEF Orderly
  <2>6. wallet.avail + Total(DrawnOf(request), Requests) = moved + (OpeningCash - wallet.cashback)
    BY <2>1, <2>3, <2>5, Now, WithdrawalAssumption DEF Orderly, SumsRight
  <2>7. paidOut = Total(SoldOf(request), Requests) /\ paidIn = 0
    BY <2>1, <2>3, <2>5 DEF Orderly, SumsRight
  <2>8. wallet.withdrawn = completed
    BY <2>1, <2>2 DEF Orderly, CounterRight, Lost
  <2> QED
    BY <2>4, <2>6, <2>7, <2>8
<1> QED
  BY <1>1, InductiveInvariant, BooksInOrder, PTL
=============================================================================
