# A TLA+ model of the ilya freight platform

ilya (backend: `src/backend`, NestJS over PostgreSQL) matches shippers with
carriers and holds the price of a transport in escrow until the delivery is
proved. This directory models the part of it where money moves and where a load
is given away, checks it with TLC on small instances and proves the most
important results about it with TLAPS for every value of the constants.

## The system

| Part | State | Operations | What is hard |
|---|---|---|---|
| Wallet and ledger (`escrow/wallet.service.ts`) | `wallets`, `wallet_transactions` | credit, debit, lockEscrow, releaseEscrow, confirmRelease, recordCommission, getBalance | row locks, a unique index, a second connection taken inside each transaction |
| Escrow (`escrow/escrow.service.ts`) | `escrow_transactions`, `disputes` | create, pickup, release, milestones, disputes, automatic refund, scans, fraud review | several awaited writes per operation, no lock on the row, whole-row saves of stale reads |
| Outbox (`escrow/outbox.service.ts`) | `outbox_events` | emit, processPending, retryFailed, cleanOldEvents | timers that overlap within a process and across replicas, crashes |
| Proof of delivery (`pod/pod.service.ts`) | load status, signatures, disputes | saveSignature, saveDamageReport | check then act, an event lost on a crash |
| Payment gateway (`escrow/payment-gateway.service.ts`) | escrow row, wallet | deposit, withdraw, quick pay | a second listener of the delivery event; a provider called before the books |
| QR codes (`qr/qr.service.ts`) | `qr_codes` | generate, validate | single use is a check, then an act |
| Withdrawals (`escrow/withdrawal.service.ts`) | `withdrawal_requests`, wallet | request, approve, reject, complete, cashback, bank account | reads and saves the wallet without a lock |
| Bids, loads, return loads, carrier and shipper API | `bids`, `loads` | bid, accept, counter, book, reserve, expire, change status | several ways to take one load: conditional updates, a version, and saves of the whole row |
| Instant booking (`instant-booking/`) | `instant_bookings` | open, close, lock, confirm, release, expire | a conditional update beside whole-row saves and a timer |
| Billing and payment (`billing/`, `payment/`) | subscriptions, credits, payments, cards | purchase, cancel, renew, deduct, refund, charge | read, charge, save; the renewal job runs in every replica |
| Fraud, evidence, insurance, finance, GIB, UETDS, tracking, analytics, integrations, users | rows of their own | | little control; see "Not modelled" |

How they interact. A bid, a booking or the carrier API takes a load and creates
an escrow; EscrowService locks the amount through WalletService. A QR scan, the
release endpoint or a signed delivery releases it: PodService emits
`delivery.completed.verified`, and both EscrowService and PaymentGatewayService
listen. WalletService and EscrowService put events into the outbox, whose
worker hands them to the in-process emitter and the web sockets.
WithdrawalService and the payment gateway move money between the wallet and a
provider. Five backend replicas run in production (`k8s/values-prod.yaml:46`),
each with its own timers.

Three facts about the platform shape every module:

- `repository.save(entity)` of an entity read earlier is two statements: a
  SELECT of the row as it is now, and an UPDATE of the columns in which the
  entity differs from it. A save therefore puts back the old values of columns
  others have changed by the time of its SELECT, and leaves alone those they
  change after it. See "How a save is modelled".
- Transactions run at READ COMMITTED, and only WalletService uses them. Outside
  a transaction, each awaited call is a step after which others may run.
- Listeners of the event emitter start without being waited for, and timers
  start again whether or not the last run has ended.

The schema is the one the entities declare (`migrations/` holds a template).

## Modules

```
WalletData <- AtomicLedger <- (refined by) WalletService <- WalletServiceProofs
EscrowService <- DeliveryRelease <- QrScan          EscrowService <- EscrowServiceProofs
Outbox <- OutboxProofs       LoadBooking <- LoadBookingProofs
Withdrawal <- WithdrawalProofs   Billing <- BillingProofs
InstantBooking <- InstantBookingProofs   QrScan <- QrScanProofs
```

`MC<module>` gives each a small instance for TLC.

`WalletData` holds the rows, the requests and what each operation does to a
wallet. `AtomicLedger` is the abstract specification: an operation happens at
one instant on the balances of that instant, together with its ledger row, and
a key or a call leaves at most one row. A commission row shows a balance of any
value, because recordCommission reads it without a lock; the promise is no
stronger.

`WalletService` is the code. A handler's transaction is a sequence of steps
(`pc[h]`): take a connection (`Connect`), look the key up (`CheckNew`,
`CheckExisting`), lock the row, test and save (`LockMissing`, `LockRefused`,
`LockAndSave`; `ReadForCommission` takes no lock), insert the ledger row
(`InsertRow`, `InsertDuplicate`), write the audit and outbox rows on a second
connection (`WriteAudit`, `WriteOutbox`, `PoolTimeout`) and commit (`Commit`,
whose answer may be lost). `Abort` is a failure anywhere. `wallet` and `ledger`
are committed state; `tx[h]` is what h has written and nobody else sees. The
row lock and the uncommitted key are read off the steps (`HoldsRow`,
`HoldsKey`).

The modules below share one form. Outside WalletService an operation has no
transaction: it is the list of awaited steps that its handler has left
(`job[h]`), made one at a time, with every other handler in between. What an
operation read is recorded in the steps it plans: a save carries the row as it
was read and changed, a conditional update names its condition. `Break`
is an exception, a lost connection or a crash between two steps. Variables
marked "history" are read by no action; they are what the properties speak of.

`EscrowService` has every operation of the service. Wallet calls are atomic
here, which is what `WalletService` is shown to provide. The fraud tier, the
kind of a resolution and the decision of a review are free. Left out are the
writes nobody reads here (notifications, audit, the outbox rows after the last
save) and a partial refund above the amount, which would credit the carrier
with a negative amount and so break the precondition of the wallet (a hazard in
`PROJECT.json`).

`DeliveryRelease` extends it with the signatures, the delivery event and its
two listeners. handleDeliveryCompletedVerified reads twice (`FindBlocked`,
`ReleaseOnDelivery`); handleQuickPay settles the row and then moves the money
(`HandleQuickPay`, `DoQuickConfirm`). `QrScan` extends that with the codes: a
scan checks the code, saves it as used, and only then does what its checkpoint
does to the escrow (`CheckCode`, `SaveUsed`, `ProcessQrScan`). The two together
are every way in which an escrow is paid without a person deciding so.

`Outbox` has the runs of processPending and retryFailed as processes that hold
copies of rows (`batch[w]`, `requeue[r]`) and overwrite the table with them.
`older` is the order of `updatedAt`, which retryFailed follows; `Die` is a
crash or a failing save outside the try; `lost` is history.

`LoadBooking` is one load, its bids, and everything that takes or saves the
row: BidsService, the conditional update of LoadsService.instantBook, the
carrier API with its state machine (eight shipment states kept in four of a
load, `ShipmentState` and `LoadStatus`), the delivery, the shipper API,
issuePolicy, and the reservations of return loads, which compare a version that
no save respects (`loads/load.entity.ts:268` is a plain column). A reservation
is known by the order in which it was granted. Auctions and the shipper's own
loads, which instantBook refuses, are left out: the model refuses less.

`InstantBooking` is the other instant booking, of
`instant-booking/instant-booking.service.ts`: the row of one load, opened by
the shipper, locked for five minutes by the first carrier to ask, confirmed or
released, or expired by a job. A confirmation is recorded with the carrier who
made it (`confirmed`). It does not meet `LoadBooking`: its event
`load.instant-booked` has no listener.

`Withdrawal` is one wallet row under WithdrawalService, which reads and saves
it without a lock, the payment gateway's deposit and withdraw, which call the
provider before they book, and WalletService's movements (`WalletMoves`,
atomic). Requests fall into one month; days pass (`NewDay`).

`Billing` is one user's subscriptions, credits and card. A charge is a step
that goes on with one of two lists (`Charge(what, yes, no)`): insert the
payment, call the provider, record the answer, each of which may be the last
thing that happens. The renewal job reads the subscriptions that are due, in
any order, and charges each in turn; what is thrown while it renews one is
caught, and it goes on with the next (`Skip`). The history variable `used` adds
up what the deductions that were stored took, whatever the row says of it.

Each module holds, beside its definitions, the mutated ones that stand for
plausible bugs and show that the properties can fail; they are used by nothing
else and marked `Mutant`.

### How a save is modelled

Where two saves of one row can leave a row that neither of them was to store,
and a property relates columns of that row, a save is its two statements:
`InstantBooking` (`DoSave` plans an update against the row it saw, `DoUpdate`
writes the columns that differ, `Written`) and `Billing` (`DoSaveSub`,
`DoUpdateSub`, `DoSaveCredit`, `DoUpdateCredit`). The history variable `mixed`
records that a row was stored which is not the one its save was to store.

The other modules store the row that was read, changed, in one step. That is a
stronger overwrite than the code's; but for the two cases named below, what
their properties say of the rows does not tell the two apart:

- `EscrowService` and those above it: what a row claims is compared with money
  that has moved, one column at a time (the status, the milestones counted),
  and a column always holds what some save has stored. A status that says
  settled was paid for by the save that stored it, whichever columns stand
  beside it.
- `Outbox`: the same, for the status and the count of a row; a run owns a row
  by its status alone.
- `Withdrawal`: every stored balance is tested by the operation that computed
  it; `BooksBalance` is claimed only until a save falls on a changed row
  (`disturbed`). A row that changes and changes back between the two
  statements is not explored.
- `LoadBooking`: the market's status, the bids and the version are each
  compared with what was done to them, and `wiped` records every stale save
  that removes a reservation or brings a version back. `UnderWayToChosen` alone
  relates two columns of the load, its status and its receiver. To mix them
  into a load under way whose receiver nobody chose takes four operations that
  overlap within the two statements of a save, and is not explored.
- `QrScan`: the code row has one column that changes. A scan looks at the
  escrow when it turns to it and again when it releases it
  (`escrow.service.ts:469`, `:162`); the model looks once.

## What the runs check

| Run | Instance | Distinct states |
|---|---|---|
| `wallet` | one wallet, two handlers, pool of 2, three calls, six requests with a shared key and without a key | 107,252 |
| `escrow` | a milestone escrow and a single payment on one deposit, two handlers, five operations | 975,469 |
| `outbox` | two events, two workers, one retry job, three retries, one fault | 234,342 |
| `delivery` | one escrow, one code, two overlapping scans, two signatures, two handlers, four operations, quick pay on | 1,017,759 |
| `booking` | two carriers with a bid each, two handlers, four operations | 1,594,962 |
| `instant_booking` | two carriers, two requests at a time and the job, six requests or failures | 269,329 |
| `withdrawal` | two requests, two handlers, amounts of 1 and 2, two days, five operations | 1,249,998 |
| `billing` | two requests at a time, two replicas of the renewal job, four operations, runs or failures | 2,368,181 |

The bounds. `MaxCalls`, `MaxOps`, `MaxSignatures`, `MaxFaults`, `MaxDay`,
`Overlap` and `Count` bound what is begun, not how it interleaves. Two handlers
are enough for every race of two actors, and a third operation begins when one
of them is done, so a stale read can be as old as the bound on operations
allows. One wallet is enough for contention: a row, a key and a connection are
each held by one handler and wanted by another, and a pool of two lets two
nested connections exhaust it. Five escrow operations cover create, pickup, and
three that collide. Two workers and three retries let a stale copy overwrite a
later failure count. Four booking operations cover an acceptance that overlaps
another, and a reservation, its expiry and a second one on a version that a
save brought back. Six instant booking requests cover open, lock, confirm, a
second opening under a confirmation, and a lock and a confirmation of its own.
Two days let a daily counter be reset under a completion that read it before.
Four billing operations cover a purchase, a run of the job on each replica and
a cancellation. Handlers, and the rows that are alike, are interchangeable, so
the larger instances that check only invariants use symmetry.

What each property is about:

- `wallet`: `LedgerExplainsBalances` (every balance is what its rows add up
  to), `LedgerChains` (balanceBefore and balanceAfter form one chain),
  `OneRowPerKey`, `AvailableNeverNegative`, `AnsweredIsCommitted`,
  `CommittedIsAnnounced`, `EveryCallEnds` (only the pool's timeout gets
  handlers out of an exhausted pool) and `ImplementsAtomicLedger`.
- `escrow`: `EscrowRowsAreFunded`, `SettledMeansPaid`, `MilestonesArePaid` (no
  stale save claims a payment that was not made), `PendingDrains` (nothing
  stays between the two halves of a release unless an operation broke there).
- `outbox`: `CompletedWasDelivered`, `ProcessingHasOwner` (the only way into a
  stuck row is a run that died with it), `RetriesWereFailures`, `EventSettles`.
- `delivery`: `PaidOnEvidence` (no money without a marked delivery or a used
  code, whatever dies in between), `PaidPerEvidence` (what all the ways may pay
  together), `QuickPaysOnce`.
- `booking`: the code promises that a load is taken once, and guards it in four
  different ways, so each property states what one guard still guarantees and
  names exactly the writes that void it. `OneInstantTake` (an instant booking
  succeeds once for each time the load opens), `OneLiveReservation`,
  `UnderWayToChosen` (the choice is stored before the load and the escrow, so a
  crash never leaves a load without a choice), `OneAcceptedBid`.
- `instant_booking`: `OneLockPerOpening`, `BookedByHolder` (a booked load is
  booked for the carrier that held the lock and confirmed it, until a row holds
  columns of two saves), `LockSettles` (a lock does not stay for ever) and
  `BookingStands` (only the shipper, or a save of a row read before the
  confirmation, takes a booking away).
- `withdrawal`: `AvailableNeverNegative`, in spite of the saves of stale
  wallets, and `BooksBalance`: with no operation under way, wallet, requests
  and provider agree, unless a stale save, an overtaken debit or a failure
  struck. Those three are what `disturbed` records; that they do strike is the
  hazard.
- `billing`: `CancelledStaysCancelled` and `OneActiveSubscription`, each with
  the race that excuses it. `CreditsExplained` says four things of the row of
  credits, each under as little as it needs: the balance is never negative,
  whatever overlaps; it is what was bought less what was used until a row holds
  columns of two saves (`mixed`); what was used is what was deducted until a
  save fell on a changed row, an answer was lost or an operation broke
  (`disturbed`); and until then, with nothing under way, what was bought is
  what was charged for.

Four runs show that the code does not do what a document or a comment of the
repository says; `PROJECT.json` quotes each under "findings".

- `announced_is_committed`: an event stays in the outbox although its movement
  was rolled back.
- `never_overpaid`: one signature pays the carrier twice.
- `no_event_is_lost`: a crash leaves an event in `processing` for good.
- `cancelled_subscription_ends`: a cancelled subscription is taken off renewal
  and then stays active, for ever.

Two more defects are excused by history variables and so visible in the
properties that name them: without `~mixed` in `BookedByHolder` TLC shows a
load that is booked for nobody (the expiry job clears the carrier, and a
confirmation that selected the row before stores its status only), and without
`~disturbed` in `CreditsExplained` two deductions that read one balance, of
which one is lost.

## Fairness

`WalletService!FairSpec`: a handler that can take a step takes one; neither a
call (`Begin`) nor a failure (`Abort`) is ever due. The database grants a row
or an index entry once its holder ends, and the event loop resumes a handler
whose query has answered. `Outbox!FairSpec`: the timers fire and a run that can
go on goes on; nothing has to be emitted, to fail or to grow old.
`InstantBooking!Fairness`: five minutes pass, the job runs every thirty seconds
and reaches each write it took up, and so does a request; nobody has to ask,
confirm or release. `Billing!Fairness`: periods end, the job runs each night,
and what was begun goes on; the user need do nothing. Weak fairness is enough
everywhere: what may happen again and again is bounded or disables nothing, and
PostgreSQL queues the waiters of a lock. `EscrowService`, `QrScan`,
`LoadBooking` and `Withdrawal` state no liveness: an operation that throws is
not repeated, and nothing in the code promises that it ends well.

## What is proved

Eight modules of proofs, for every value of the constants that the named
assumptions allow; those say that amounts and bounds are natural numbers, that
a marker such as `NoRow` is not data, that a bid has a carrier, and the like.
They state every invariant that a run checks, the action property
`BookingStands` and the refinement of `AtomicLedger`. In each module
`InductiveInvariant` is `Spec => []Inductive` (`EvidenceIsKept` for the codes),
and where a second strengthening is needed it has a theorem of its own. Why the
properties are not inductive by themselves is the same story throughout: a step
stores what was decided long before, so the invariant must speak of the steps
still to come.

- `WalletServiceProofs`: that `Commit` keeps the balance covered needs
  `LockedRowIsCurrent` (a row does not change under the handler that locked
  it), which needs `RowsAndKeysExclusive`; that a key is used once needs
  `UncommittedIsFresh`; that a call is answered by its own row needs
  `CallsNumbered`; that a movement is announced needs `AnnouncedSoFar`.
  Theorems: `TypeCorrect`, `NeverOverdrawn`, `AtMostOnce`, `AnswersAreDurable`,
  `NoMovementUnannounced`, and `Refinement`: `Spec => ImplementsAtomicLedger`.
  For the ledger, `LedgerRight` says that a user's rows have running balances,
  each row one operation after the row before it, which end at the committed
  wallet: `BalancesExplained`, `RowsChain`.
- `EscrowServiceProofs`: a save makes its claim when it is made. `JobsRight`
  says of every list of writes that what its saves claim (a lock, payments
  counted, a settlement) has happened already or is an earlier write of the
  same list; amounts only grow, so other handlers cannot spoil it. Theorems:
  `TypeCorrect`, `RowsAreFunded`, `SettledArePaid`, `MilestonesPaid`. Until an
  operation breaks, pendingRelease is the sum of what the lists of all handlers
  are about to confirm (`PendingIsOwed`); hence `PendingIsDrained`.
- `OutboxProofs`: a retry count is computed from stale copies, so `RowsCount`,
  `RunsCount` and `RetriersCount` relate each copy to the failures of its event
  by the place where it is held. Theorems: `TypeCorrect`,
  `NothingCompletedUndelivered`, `NothingStrandsButDeath`, `RetriesAreEarned`.
- `LoadBookingProofs`: `JobsChoose` (every list chooses before it needs the
  choice), `Versioned` (no write left is of a later version, and a reservation
  that would succeed is one that nobody else counts on), `JobsAccept` and
  `Settled` (an acceptance that nothing excuses is alone until it has rejected
  the others). Theorems: `TypeCorrect`, `FirstComeTakes`,
  `ChosenBeforeUnderWay`, `OneCountsOnTheLoad`, `OneBidAccepted`.
- `InstantBookingProofs`: `SavesAreRight`, every row still to be saved speaks
  of a lock truly until columns were mixed. Theorems: `TypeCorrect`,
  `FirstComeFirstServed`, `HolderBooks`, and the action property
  `ConfirmedStands`.
- `WithdrawalProofs`: `JobsRight`, every wallet still to be saved is solvent
  and every request still to be saved is there. Theorems: `TypeCorrect`,
  `NeverNegative`. For the books (`BooksAgree`) each list must also account for
  the half of an operation that is done: money taken for a request not yet
  stored, paid out and not yet debited, taken in and not yet credited. The
  daily counter needs more: two completions may have read the same wallet, and
  `BooksInOrder` holds that of the saves based on one reading all but one will
  fall on a changed row, and so count as disturbed.
- `BillingProofs`: `JobsRight`, every save still to come, behind a charge or
  not, makes a renewing row, or an active one, only of one that was. Theorem:
  `CancellationStands`. The second strengthening, `InOrder`, has the few lists
  a request can have (`RequestsShaped`), the payment each process has in hand,
  which nobody else has (`PaymentsInHand`), the one request that buys
  (`OneBuyer`), the requests that have paid for credits and not yet added them
  (`PurchasesAddUp`), and that the row of credits and those still to be stored
  add up until columns were mixed (`RowsAddUp`). Theorems: `TypeCorrect`,
  `OneIsCharged`, `CreditsAddUp`.
- `QrScanProofs`, over `QrScan`, `DeliveryRelease` and `EscrowService` together:
  the evidence is looked at when a signature or a scan begins, and the money
  moves many steps later. `AnnouncedIsDelivered` and `ScannedIsUsed` carry the
  evidence to the listener or the scan that begins to pay, and `JobsEvidenced`
  to the lists of writes: one that pays belongs to an escrow with evidence.
  Evidence is never taken back. Theorems: `EvidenceBeforePayment`,
  `TypeCorrectInQrScan`, and, by sums over escrows and lists, `QuickPayIsOnce`
  (each payout is taken once) and `PaidWithinMost`: each announced delivery,
  and each scan that found its code unused, pays the amount or the greatest
  milestone share at most. `PaidPerEvidence` says the amount; it is proved
  (`EvidenceLimitsPayment`) under the hypothesis, written in the theorem, that
  no share exceeds the amount, which the code does not enforce and the instance
  of the run satisfies.

Sums. A recursive definition, or an induction over data, is out of this
prover's reach. A sum over handlers, requests or escrows is therefore stated as
the cardinality of a set of units (`Units(f, S)`: as many pairs as the numbers
add up to), whose changes the library's facts about finite sets give; the sums
in the specifications themselves are related to it where a property names them,
and a replay of a ledger is read off the running balances by a least
counterexample.

Only model-checked is liveness, which is out of the prover's reach:
`EveryCallEnds`, `EventSettles` and `LockSettles`. The four runs that expect a
violation are TLC's too.

## Not modelled

`PROJECT.json` lists every component with its reason.

- Most of the repository's lines are the web and mobile clients, seed data,
  tables of cities, listings (fuel stations, restaurants, vehicles), documents
  for public authorities (GIB, UETDS), voice and map services and exports.
  They show, look up, format or hand over; the state they keep has one row and
  one writer, and no decision about money or a load depends on it. The share of
  the lines that the modules stand for is therefore small: what they cover is
  the code in which two actors can disagree about money or about a load.
- External services, as far as they are not a step in a charge, a payout or a
  deposit, are pure input and output.
- Fraud scores, prices, commissions and rankings are calculations without
  control; where their result matters it is a free choice.
- `escrow/fintech.service.ts` and `escrow/quickpay.service.ts` have no callers.
- Part market orders, claims and shipment histories are set without guards:
  there is nothing to relate.

## Plan

Done: everything above. What would come next, in this order:

1. Liveness of the delivery (a signed delivery releases the escrow unless it
   was disputed, broken or not picked up), on an instance without codes.
2. The composition of `LoadBooking` with `EscrowService`, so that the escrow of
   an acceptance is the one that is funded; automated reloads and insurance
   policies as further writers of the load.
3. Abstract specifications of the escrow and of the outbox, as `AtomicLedger`
   is one of the wallet, that name what a stale save may undo.
