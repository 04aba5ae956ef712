---------------------------- MODULE AtomicLedger ----------------------------
(***************************************************************************)
(* What WalletService promises: an operation happens at one instant, on    *)
(* the balances of that instant, with its ledger row; an idempotency key   *)
(* moves money at most once, and so does a call.  There are no             *)
(* connections, locks, failures or retries here.                           *)
(***************************************************************************)
EXTENDS WalletData

CONSTANTS
  Requests,   \* what callers may ask for
  CallIds     \* names of calls: one name per call of the service

VARIABLES
  wallet,   \* wallet[u]: the row of `wallets` for u, or NoWallet
  ledger    \* the rows of `wallet_transactions`, in commit order

ledgerVars == <<wallet, ledger>>

LedgerInit ==
  /\ wallet = [u \in Users |-> NoWallet]
  /\ ledger = <<>>

OpenWallet(u) ==
  /\ wallet[u] = NoWallet
  /\ wallet' = [wallet EXCEPT ![u] = EmptyWallet]
  /\ UNCHANGED ledger

NewEntry(r, id) ==
  /\ Fresh(r.key, ledger)
  /\ \A i \in DOMAIN ledger : ledger[i].call # id

Move(r, id) ==
  /\ r.op # "commission"
  /\ wallet[r.user] # NoWallet
  /\ Covered(r, wallet[r.user])
  /\ NewEntry(r, id)
  /\ wallet' = [wallet EXCEPT ![r.user] = Moved(r, @)]
  /\ ledger' = Append(ledger, RowOf(r, id, Tracked(r, wallet[r.user]),
                                    Tracked(r, Moved(r, wallet[r.user]))))

(* A commission row moves nothing; it shows a balance read without a lock. *)
NoteCommission(r, id) ==
  /\ r.op = "commission"
  /\ NewEntry(r, id)
  /\ wallet' = [wallet EXCEPT ![r.user] = IF @ = NoWallet THEN EmptyWallet ELSE @]
  /\ Len(ledger') = Len(ledger) + 1
  /\ LET balance == ledger'[Len(ledger')].before
     IN  /\ balance \in Int
         /\ ledger' = Append(ledger, RowOf(r, id, balance, balance))

LedgerNext ==
  \/ \E u \in Users : OpenWallet(u)
  \/ \E r \in Requests, id \in CallIds : Move(r, id) \/ NoteCommission(r, id)

LedgerSpec == LedgerInit /\ [][LedgerNext]_ledgerVars
=============================================================================
