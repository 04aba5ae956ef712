----------------------------- MODULE WalletData -----------------------------
(***************************************************************************)
(* The rows of the tables `wallets` and `wallet_transactions`, and what    *)
(* each operation of WalletService does to them.  Amounts are integers:    *)
(* the columns hold two decimals and the code rounds every result to the   *)
(* cent, so a unit here is one cent.                                       *)
(***************************************************************************)
EXTENDS Integers, Sequences

CONSTANTS
  Users,      \* owners of wallets (wallets.userId is unique)
  Keys,       \* idempotency keys
  NoKey,      \* the caller gave no key: the column stays NULL
  NoWallet    \* no row in `wallets` for this user

(* The operations of WalletService that write a ledger row. *)
Ops == {"credit", "debit", "lock", "release", "confirm", "commission"}

Wallet == [avail: Int, escrow: Int, pending: Int]

EmptyWallet == [avail |-> 0, escrow |-> 0, pending |-> 0]

Request == [op: Ops, user: Users, amount: Nat, key: Keys \cup {NoKey}]

Row == [call: Nat, key: Keys \cup {NoKey}, user: Users, op: Ops,
        amount: Nat, before: Int, after: Int]

Adjusted(w, avail, escrow, pending) ==
  [avail   |-> w.avail + avail,
   escrow  |-> w.escrow + escrow,
   pending |-> w.pending + pending]

(* commissionService is never injected, so a release moves the whole amount. *)
Moved(r, w) ==
  CASE r.op = "credit"     -> Adjusted(w, r.amount, 0, 0)
    [] r.op = "debit"      -> Adjusted(w, -r.amount, 0, 0)
    [] r.op = "lock"       -> Adjusted(w, -r.amount, r.amount, 0)
    [] r.op = "release"    -> Adjusted(w, 0, -r.amount, r.amount)
    [] r.op = "confirm"    -> Adjusted(w, r.amount, 0, -r.amount)
    [] r.op = "commission" -> w

(* Mutant: lockEscrow does not look at the balance. *)
CoveredDebit(r, w) == r.op = "debit" => w.avail >= r.amount

(* Only debit and lockEscrow look at the balance before they move it. *)
Covered(r, w) == r.op \in {"debit", "lock"} => w.avail >= r.amount

(* The balance a ledger row shows before and after the operation. *)
Tracked(r, w) == IF r.op = "release" THEN w.escrow ELSE w.avail

RowOf(r, id, before, after) ==
  [call |-> id, key |-> r.key, user |-> r.user, op |-> r.op,
   amount |-> r.amount, before |-> before, after |-> after]

(* The unique index on idempotencyKey lets a row with this key in. *)
Fresh(key, rows) == key # NoKey => \A i \in DOMAIN rows : rows[i].key # key
=============================================================================
