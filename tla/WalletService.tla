---------------------------- MODULE WalletService ----------------------------
(***************************************************************************)
(* escrow/wallet.service.ts: every operation is one database transaction   *)
(* at READ COMMITTED, run by one of many concurrent request handlers.      *)
(*                                                                         *)
(*   connect   take a connection from the pool (dataSource.transaction)    *)
(*   check     look the idempotency key up among the committed rows        *)
(*   lock      SELECT ... FOR UPDATE, test the balance, save the wallet    *)
(*   insert    insert the ledger row (unique index on idempotencyKey)      *)
(*   audit     AuditLogService.log, on a connection of its own             *)
(*   outbox    OutboxService.emit, on a connection of its own              *)
(*   commit    the wallet and the ledger row become visible                *)
(*                                                                         *)
(* The audit and the outbox rows are written by services that hold their   *)
(* own repositories, not the transaction's manager: each takes a second    *)
(* connection while the first is held, and commits at once.                *)
(***************************************************************************)
EXTENDS WalletData, FiniteSets

CONSTANTS
  Requests,   \* what callers may ask for
  Handlers,   \* request handlers that run concurrently
  NoCall,     \* a handler that has served nothing yet
  NoTx,       \* a handler with nothing written in its transaction
  PoolSize,   \* connections in the pool (extra.max)
  MaxCalls    \* bound: calls made in a behaviour

ASSUME RequestsAssumption == Requests \subseteq Request
ASSUME BoundsAssumption == PoolSize \in Nat \ {0} /\ MaxCalls \in Nat
ASSUME MarkersAssumption ==
  /\ NoWallet \notin Wallet
  /\ NoKey \notin Keys
  /\ NoCall \notin [req : Requests, id : Nat]
  /\ NoTx \notin [after : Wallet \cup {NoWallet}, row : Row]

VARIABLES
  wallet,     \* committed rows of `wallets`
  ledger,     \* committed rows of `wallet_transactions`, in commit order
  pc,         \* pc[h]: the next step of handler h
  call,       \* call[h]: the request h serves, or last served, and its number
  tx,         \* tx[h]: what h has written and not committed
  result,     \* result[h]: what h answered last
  calls,      \* calls begun
  announced   \* <<number, table>>: audit and outbox rows written so far

vars == <<wallet, ledger, pc, call, tx, result, calls, announced>>

Steps == {"idle", "connect", "check", "lock", "insert", "audit", "outbox", "commit"}
Results == {"none", "ok", "existing", "prepared", "notFound", "refused", "failed"}

Audited == {"credit", "lock", "release", "confirm"}
Outboxed == {"credit", "debit", "release"}

req(h) == call[h].req
user(h) == call[h].req.user

InTransaction == {h \in Handlers : pc[h] \notin {"idle", "connect"}}
FreeConnection == Cardinality(InTransaction) < PoolSize

(* What h has written is in the database, visible to nobody else. *)
Written(h) == pc[h] \in {"insert", "audit", "outbox", "commit"}
HoldsRow(h, u) == Written(h) /\ user(h) = u /\ req(h).op # "commission"
OpensWallet(h, u) == Written(h) /\ user(h) = u /\ wallet[u] = NoWallet
HoldsKey(h, k) == Written(h) /\ pc[h] # "insert" /\ req(h).key = k

Init ==
  /\ wallet = [u \in Users |-> NoWallet]
  /\ ledger = <<>>
  /\ pc = [h \in Handlers |-> "idle"]
  /\ call = [h \in Handlers |-> NoCall]
  /\ tx = [h \in Handlers |-> NoTx]
  /\ result = [h \in Handlers |-> "none"]
  /\ calls = 0
  /\ announced = {}

(* Mutant: what the transaction wrote is not dropped. *)
ReturnUncleaned(h, answer) ==
  /\ pc' = [pc EXCEPT ![h] = "idle"]
  /\ result' = [result EXCEPT ![h] = answer]
  /\ UNCHANGED <<call, calls, tx>>

(* The transaction is over, and h answers. *)
Return(h, answer) ==
  /\ pc' = [pc EXCEPT ![h] = "idle"]
  /\ tx' = [tx EXCEPT ![h] = NoTx]
  /\ result' = [result EXCEPT ![h] = answer]
  /\ UNCHANGED <<call, calls>>

GoTo(h, step) ==
  /\ pc' = [pc EXCEPT ![h] = step]
  /\ UNCHANGED <<call, result, calls>>

(* getBalance: opens the wallet on first use, outside any transaction. *)
GetBalance(u) ==
  /\ wallet[u] = NoWallet
  /\ \A h \in Handlers : ~OpensWallet(h, u)
  /\ wallet' = [wallet EXCEPT ![u] = EmptyWallet]
  /\ UNCHANGED <<ledger, pc, call, tx, result, calls, announced>>

(* A caller asks, for the first time or again after a failure. *)
Begin(h) ==
  /\ pc[h] = "idle"
  /\ calls < MaxCalls
  /\ \E r \in Requests : call' = [call EXCEPT ![h] = [req |-> r, id |-> calls + 1]]
  /\ calls' = calls + 1
  /\ pc' = [pc EXCEPT ![h] = "connect"]
  /\ result' = [result EXCEPT ![h] = "none"]
  /\ UNCHANGED <<wallet, ledger, tx, announced>>

Connect(h) ==
  /\ pc[h] = "connect"
  /\ FreeConnection
  /\ GoTo(h, "check")
  /\ UNCHANGED <<wallet, ledger, tx, announced>>

CheckNew(h) ==
  /\ pc[h] = "check"
  /\ Fresh(req(h).key, ledger)
  /\ GoTo(h, "lock")
  /\ UNCHANGED <<wallet, ledger, tx, announced>>

(* The key was used: commit at once, having opened the wallet if need be. *)
CheckExisting(h) ==
  /\ pc[h] = "check"
  /\ ~Fresh(req(h).key, ledger)
  /\ \A g \in Handlers : ~OpensWallet(g, user(h))
  /\ wallet' = IF req(h).op # "commission" /\ wallet[user(h)] = NoWallet
               THEN [wallet EXCEPT ![user(h)] = EmptyWallet] ELSE wallet
  /\ Return(h, "existing")
  /\ UNCHANGED <<ledger, announced>>

(* Mutant: the wallet is read without FOR UPDATE. *)
RowIsNeverLocked(h) == h \in Handlers

RowIsFree(h) == \A g \in Handlers \ {h} : ~HoldsRow(g, user(h))

(* credit opens the wallet and throws, so the new row is rolled back. *)
LockMissing(h) ==
  /\ pc[h] = "lock"
  /\ req(h).op # "commission"
  /\ wallet[user(h)] = NoWallet
  /\ Return(h, IF req(h).op = "credit" THEN "prepared" ELSE "notFound")
  /\ UNCHANGED <<wallet, ledger, announced>>

LockRefused(h) ==
  /\ pc[h] = "lock"
  /\ req(h).op # "commission"
  /\ wallet[user(h)] # NoWallet
  /\ RowIsFree(h)
  /\ ~Covered(req(h), wallet[user(h)])
  /\ Return(h, "refused")
  /\ UNCHANGED <<wallet, ledger, announced>>

LockAndSave(h) ==
  LET before == wallet[user(h)]
      after == Moved(req(h), before)
  IN
  /\ pc[h] = "lock"
  /\ req(h).op # "commission"
  /\ wallet[user(h)] # NoWallet
  /\ RowIsFree(h)
  /\ Covered(req(h), before)
  /\ tx' = [tx EXCEPT ![h] = [after |-> after,
                row |-> RowOf(req(h), call[h].id, Tracked(req(h), before),
                              Tracked(req(h), after))]]
  /\ GoTo(h, "insert")
  /\ UNCHANGED <<wallet, ledger, announced>>

(* recordCommission takes no lock: another handler may hold the row. *)
ReadForCommission(h) ==
  LET u == user(h)
      w == IF wallet[u] = NoWallet THEN EmptyWallet ELSE wallet[u]
  IN
  /\ pc[h] = "lock"
  /\ req(h).op = "commission"
  /\ \A g \in Handlers : ~OpensWallet(g, u)
  /\ tx' = [tx EXCEPT ![h] = [after |-> w,
                row |-> RowOf(req(h), call[h].id, w.avail, w.avail)]]
  /\ GoTo(h, "insert")
  /\ UNCHANGED <<wallet, ledger, announced>>

(* The insert waits for an uncommitted row with the same key. *)
KeyIsFree(h) ==
  req(h).key # NoKey => \A g \in Handlers \ {h} : ~HoldsKey(g, req(h).key)

(* Mutant: idempotencyKey has no unique index. *)
InsertUnindexed(h) ==
  /\ pc[h] = "insert"
  /\ GoTo(h, IF req(h).op \in Audited THEN "audit"
             ELSE IF req(h).op \in Outboxed THEN "outbox" ELSE "commit")
  /\ UNCHANGED <<wallet, ledger, tx, announced>>

InsertRow(h) ==
  /\ pc[h] = "insert"
  /\ KeyIsFree(h)
  /\ Fresh(req(h).key, ledger)
  /\ GoTo(h, IF req(h).op \in Audited THEN "audit"
             ELSE IF req(h).op \in Outboxed THEN "outbox" ELSE "commit")
  /\ UNCHANGED <<wallet, ledger, tx, announced>>

(* Mutant: a violation of the unique index is taken for success. *)
InsertDuplicateIgnored(h) ==
  /\ pc[h] = "insert"
  /\ KeyIsFree(h)
  /\ ~Fresh(req(h).key, ledger)
  /\ Return(h, "ok")
  /\ UNCHANGED <<wallet, ledger, announced>>

InsertDuplicate(h) ==
  /\ pc[h] = "insert"
  /\ KeyIsFree(h)
  /\ ~Fresh(req(h).key, ledger)
  /\ Return(h, "failed")
  /\ UNCHANGED <<wallet, ledger, announced>>

WriteAudit(h) ==
  /\ pc[h] = "audit"
  /\ FreeConnection
  /\ announced' = announced \cup {<<call[h].id, "audit">>}
  /\ GoTo(h, IF req(h).op \in Outboxed THEN "outbox" ELSE "commit")
  /\ UNCHANGED <<wallet, ledger, tx>>

WriteOutbox(h) ==
  /\ pc[h] = "outbox"
  /\ FreeConnection
  /\ announced' = announced \cup {<<call[h].id, "outbox">>}
  /\ GoTo(h, "commit")
  /\ UNCHANGED <<wallet, ledger, tx>>

(* Mutant: a failure to write the outbox is swallowed. *)
PoolTimeoutSwallowed(h) ==
  /\ pc[h] \in {"audit", "outbox"}
  /\ ~FreeConnection
  /\ GoTo(h, "commit")
  /\ UNCHANGED <<wallet, ledger, tx, announced>>

(* Mutant: the pool waits for a connection without a limit. *)
PoolWaitsForEver(h) == h \notin Handlers

(* connectionTimeoutMillis: the pool had nothing to give; roll back. *)
PoolTimeout(h) ==
  /\ pc[h] \in {"connect", "audit", "outbox"}
  /\ ~FreeConnection
  /\ Return(h, "failed")
  /\ UNCHANGED <<wallet, ledger, announced>>

(* Mutant: recordCommission saves the wallet it read without a lock. *)
CommitReadWallet(h) ==
  /\ pc[h] = "commit"
  /\ wallet' = [wallet EXCEPT ![user(h)] = tx[h].after]
  /\ ledger' = Append(ledger, tx[h].row)
  /\ \E answer \in {"ok", "failed"} : Return(h, answer)
  /\ UNCHANGED announced

(* The reply to COMMIT may be lost: committed, and reported as a failure. *)
Commit(h) ==
  /\ pc[h] = "commit"
  /\ wallet' = IF req(h).op = "commission" /\ wallet[user(h)] # NoWallet
               THEN wallet ELSE [wallet EXCEPT ![user(h)] = tx[h].after]
  /\ ledger' = Append(ledger, tx[h].row)
  /\ \E answer \in {"ok", "failed"} : Return(h, answer)
  /\ UNCHANGED announced

(* A statement fails, the connection is lost or the process dies: the      *)
(* database rolls back.                                                    *)
Abort(h) ==
  /\ pc[h] # "idle"
  /\ Return(h, "failed")
  /\ UNCHANGED <<wallet, ledger, announced>>

Step(h) ==
  \/ Connect(h)
  \/ CheckNew(h)
  \/ CheckExisting(h)
  \/ LockMissing(h)
  \/ LockRefused(h)
  \/ LockAndSave(h)
  \/ ReadForCommission(h)
  \/ InsertRow(h)
  \/ InsertDuplicate(h)
  \/ WriteAudit(h)
  \/ WriteOutbox(h)
  \/ PoolTimeout(h)
  \/ Commit(h)

Next ==
  \/ \E u \in Users : GetBalance(u)
  \/ \E h \in Handlers : Begin(h) \/ Step(h) \/ Abort(h)

Spec == Init /\ [][Next]_vars

(* The database and the event loop keep serving a handler that can move;   *)
(* no caller is obliged to call, and nothing is obliged to fail.           *)
FairSpec == Spec /\ \A h \in Handlers : WF_vars(Step(h))

-----------------------------------------------------------------------------

(* Type invariant: what each table and each handler may hold. *)
TypeOK ==
  /\ wallet \in [Users -> Wallet \cup {NoWallet}]
  /\ ledger \in Seq(Row)
  /\ pc \in [Handlers -> Steps]
  /\ call \in [Handlers -> [req : Requests, id : Nat] \cup {NoCall}]
  /\ tx \in [Handlers -> [after : Wallet, row : Row] \cup {NoTx}]
  /\ result \in [Handlers -> Results]
  /\ calls \in Nat
  /\ announced \subseteq Nat \X {"audit", "outbox"}
  /\ \A h \in Handlers : pc[h] # "idle" => call[h] # NoCall
  /\ \A h \in Handlers : Written(h) <=> tx[h] # NoTx

(* The money in a wallet, rebuilt from its ledger rows. *)
Replay(u) ==
  LET w[i \in 0 .. Len(ledger)] ==
        IF i = 0 THEN EmptyWallet
        ELSE IF ledger[i].user = u THEN Moved(ledger[i], w[i - 1]) ELSE w[i - 1]
  IN  w[Len(ledger)]

(* No money appears or disappears between the two tables, whatever the     *)
(* interleaving of handlers, the aborts and the retries: every balance is  *)
(* what its ledger rows add up to (EX-002: "ACID Transactional Credit with *)
(* Concurrency Control").                                                  *)
LedgerExplainsBalances ==
  \A u \in Users :
    IF wallet[u] = NoWallet THEN \A i \in DOMAIN ledger : ledger[i].user # u
                            ELSE wallet[u] = Replay(u)

(* A row that moved the available balance of u. *)
MovesAvailable(i, u) == ledger[i].user = u /\ ledger[i].op \notin {"release", "commission"}

(* The signed balanceBefore / balanceAfter of the ledger form one chain    *)
(* per wallet: each row starts where the one before it ended, the first at *)
(* zero, and the last ends at the wallet's available balance.              *)
LedgerChains ==
  \A u \in Users, i \in DOMAIN ledger :
    MovesAvailable(i, u) =>
      /\ \/ \E j \in 1 .. i - 1 :
             /\ MovesAvailable(j, u)
             /\ ledger[j].after = ledger[i].before
             /\ \A k \in j + 1 .. i - 1 : ~MovesAvailable(k, u)
         \/ ledger[i].before = 0 /\ \A j \in 1 .. i - 1 : ~MovesAvailable(j, u)
      /\ (\A k \in i + 1 .. Len(ledger) : ~MovesAvailable(k, u))
           => wallet[u] # NoWallet /\ wallet[u].avail = ledger[i].after

(* An idempotency key, and a call, leave at most one ledger row, however   *)
(* many handlers serve the same request at once or again.                  *)
OneRowPerKey ==
  \A i, j \in DOMAIN ledger :
    \/ i = j
    \/ /\ ledger[i].call # ledger[j].call
       /\ ledger[i].key = NoKey \/ ledger[i].key # ledger[j].key

(* debit and lockEscrow test the balance under the row lock, so nothing    *)
(* they do takes the available balance below zero.                         *)
AvailableNeverNegative ==
  \A u \in Users : wallet[u] # NoWallet => wallet[u].avail >= 0

(* A caller told that the operation happened finds its row in the ledger.  *)
AnsweredIsCommitted ==
  \A h \in Handlers :
    result[h] = "ok" => \E i \in DOMAIN ledger : ledger[i].call = call[h].id

(* Every committed movement has its audit row, and its outbox event where  *)
(* the operation emits one: they are written before the commit, and an     *)
(* error there rolls the movement back.                                    *)
CommittedIsAnnounced ==
  \A i \in DOMAIN ledger :
    /\ ledger[i].op \in Audited => <<ledger[i].call, "audit">> \in announced
    /\ ledger[i].op \in Outboxed => <<ledger[i].call, "outbox">> \in announced

(* No handler waits for ever for a connection, a row or a key that another *)
(* handler holds: the nested connection of the audit and outbox writes can *)
(* exhaust the pool, and only the pool's timeout gets the handlers out.    *)
EveryCallEnds == \A h \in Handlers : pc[h] # "idle" ~> pc[h] = "idle"

(* The service implements the atomic ledger. *)
Ledger == INSTANCE AtomicLedger WITH CallIds <- 1 .. MaxCalls
ImplementsAtomicLedger == Ledger!LedgerSpec

-----------------------------------------------------------------------------
(* The inductive invariant behind the safety properties. *)

(* A locked row does not change under its holder: what the holder wrote is *)
(* still the operation applied to the committed wallet, and still covered. *)
LockedRowIsCurrent ==
  \A h \in Handlers :
    LET w == wallet[user(h)]
    IN  Written(h) /\ req(h).op # "commission" =>
          /\ w # NoWallet
          /\ Covered(req(h), w)
          /\ tx[h] = [after |-> Moved(req(h), w),
                      row |-> RowOf(req(h), call[h].id, Tracked(req(h), w),
                                    Tracked(req(h), Moved(req(h), w)))]

(* A commission row shows one balance, and opens the wallet if none is.    *)
CommissionMovesNothing ==
  \A h \in Handlers :
    Written(h) /\ req(h).op = "commission" =>
      /\ wallet[user(h)] = NoWallet => tx[h].after = EmptyWallet
      /\ tx[h].row = RowOf(req(h), call[h].id, tx[h].row.before, tx[h].row.before)

(* At most one handler holds a wallet's row, or an uncommitted key.        *)
RowsAndKeysExclusive ==
  \A g, h \in Handlers :
    g # h /\ Written(g) /\ Written(h) =>
      /\ ~(HoldsRow(g, user(h)) /\ HoldsRow(h, user(h)))
      /\ ~(req(h).key # NoKey /\ HoldsKey(g, req(h).key) /\ HoldsKey(h, req(h).key))

(* A key past the unique index is not committed, nor is the call's number. *)
UncommittedIsFresh ==
  \A h \in Handlers :
    /\ Written(h) /\ pc[h] # "insert" => Fresh(req(h).key, ledger)
    /\ pc[h] # "idle" => \A i \in DOMAIN ledger : ledger[i].call # call[h].id

(* Calls are numbered apart, and no number is used before its call.        *)
CallsNumbered ==
  /\ calls \in 0 .. MaxCalls
  /\ \A h \in Handlers : pc[h] # "idle" => call[h].id \in 1 .. calls
  /\ \A g, h \in Handlers :
       g # h /\ pc[g] # "idle" /\ pc[h] # "idle" => call[g].id # call[h].id
  /\ \A i \in DOMAIN ledger : ledger[i].call \in 1 .. calls

(* The announcements a handler has made by the time it reaches each step.  *)
AnnouncedSoFar ==
  \A h \in Handlers :
    /\ pc[h] \in {"outbox", "commit"} /\ req(h).op \in Audited
         => <<call[h].id, "audit">> \in announced
    /\ pc[h] = "commit" /\ req(h).op \in Outboxed
         => <<call[h].id, "outbox">> \in announced

Inductive ==
  /\ TypeOK
  /\ LockedRowIsCurrent
  /\ CommissionMovesNothing
  /\ RowsAndKeysExclusive
  /\ UncommittedIsFresh
  /\ CallsNumbered
  /\ AnnouncedSoFar
  /\ OneRowPerKey
  /\ AvailableNeverNegative
  /\ AnsweredIsCommitted
  /\ CommittedIsAnnounced

-----------------------------------------------------------------------------

(* "ayni transaction outbox'a kaydedilir": an event in the outbox is the   *)
(* event of a movement that committed, or that its handler may yet commit. *)
AnnouncedIsCommitted ==
  \A a \in announced :
    a[2] = "outbox" =>
      \/ \E i \in DOMAIN ledger : ledger[i].call = a[1]
      \/ \E h \in Handlers : pc[h] = "commit" /\ call[h].id = a[1]
=============================================================================
