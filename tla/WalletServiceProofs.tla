------------------------ MODULE WalletServiceProofs ------------------------
(***************************************************************************)
(* Theorems about WalletService, for every set of users, keys, requests    *)
(* and handlers and every size of the pool.                                *)
(***************************************************************************)
EXTENDS WalletService, FiniteSetTheorems, TLAPS

-----------------------------------------------------------------------------
(* Lemmas about the operations on one wallet. *)

(* An operation of WalletService turns a wallet into a wallet. *)
LEMMA MovedType ==
  ASSUME NEW r \in Request, NEW w \in Wallet
  PROVE  Moved(r, w) \in Wallet
BY DEF Request, Ops, Wallet, Moved, Adjusted

(* A covered operation leaves the available balance at zero or above. *)
LEMMA MovedNonNegative ==
  ASSUME NEW r \in Request, NEW w \in Wallet, w.avail >= 0, Covered(r, w)
  PROVE  Moved(r, w).avail >= 0
BY DEF Request, Ops, Wallet, Moved, Adjusted, Covered

(* The row written for a request is a row of the table. *)
LEMMA RowType ==
  ASSUME NEW r \in Request, NEW id \in Nat, NEW b \in Int, NEW a \in Int
  PROVE  RowOf(r, id, b, a) \in Row
BY DEF Request, RowOf, Row

LEMMA TrackedType ==
  ASSUME NEW r \in Request, NEW w \in Wallet
  PROVE  Tracked(r, w) \in Int
BY DEF Request, Wallet, Tracked

(* A handler that is serving a call serves a request. *)
LEMMA CallType ==
  ASSUME TypeOK, NEW h \in Handlers, pc[h] # "idle"
  PROVE  req(h) \in Request /\ call[h].id \in Nat /\ user(h) \in Users
<1>1. call[h] \in [req : Requests, id : Nat]
  BY DEF TypeOK
<1> QED
  BY <1>1, RequestsAssumption DEF req, user, Request

-----------------------------------------------------------------------------
(* Type correctness. *)

LEMMA InitType == Init => TypeOK
BY BoundsAssumption, MarkersAssumption
   DEF Init, TypeOK, Written, Steps, Results

(* A handler that returns keeps the types of its own variables. *)
LEMMA ReturnType ==
  ASSUME TypeOK, NEW h \in Handlers, NEW answer \in Results, Return(h, answer),
         wallet' \in [Users -> Wallet \cup {NoWallet}], ledger' \in Seq(Row),
         announced' = announced
  PROVE  TypeOK'
BY DEF TypeOK, Return, Written, Steps

(* A handler whose step writes nothing of its transaction keeps the types. *)
LEMMA GoToType ==
  ASSUME TypeOK, NEW h \in Handlers, NEW step \in Steps, GoTo(h, step), pc[h] # "idle",
         wallet' = wallet, ledger' = ledger, tx' = tx,
         announced' \subseteq Nat \X {"audit", "outbox"},
         (step \in {"insert", "audit", "outbox", "commit"}) <=> Written(h)
  PROVE  TypeOK'
BY DEF TypeOK, GoTo, Written, Steps

LEMMA NextType == TypeOK /\ [Next]_vars => TypeOK'
<1> SUFFICES ASSUME TypeOK, [Next]_vars
             PROVE  TypeOK'
  OBVIOUS
<1> USE RequestsAssumption
<1>1. CASE UNCHANGED vars
  BY <1>1 DEF vars, TypeOK, Written
<1>2. ASSUME NEW u \in Users, GetBalance(u)
      PROVE  TypeOK'
  <2>1. EmptyWallet \in Wallet
    BY DEF EmptyWallet, Wallet
  <2> QED
    BY <1>2, <2>1 DEF GetBalance, TypeOK, Written
<1>3. ASSUME NEW h \in Handlers, Begin(h)
      PROVE  TypeOK'
  <2>1. PICK r \in Requests : call' = [call EXCEPT ![h] = [req |-> r, id |-> calls + 1]]
    BY <1>3 DEF Begin
  <2>2. [req |-> r, id |-> calls + 1] \in [req : Requests, id : Nat]
    BY DEF TypeOK
  <2>3. [req |-> r, id |-> calls + 1] # NoCall
    BY <2>2, MarkersAssumption
  <2>4. ~Written(h)
    BY <1>3 DEF Begin, Written
  <2> QED
    BY <1>3, <2>1, <2>2, <2>3, <2>4 DEF Begin, TypeOK, Written, Steps, Results
<1>4. ASSUME NEW h \in Handlers, Step(h) \/ Abort(h)
      PROVE  TypeOK'
  <2> DEFINE r == req(h)
  <2>1. pc[h] # "idle"
    BY <1>4 DEF Step, Abort, Connect, CheckNew, CheckExisting, LockMissing, LockRefused,
                LockAndSave, ReadForCommission, InsertRow, InsertDuplicate, WriteAudit,
                WriteOutbox, PoolTimeout, Commit
  <2>3. r \in Request /\ call[h].id \in Nat /\ user(h) \in Users
    BY <2>1, CallType
  <2>4. CASE Connect(h)
    BY <2>1, <2>4, GoToType DEF Connect, TypeOK, Written, Steps
  <2>5. CASE CheckNew(h)
    BY <2>1, <2>5, GoToType DEF CheckNew, TypeOK, Written, Steps
  <2>6. CASE CheckExisting(h)
    <3>1. EmptyWallet \in Wallet
      BY DEF EmptyWallet, Wallet
    <3>2. wallet' \in [Users -> Wallet \cup {NoWallet}]
      BY <2>3, <2>6, <3>1 DEF CheckExisting, TypeOK
    <3> QED
      BY <2>6, <3>2, ReturnType DEF CheckExisting, TypeOK, Results
  <2>7. CASE LockMissing(h) \/ LockRefused(h) \/ InsertDuplicate(h) \/ PoolTimeout(h) \/ Abort(h)
    <3>1. \E answer \in Results : Return(h, answer)
      BY <2>7 DEF LockMissing, LockRefused, InsertDuplicate, PoolTimeout, Abort, Results
    <3>2. UNCHANGED <<wallet, ledger, announced>>
      BY <2>7 DEF LockMissing, LockRefused, InsertDuplicate, PoolTimeout, Abort
    <3> QED
      BY <3>1, <3>2, ReturnType DEF TypeOK
  <2>8. CASE LockAndSave(h)
    <3>1. wallet[user(h)] \in Wallet
      BY <2>3, <2>8 DEF LockAndSave, TypeOK
    <3>2. Moved(r, wallet[user(h)]) \in Wallet
      BY <2>3, <3>1, MovedType
    <3> DEFINE t == [after |-> Moved(r, wallet[user(h)]),
                     row |-> RowOf(r, call[h].id, Tracked(r, wallet[user(h)]),
                                   Tracked(r, Moved(r, wallet[user(h)])))]
    <3>3. t \in [after : Wallet, row : Row]
      BY <2>3, <3>1, <3>2, RowType, TrackedType
    <3>4. t # NoTx
      BY <3>3, MarkersAssumption
    <3>5. tx' = [tx EXCEPT ![h] = t] /\ GoTo(h, "insert") /\ UNCHANGED <<wallet, ledger, announced>>
      BY <2>8 DEF LockAndSave
    <3> HIDE DEF t
    <3> QED
      BY <2>1, <3>3, <3>4, <3>5 DEF GoTo, TypeOK, Written, Steps
  <2>9. CASE ReadForCommission(h)
    <3> DEFINE w == IF wallet[user(h)] = NoWallet THEN EmptyWallet ELSE wallet[user(h)]
               t == [after |-> w, row |-> RowOf(r, call[h].id, w.avail, w.avail)]
    <3>1. w \in Wallet
      BY <2>3 DEF TypeOK, EmptyWallet, Wallet
    <3>2. w.avail \in Int
      BY <3>1 DEF Wallet
    <3>3. t \in [after : Wallet, row : Row]
      BY <2>3, <3>1, <3>2, RowType
    <3>4. t # NoTx
      BY <3>3, MarkersAssumption
    <3>5. tx' = [tx EXCEPT ![h] = t] /\ GoTo(h, "insert") /\ UNCHANGED <<wallet, ledger, announced>>
      BY <2>9 DEF ReadForCommission
    <3> HIDE DEF t
    <3> QED
      BY <2>1, <3>3, <3>4, <3>5 DEF GoTo, TypeOK, Written, Steps
  <2>10. CASE InsertRow(h)
    <3>1. PICK step \in {"audit", "outbox", "commit"} : GoTo(h, step)
      BY <2>10 DEF InsertRow
    <3> QED
      BY <2>1, <2>10, <3>1, GoToType DEF InsertRow, TypeOK, Written, Steps
  <2>11. CASE WriteAudit(h)
    <3>1. PICK step \in {"outbox", "commit"} : GoTo(h, step)
      BY <2>11 DEF WriteAudit
    <3>2. announced' \subseteq Nat \X {"audit", "outbox"}
      BY <2>3, <2>11 DEF WriteAudit, TypeOK
    <3> QED
      BY <2>1, <2>11, <3>1, <3>2, GoToType DEF WriteAudit, Written, Steps
  <2>12. CASE WriteOutbox(h)
    <3>1. announced' \subseteq Nat \X {"audit", "outbox"}
      BY <2>3, <2>12 DEF WriteOutbox, TypeOK
    <3> QED
      BY <2>1, <2>12, <3>1, GoToType DEF WriteOutbox, Written, Steps
  <2>13. CASE Commit(h)
    <3>1. tx[h] \in [after : Wallet, row : Row]
      BY <2>13 DEF Commit, TypeOK, Written
    <3>2. wallet' \in [Users -> Wallet \cup {NoWallet}]
      BY <2>3, <2>13, <3>1 DEF Commit, TypeOK
    <3>3. ledger' \in Seq(Row)
      BY <2>13, <3>1 DEF Commit, TypeOK
    <3>4. PICK answer \in {"ok", "failed"} : Return(h, answer)
      BY <2>13 DEF Commit
    <3> QED
      BY <2>13, <3>2, <3>3, <3>4, ReturnType DEF Commit, Results
  <2> QED
    BY <1>4, <2>4, <2>5, <2>6, <2>7, <2>8, <2>9, <2>10, <2>11, <2>12, <2>13 DEF Step
<1> QED
  BY <1>1, <1>2, <1>3, <1>4 DEF Next

(* Every state of the service is well typed. *)
THEOREM TypeCorrect == Spec => []TypeOK
BY InitType, NextType, PTL DEF Spec

-----------------------------------------------------------------------------
(* The inductive invariant. *)

LEMMA InitInductive == Init => Inductive
<1> SUFFICES ASSUME Init PROVE Inductive
  OBVIOUS
<1>1. TypeOK
  BY InitType
<1>2. \A h \in Handlers : pc[h] = "idle" /\ result[h] = "none" /\ ~Written(h)
  BY DEF Init, Written
<1>3. ledger = <<>> /\ calls = 0 /\ wallet = [u \in Users |-> NoWallet]
  BY DEF Init
<1>4. DOMAIN ledger = {}
  BY <1>3
<1>5. LockedRowIsCurrent /\ CommissionMovesNothing /\ RowsAndKeysExclusive
  BY <1>2 DEF LockedRowIsCurrent, CommissionMovesNothing, RowsAndKeysExclusive
<1>6. UncommittedIsFresh
  BY <1>2, <1>4 DEF UncommittedIsFresh
<1>7. CallsNumbered
  BY <1>2, <1>3, <1>4, BoundsAssumption DEF CallsNumbered
<1>8. AnnouncedSoFar
  BY <1>2 DEF AnnouncedSoFar
<1>9. AvailableNeverNegative
  BY <1>3 DEF AvailableNeverNegative
<1>10. OneRowPerKey /\ AnsweredIsCommitted /\ CommittedIsAnnounced
  BY <1>2, <1>4 DEF OneRowPerKey, AnsweredIsCommitted, CommittedIsAnnounced
<1> QED
  BY <1>1, <1>5, <1>6, <1>7, <1>8, <1>9, <1>10 DEF Inductive

(* What a handler that holds the row has written. *)
LEMMA LockedRow ==
  ASSUME LockedRowIsCurrent, NEW h \in Handlers, Written(h), req(h).op # "commission"
  PROVE  /\ wallet[user(h)] # NoWallet
         /\ Covered(req(h), wallet[user(h)])
         /\ tx[h].after = Moved(req(h), wallet[user(h)])
         /\ tx[h].row = RowOf(req(h), call[h].id, Tracked(req(h), wallet[user(h)]),
                              Tracked(req(h), Moved(req(h), wallet[user(h)])))
<1>1. tx[h] = [after |-> Moved(req(h), wallet[user(h)]),
               row |-> RowOf(req(h), call[h].id, Tracked(req(h), wallet[user(h)]),
                             Tracked(req(h), Moved(req(h), wallet[user(h)])))]
  BY DEF LockedRowIsCurrent
<1>2. wallet[user(h)] # NoWallet /\ Covered(req(h), wallet[user(h)])
  BY DEF LockedRowIsCurrent
<1> QED
  BY <1>1, <1>2

(* Ending a transaction without writing keeps the invariant. *)
LEMMA ReturnInductive ==
  ASSUME Inductive, TypeOK', NEW h \in Handlers, NEW answer, answer # "ok",
         Return(h, answer), UNCHANGED <<wallet, ledger, announced>>
  PROVE  Inductive'
<1>1. /\ \A g \in Handlers : Written(g)' => g # h /\ Written(g) /\ tx'[g] = tx[g]
      /\ \A g \in Handlers : pc'[g] # "idle" => g # h /\ pc'[g] = pc[g]
      /\ \A g \in Handlers : result'[g] = "ok" => result[g] = "ok"
  BY DEF Return, Inductive, TypeOK, Written
<1>2. UNCHANGED <<wallet, ledger, call, calls, announced>>
  BY DEF Return
<1>3. LockedRowIsCurrent' /\ CommissionMovesNothing'
  BY <1>1, <1>2 DEF Inductive, LockedRowIsCurrent, CommissionMovesNothing, req, user
<1>4. RowsAndKeysExclusive' /\ UncommittedIsFresh'
  BY <1>1, <1>2 DEF Inductive, RowsAndKeysExclusive, UncommittedIsFresh, HoldsRow, HoldsKey,
                    req, user, Written
<1>5. CallsNumbered' /\ AnnouncedSoFar'
  BY <1>1, <1>2 DEF Inductive, CallsNumbered, AnnouncedSoFar, req
<1>6. OneRowPerKey' /\ AvailableNeverNegative' /\ AnsweredIsCommitted' /\ CommittedIsAnnounced'
  BY <1>1, <1>2 DEF Inductive, OneRowPerKey, AvailableNeverNegative, AnsweredIsCommitted,
                    CommittedIsAnnounced, MovesAvailable
<1> QED
  BY <1>3, <1>4, <1>5, <1>6 DEF Inductive

(* Opening a wallet keeps the invariant: no handler has written its row. *)
LEMMA OpenInductive ==
  ASSUME Inductive, TypeOK', NEW u \in Users, wallet[u] = NoWallet,
         wallet' = [wallet EXCEPT ![u] = EmptyWallet],
         UNCHANGED <<ledger, pc, call, tx, result, calls, announced>>
  PROVE  Inductive'
<1>1. \A g \in Handlers : /\ Written(g)' <=> Written(g)
                          /\ req(g)' = req(g)
                          /\ user(g)' = user(g)
  BY DEF Written, req, user
<1>2. \A g \in Handlers : Written(g) => user(g) \in Users
  BY CallType DEF Inductive, Written
<1>3. LockedRowIsCurrent'
  BY <1>1, <1>2 DEF Inductive, TypeOK, LockedRowIsCurrent
<1>4. CommissionMovesNothing'
  <2>1. EmptyWallet # NoWallet
    BY MarkersAssumption DEF EmptyWallet, Wallet
  <2> QED
    BY <1>1, <1>2, <2>1 DEF Inductive, TypeOK, CommissionMovesNothing
<1>5. RowsAndKeysExclusive' /\ UncommittedIsFresh'
  BY <1>1 DEF Inductive, RowsAndKeysExclusive, UncommittedIsFresh, HoldsRow, HoldsKey
<1>6. CallsNumbered' /\ AnnouncedSoFar'
  BY <1>1 DEF Inductive, CallsNumbered, AnnouncedSoFar
<1>7. AvailableNeverNegative'
  BY DEF Inductive, TypeOK, AvailableNeverNegative, EmptyWallet
<1>8. OneRowPerKey' /\ AnsweredIsCommitted' /\ CommittedIsAnnounced'
  BY DEF Inductive, OneRowPerKey, AnsweredIsCommitted, CommittedIsAnnounced
<1> QED
  BY <1>3, <1>4, <1>5, <1>6, <1>7, <1>8 DEF Inductive

(* The idempotent answer: the transaction ends, having opened the wallet   *)
(* at most.                                                                *)
LEMMA ExistingInductive ==
  ASSUME Inductive, TypeOK', NEW h \in Handlers, CheckExisting(h)
  PROVE  Inductive'
<1> DEFINE u == user(h)
<1>1. /\ \A g \in Handlers : Written(g)' => g # h /\ Written(g) /\ tx'[g] = tx[g]
      /\ \A g \in Handlers : pc'[g] # "idle" => g # h /\ pc'[g] = pc[g]
      /\ \A g \in Handlers : result'[g] = "ok" => result[g] = "ok"
      /\ UNCHANGED <<ledger, call, calls, announced>>
  BY DEF CheckExisting, Return, Inductive, TypeOK, Written
<1>2. u \in Users
  BY CallType DEF CheckExisting, Inductive
<1>3. \A g \in Handlers : Written(g) => user(g) \in Users
  BY CallType DEF Inductive, Written
<1>4. /\ \A v \in Users : wallet[v] # NoWallet => wallet'[v] = wallet[v]
      /\ \A v \in Users : wallet'[v] = NoWallet => wallet[v] = NoWallet
      /\ \A v \in Users : wallet'[v] = wallet[v] \/ wallet'[v] = EmptyWallet
  <2>1. EmptyWallet # NoWallet
    BY MarkersAssumption DEF EmptyWallet, Wallet
  <2> QED
    BY <1>2, <2>1 DEF CheckExisting, Inductive, TypeOK
<1>5. LockedRowIsCurrent' /\ CommissionMovesNothing'
  <2>1. \A g \in Handlers : req(g)' = req(g) /\ user(g)' = user(g)
    BY <1>1 DEF req, user
  <2>2. LockedRowIsCurrent'
    <3>1. SUFFICES ASSUME NEW g \in Handlers, Written(g)', req(g)'.op # "commission"
                   PROVE  /\ wallet'[user(g)] = wallet[user(g)]
                          /\ tx'[g] = tx[g] /\ Written(g) /\ req(g).op # "commission"
      BY <1>1, <2>1 DEF Inductive, LockedRowIsCurrent
    <3>2. Written(g) /\ tx'[g] = tx[g] /\ req(g).op # "commission"
      BY <1>1, <2>1, <3>1
    <3>3. wallet[user(g)] # NoWallet
      BY <3>2, LockedRow DEF Inductive
    <3> QED
      BY <1>3, <1>4, <3>2, <3>3
  <2>3. CommissionMovesNothing'
    <3>1. SUFFICES ASSUME NEW g \in Handlers, Written(g)', req(g)'.op = "commission"
                   PROVE  /\ wallet'[user(g)'] = NoWallet => tx'[g].after = EmptyWallet
                          /\ tx'[g].row = RowOf(req(g)', call'[g].id, tx'[g].row.before,
                                                tx'[g].row.before)
      BY DEF CommissionMovesNothing
    <3>2. /\ Written(g) /\ req(g).op = "commission"
          /\ tx'[g] = tx[g] /\ call'[g] = call[g] /\ req(g)' = req(g) /\ user(g)' = user(g)
      BY <1>1, <2>1, <3>1
    <3>3. /\ wallet[user(g)] = NoWallet => tx[g].after = EmptyWallet
          /\ tx[g].row = RowOf(req(g), call[g].id, tx[g].row.before, tx[g].row.before)
      BY <3>2 DEF Inductive, CommissionMovesNothing
    <3>4. wallet'[user(g)] = NoWallet => wallet[user(g)] = NoWallet
      BY <1>3, <1>4, <3>2
    <3> QED
      BY <3>2, <3>3, <3>4
  <2> QED
    BY <2>2, <2>3
<1>6. RowsAndKeysExclusive' /\ UncommittedIsFresh'
  BY <1>1 DEF Inductive, RowsAndKeysExclusive, UncommittedIsFresh, HoldsRow, HoldsKey,
              req, user, Written
<1>7. CallsNumbered' /\ AnnouncedSoFar'
  BY <1>1 DEF Inductive, CallsNumbered, AnnouncedSoFar, req
<1>8. AvailableNeverNegative'
  BY <1>4 DEF Inductive, AvailableNeverNegative, EmptyWallet
<1>9. OneRowPerKey' /\ AnsweredIsCommitted' /\ CommittedIsAnnounced'
  BY <1>1 DEF Inductive, OneRowPerKey, AnsweredIsCommitted, CommittedIsAnnounced
<1> QED
  BY <1>5, <1>6, <1>7, <1>8, <1>9 DEF Inductive

(* A step inside a transaction that writes neither table keeps what does   *)
(* not depend on how far the handler has come.                             *)
LEMMA GoToInductive ==
  ASSUME Inductive, TypeOK', NEW h \in Handlers, NEW step \in Steps, step # "idle",
         GoTo(h, step), pc[h] # "idle", UNCHANGED <<wallet, ledger, tx>>,
         Written(h)' <=> Written(h), announced \subseteq announced'
  PROVE  /\ \A g \in Handlers \ {h} : pc'[g] = pc[g]
         /\ pc'[h] = step
         /\ \A g \in Handlers : Written(g)' <=> Written(g)
         /\ call' = call
         /\ LockedRowIsCurrent' /\ CommissionMovesNothing' /\ CallsNumbered'
         /\ OneRowPerKey' /\ AvailableNeverNegative' /\ AnsweredIsCommitted'
         /\ CommittedIsAnnounced'
<1>1. /\ \A g \in Handlers \ {h} : pc'[g] = pc[g]
      /\ pc'[h] = step
      /\ UNCHANGED <<call, calls, result>>
  BY DEF GoTo, Inductive, TypeOK
<1>2. \A g \in Handlers : Written(g)' <=> Written(g)
  BY <1>1 DEF Written
<1>3. LockedRowIsCurrent' /\ CommissionMovesNothing'
  BY <1>1, <1>2 DEF Inductive, LockedRowIsCurrent, CommissionMovesNothing, req, user
<1>4. CallsNumbered'
  BY <1>1 DEF Inductive, CallsNumbered
<1>5. OneRowPerKey' /\ AvailableNeverNegative' /\ AnsweredIsCommitted'
  BY <1>1 DEF Inductive, OneRowPerKey, AvailableNeverNegative, AnsweredIsCommitted
<1>6. CommittedIsAnnounced'
  BY DEF Inductive, CommittedIsAnnounced
<1> QED
  BY <1>1, <1>2, <1>3, <1>4, <1>5, <1>6

LEMMA BeginInductive ==
  ASSUME Inductive, TypeOK', NEW h \in Handlers, Begin(h)
  PROVE  Inductive'
<1>1. PICK r \in Requests : call' = [call EXCEPT ![h] = [req |-> r, id |-> calls + 1]]
  BY DEF Begin
<1>2. /\ call'[h].id = calls + 1
      /\ \A g \in Handlers \ {h} : call'[g] = call[g] /\ pc'[g] = pc[g] /\ result'[g] = result[g]
      /\ pc'[h] = "connect" /\ result'[h] = "none"
      /\ calls' = calls + 1 /\ calls < MaxCalls
      /\ UNCHANGED <<wallet, ledger, tx, announced>>
  BY <1>1 DEF Begin, Inductive, TypeOK
<1>3. \A g \in Handlers : Written(g)' => g # h /\ Written(g)
  BY <1>2 DEF Written
<1>4. LockedRowIsCurrent' /\ CommissionMovesNothing'
  BY <1>2, <1>3 DEF Inductive, LockedRowIsCurrent, CommissionMovesNothing, req, user
<1>5. RowsAndKeysExclusive'
  BY <1>2, <1>3 DEF Inductive, RowsAndKeysExclusive, HoldsRow, HoldsKey, req, user
<1>6. calls \in 0 .. MaxCalls /\ calls' \in 0 .. MaxCalls
  BY <1>2, BoundsAssumption DEF Inductive, CallsNumbered
<1>7. CallsNumbered'
  <2>1. \A g \in Handlers : pc'[g] # "idle" => call'[g].id \in 1 .. calls'
    BY <1>2, <1>6 DEF Inductive, CallsNumbered
  <2>2. \A g, k \in Handlers : g # k /\ pc'[g] # "idle" /\ pc'[k] # "idle"
                                 => call'[g].id # call'[k].id
    BY <1>2, <1>6 DEF Inductive, CallsNumbered
  <2>3. \A i \in DOMAIN ledger' : ledger'[i].call \in 1 .. calls'
    BY <1>2, <1>6 DEF Inductive, CallsNumbered
  <2> QED
    BY <1>6, <2>1, <2>2, <2>3 DEF CallsNumbered
<1>8. UncommittedIsFresh'
  <2>1. \A i \in DOMAIN ledger : ledger[i].call # call'[h].id
    BY <1>2, <1>6 DEF Inductive, CallsNumbered
  <2> QED
    BY <1>2, <1>3, <2>1 DEF Inductive, UncommittedIsFresh, req
<1>9. AnnouncedSoFar' /\ AnsweredIsCommitted'
  BY <1>2 DEF Inductive, AnnouncedSoFar, AnsweredIsCommitted, req
<1>10. OneRowPerKey' /\ AvailableNeverNegative' /\ CommittedIsAnnounced'
  BY <1>2 DEF Inductive, OneRowPerKey, AvailableNeverNegative, CommittedIsAnnounced
<1> QED
  BY <1>4, <1>5, <1>7, <1>8, <1>9, <1>10 DEF Inductive

(* Taking the row, or reading it for a commission. *)
LEMMA LockInductive ==
  ASSUME Inductive, TypeOK', NEW h \in Handlers, LockAndSave(h) \/ ReadForCommission(h)
  PROVE  Inductive'
<1>1. /\ pc[h] = "lock" /\ pc'[h] = "insert"
      /\ \A g \in Handlers \ {h} : pc'[g] = pc[g] /\ tx'[g] = tx[g]
      /\ UNCHANGED <<wallet, ledger, call, calls, result, announced>>
  BY DEF LockAndSave, ReadForCommission, GoTo, Inductive, TypeOK
<1>2. \A g \in Handlers \ {h} : Written(g)' <=> Written(g)
  BY <1>1 DEF Written
<1>3. \A g \in Handlers : req(g)' = req(g) /\ user(g)' = user(g)
  BY <1>1 DEF req, user
<1>4. user(h) \in Users /\ ~Written(h)
  BY <1>1, CallType DEF Inductive, Written
<1>5. LockedRowIsCurrent'
  <2>1. CASE LockAndSave(h)
    <3>1. /\ wallet[user(h)] # NoWallet
          /\ Covered(req(h), wallet[user(h)])
          /\ tx'[h] = [after |-> Moved(req(h), wallet[user(h)]),
                       row |-> RowOf(req(h), call[h].id, Tracked(req(h), wallet[user(h)]),
                                     Tracked(req(h), Moved(req(h), wallet[user(h)])))]
      BY <2>1 DEF LockAndSave, Inductive, TypeOK
    <3> QED
      BY <1>1, <1>2, <1>3, <3>1 DEF Inductive, LockedRowIsCurrent
  <2>2. CASE ReadForCommission(h)
    <3>1. req(h).op = "commission"
      BY <2>2 DEF ReadForCommission
    <3> QED
      BY <1>1, <1>2, <1>3, <3>1 DEF Inductive, LockedRowIsCurrent
  <2> QED
    BY <2>1, <2>2
<1>6. CommissionMovesNothing'
  <2>1. CASE LockAndSave(h)
    <3>1. req(h).op # "commission"
      BY <2>1 DEF LockAndSave
    <3> QED
      BY <1>1, <1>2, <1>3, <3>1 DEF Inductive, CommissionMovesNothing
  <2>2. CASE ReadForCommission(h)
    <3> DEFINE w == IF wallet[user(h)] = NoWallet THEN EmptyWallet ELSE wallet[user(h)]
    <3>1. tx'[h] = [after |-> w, row |-> RowOf(req(h), call[h].id, w.avail, w.avail)]
      BY <2>2 DEF ReadForCommission, Inductive, TypeOK
    <3>2. tx'[h].row.before = w.avail
      BY <3>1 DEF RowOf
    <3>3. /\ wallet[user(h)] = NoWallet => tx'[h].after = EmptyWallet
          /\ tx'[h].row = RowOf(req(h), call[h].id, tx'[h].row.before, tx'[h].row.before)
      BY <3>1, <3>2
    <3> HIDE DEF w
    <3> QED
      BY <1>1, <1>2, <1>3, <3>3 DEF Inductive, CommissionMovesNothing
  <2> QED
    BY <2>1, <2>2
<1>7. RowsAndKeysExclusive'
  <2>1. req(h).op # "commission" => \A g \in Handlers \ {h} : ~HoldsRow(g, user(h))
    BY DEF LockAndSave, ReadForCommission, RowIsFree
  <2>2. \A g \in Handlers : HoldsKey(g, req(g).key)' => g # h
    BY <1>1 DEF HoldsKey
  <2>3. \A g, k \in Handlers : g # k /\ Written(g)' /\ Written(k)' =>
          ~(HoldsRow(g, user(k))' /\ HoldsRow(k, user(k))')
    BY <1>1, <1>2, <1>3, <1>4, <2>1 DEF Inductive, RowsAndKeysExclusive, HoldsRow
  <2>4. \A g, k \in Handlers : g # k /\ Written(g)' /\ Written(k)' =>
          ~(req(k).key # NoKey /\ HoldsKey(g, req(k).key)' /\ HoldsKey(k, req(k).key)')
    BY <1>1, <1>2, <1>3 DEF Inductive, RowsAndKeysExclusive, HoldsKey
  <2> QED
    BY <1>3, <2>3, <2>4 DEF RowsAndKeysExclusive
<1>8. UncommittedIsFresh'
  BY <1>1, <1>2, <1>3 DEF Inductive, UncommittedIsFresh
<1>9. CallsNumbered' /\ AnnouncedSoFar'
  BY <1>1, <1>3 DEF Inductive, CallsNumbered, AnnouncedSoFar
<1>10. OneRowPerKey' /\ AvailableNeverNegative' /\ AnsweredIsCommitted' /\ CommittedIsAnnounced'
  BY <1>1 DEF Inductive, OneRowPerKey, AvailableNeverNegative, AnsweredIsCommitted,
              CommittedIsAnnounced
<1> QED
  BY <1>5, <1>6, <1>7, <1>8, <1>9, <1>10 DEF Inductive

(* Passing the unique index, and announcing. *)
LEMMA AdvanceInductive ==
  ASSUME Inductive, TypeOK', NEW h \in Handlers,
         Connect(h) \/ CheckNew(h) \/ InsertRow(h) \/ WriteAudit(h) \/ WriteOutbox(h)
  PROVE  Inductive'
<1>1. PICK step \in Steps : step # "idle" /\ GoTo(h, step)
  BY DEF Connect, CheckNew, InsertRow, WriteAudit, WriteOutbox, Steps
<1>2. /\ pc[h] # "idle"
      /\ UNCHANGED <<wallet, ledger, tx>>
      /\ announced \subseteq announced'
  BY DEF Connect, CheckNew, InsertRow, WriteAudit, WriteOutbox
<1>3. pc'[h] = step
  BY <1>1 DEF GoTo, Inductive, TypeOK
<1>4. Written(h)' <=> Written(h)
  BY <1>1, <1>3 DEF Connect, CheckNew, InsertRow, WriteAudit, WriteOutbox, Written, GoTo,
                    Inductive, TypeOK
<1>5. /\ \A g \in Handlers \ {h} : pc'[g] = pc[g]
      /\ \A g \in Handlers : Written(g)' <=> Written(g)
      /\ call' = call
      /\ LockedRowIsCurrent' /\ CommissionMovesNothing' /\ CallsNumbered'
      /\ OneRowPerKey' /\ AvailableNeverNegative' /\ AnsweredIsCommitted'
      /\ CommittedIsAnnounced'
  BY <1>1, <1>2, <1>4, GoToInductive
<1>6. \A g \in Handlers : req(g)' = req(g) /\ user(g)' = user(g)
  BY <1>5 DEF req, user
<1>7. \/ InsertRow(h) /\ pc[h] = "insert" /\ pc'[h] # "insert"
      \/ ~InsertRow(h) /\ (pc'[h] = "insert" <=> pc[h] = "insert")
  BY <1>1, <1>3 DEF Connect, CheckNew, InsertRow, WriteAudit, WriteOutbox, GoTo, Inductive,
                    TypeOK
<1>8. RowsAndKeysExclusive'
  <2>1. \A g, k \in Handlers : g # k /\ Written(g)' /\ Written(k)' =>
          ~(HoldsRow(g, user(k))' /\ HoldsRow(k, user(k))')
    BY <1>5, <1>6 DEF Inductive, RowsAndKeysExclusive, HoldsRow
  <2>2. \A g, k \in Handlers : g # k /\ Written(g)' /\ Written(k)' =>
          ~(req(k).key # NoKey /\ HoldsKey(g, req(k).key)' /\ HoldsKey(k, req(k).key)')
    <3>1. CASE InsertRow(h)
      <4>1. req(h).key # NoKey => \A g \in Handlers \ {h} : ~HoldsKey(g, req(h).key)
        BY <3>1 DEF InsertRow, KeyIsFree
      <4> QED
        BY <1>5, <1>6, <4>1 DEF Inductive, RowsAndKeysExclusive, HoldsKey
    <3>2. CASE ~InsertRow(h)
      BY <1>5, <1>6, <1>7, <3>2 DEF Inductive, RowsAndKeysExclusive, HoldsKey
    <3> QED
      BY <3>1, <3>2
  <2> QED
    BY <1>6, <2>1, <2>2 DEF RowsAndKeysExclusive
<1>9. UncommittedIsFresh'
  <2>1. InsertRow(h) => Fresh(req(h).key, ledger)
    BY DEF InsertRow
  <2> QED
    BY <1>2, <1>5, <1>6, <1>7, <2>1 DEF Inductive, UncommittedIsFresh
<1>10. AnnouncedSoFar'
  <2>1. \A g \in Handlers \ {h} :
          /\ pc'[g] \in {"outbox", "commit"} /\ req(g)'.op \in Audited
               => <<call'[g].id, "audit">> \in announced'
          /\ pc'[g] = "commit" /\ req(g)'.op \in Outboxed
               => <<call'[g].id, "outbox">> \in announced'
    BY <1>2, <1>5, <1>6 DEF Inductive, AnnouncedSoFar
  <2>2. /\ pc'[h] \in {"outbox", "commit"} /\ req(h).op \in Audited
             => <<call[h].id, "audit">> \in announced'
        /\ pc'[h] = "commit" /\ req(h).op \in Outboxed
             => <<call[h].id, "outbox">> \in announced'
    <3>1. CASE Connect(h) \/ CheckNew(h)
      BY <1>3, <3>1 DEF Connect, CheckNew, GoTo, Inductive, TypeOK
    <3>2. CASE InsertRow(h)
      BY <3>2 DEF InsertRow, GoTo, Inductive, TypeOK
    <3>3. CASE WriteAudit(h)
      BY <3>3 DEF WriteAudit, GoTo, Inductive, TypeOK
    <3>4. CASE WriteOutbox(h)
      BY <3>4 DEF WriteOutbox, GoTo, Inductive, TypeOK, AnnouncedSoFar
    <3> QED
      BY <3>1, <3>2, <3>3, <3>4
  <2> QED
    BY <1>5, <1>6, <2>1, <2>2 DEF AnnouncedSoFar
<1> QED
  BY <1>5, <1>8, <1>9, <1>10 DEF Inductive

(* The commit publishes the wallet and its ledger row together. *)
LEMMA CommitInductive ==
  ASSUME Inductive, TypeOK', NEW h \in Handlers, Commit(h)
  PROVE  Inductive'
<1> DEFINE r == req(h)
           u == user(h)
           new == tx[h].row
<1>1. /\ pc[h] = "commit" /\ pc'[h] = "idle"
      /\ \A g \in Handlers \ {h} : pc'[g] = pc[g] /\ tx'[g] = tx[g] /\ result'[g] = result[g]
      /\ UNCHANGED <<call, calls, announced>>
  BY DEF Commit, Return, Inductive, TypeOK
<1>2. /\ r \in Request /\ call[h].id \in Nat /\ u \in Users /\ u = r.user
      /\ Written(h)
  BY <1>1, CallType DEF Inductive, Written, user, req
<1>3. \A g \in Handlers : Written(g)' <=> g # h /\ Written(g)
  BY <1>1 DEF Written
<1>4. \A g \in Handlers : req(g)' = req(g) /\ user(g)' = user(g)
  BY <1>1 DEF req, user
<1>5. /\ new.call = call[h].id /\ new.key = r.key /\ new.op = r.op
      /\ tx[h].after \in Wallet /\ new \in Row
  <2>1. tx[h] \in [after : Wallet, row : Row]
    BY <1>2 DEF Inductive, TypeOK
  <2>2. \E b, a : new = RowOf(r, call[h].id, b, a)
    <3>1. CASE r.op = "commission"
      BY <1>2, <3>1 DEF Inductive, CommissionMovesNothing
    <3>2. CASE r.op # "commission"
      BY <1>2, <3>2, LockedRow DEF Inductive
    <3> QED
      BY <3>1, <3>2
  <2> QED
    BY <2>1, <2>2 DEF RowOf
<1>6. /\ ledger \in Seq(Row)
      /\ ledger' = Append(ledger, new)
      /\ DOMAIN ledger' = DOMAIN ledger \cup {Len(ledger) + 1}
      /\ \A i \in DOMAIN ledger : ledger'[i] = ledger[i]
      /\ ledger'[Len(ledger) + 1] = new
      /\ Len(ledger) + 1 \notin DOMAIN ledger
  BY <1>5 DEF Commit, Inductive, TypeOK
<1>7. /\ \A v \in Users \ {u} : wallet'[v] = wallet[v]
      /\ wallet[u] # NoWallet => wallet'[u] # NoWallet
      /\ wallet'[u] = IF r.op = "commission" /\ wallet[u] # NoWallet
                      THEN wallet[u] ELSE tx[h].after
  BY <1>2, <1>5, MarkersAssumption DEF Commit, Inductive, TypeOK
<1>8. \A g \in Handlers \ {h} : Written(g) => user(g) \in Users
  BY CallType DEF Inductive, Written
<1>9. LockedRowIsCurrent'
  <2>1. SUFFICES ASSUME NEW g \in Handlers, g # h, Written(g), req(g).op # "commission"
                 PROVE  wallet'[user(g)] = wallet[user(g)]
    BY <1>1, <1>3, <1>4 DEF Inductive, LockedRowIsCurrent
  <2>2. CASE user(g) # u
    BY <1>7, <1>8, <2>1, <2>2
  <2>3. CASE user(g) = u
    <3>1. wallet[u] # NoWallet
      BY <2>1, <2>3 DEF Inductive, LockedRowIsCurrent
    <3>2. r.op = "commission"
      BY <1>2, <2>1, <2>3 DEF Inductive, RowsAndKeysExclusive, HoldsRow
    <3> QED
      BY <1>7, <2>3, <3>1, <3>2
  <2> QED
    BY <2>2, <2>3
<1>10. CommissionMovesNothing'
  <2>1. SUFFICES ASSUME NEW g \in Handlers, g # h, Written(g), req(g).op = "commission",
                        wallet'[user(g)] = NoWallet
                 PROVE  wallet[user(g)] = NoWallet
    BY <1>1, <1>3, <1>4 DEF Inductive, CommissionMovesNothing
  <2> QED
    BY <1>7, <1>8, <2>1
<1>11. RowsAndKeysExclusive'
  BY <1>1, <1>3, <1>4 DEF Inductive, RowsAndKeysExclusive, HoldsRow, HoldsKey
<1>12. UncommittedIsFresh'
  <2>1. ASSUME NEW g \in Handlers, g # h, Written(g), pc[g] # "insert"
        PROVE  Fresh(req(g).key, ledger')
    <3>1. Fresh(req(g).key, ledger)
      BY <2>1 DEF Inductive, UncommittedIsFresh
    <3>2. req(g).key # NoKey => req(g).key # r.key
      BY <1>1, <1>2, <2>1 DEF Inductive, RowsAndKeysExclusive, HoldsKey
    <3> QED
      BY <1>5, <1>6, <3>1, <3>2 DEF Fresh
  <2>2. ASSUME NEW g \in Handlers, g # h, pc[g] # "idle"
        PROVE  \A i \in DOMAIN ledger' : ledger'[i].call # call[g].id
    BY <1>1, <1>5, <1>6, <2>2 DEF Inductive, UncommittedIsFresh, CallsNumbered
  <2> QED
    BY <1>1, <1>3, <1>4, <2>1, <2>2 DEF UncommittedIsFresh
<1>13. CallsNumbered'
  <2>1. call[h].id \in 1 .. calls
    BY <1>1 DEF Inductive, CallsNumbered
  <2>2. \A i \in DOMAIN ledger' : ledger'[i].call \in 1 .. calls
    BY <1>5, <1>6, <2>1 DEF Inductive, CallsNumbered
  <2>3. CallsNumbered /\ \A g \in Handlers : pc'[g] # "idle" => pc'[g] = pc[g]
    BY <1>1 DEF Inductive
  <2>4. calls' = calls /\ call' = call
    BY <1>1
  <2> QED
    BY <2>2, <2>3, <2>4 DEF CallsNumbered
<1>14. AnnouncedSoFar'
  BY <1>1, <1>4 DEF Inductive, AnnouncedSoFar
<1>15. OneRowPerKey'
  <2>1. \A i \in DOMAIN ledger : ledger[i].call # new.call
    BY <1>1, <1>5 DEF Inductive, UncommittedIsFresh
  <2>2. new.key # NoKey => \A i \in DOMAIN ledger : ledger[i].key # new.key
    BY <1>1, <1>2, <1>5 DEF Inductive, UncommittedIsFresh, Fresh
  <2> QED
    BY <1>6, <2>1, <2>2 DEF Inductive, OneRowPerKey
<1>16. AvailableNeverNegative'
  <2>1. CASE r.op = "commission"
    <3>1. wallet[u] = NoWallet => tx[h].after = EmptyWallet
      BY <1>2, <2>1 DEF Inductive, CommissionMovesNothing
    <3>2. EmptyWallet.avail >= 0
      BY DEF EmptyWallet
    <3> QED
      BY <1>2, <1>7, <2>1, <3>1, <3>2 DEF Inductive, AvailableNeverNegative
  <2>2. CASE r.op # "commission"
    <3>1. /\ wallet[u] # NoWallet
          /\ Covered(r, wallet[u])
          /\ tx[h].after = Moved(r, wallet[u])
      BY <1>2, <2>2, LockedRow DEF Inductive
    <3>2. wallet[u] \in Wallet /\ wallet[u].avail >= 0
      BY <1>2, <3>1 DEF Inductive, TypeOK, AvailableNeverNegative, user, req
    <3>3. tx[h].after.avail >= 0
      BY <1>2, <3>1, <3>2, MovedNonNegative
    <3> QED
      BY <1>2, <1>7, <2>2, <3>3 DEF Inductive, AvailableNeverNegative
  <2> QED
    BY <2>1, <2>2
<1>17. AnsweredIsCommitted'
  <2>1. \E i \in DOMAIN ledger' : ledger'[i].call = call'[h].id
    BY <1>1, <1>5, <1>6
  <2> QED
    BY <1>1, <1>6, <2>1 DEF Inductive, AnsweredIsCommitted
<1>18. CommittedIsAnnounced'
  <2>1. /\ new.op \in Audited => <<new.call, "audit">> \in announced
        /\ new.op \in Outboxed => <<new.call, "outbox">> \in announced
    BY <1>1, <1>5 DEF Inductive, AnnouncedSoFar
  <2> QED
    BY <1>1, <1>6, <2>1 DEF Inductive, CommittedIsAnnounced
<1> QED
  BY <1>9, <1>10, <1>11, <1>12, <1>13, <1>14, <1>15, <1>16, <1>17, <1>18 DEF Inductive

LEMMA NextInductive == Inductive /\ [Next]_vars => Inductive'
<1> SUFFICES ASSUME Inductive, [Next]_vars
             PROVE  Inductive'
  OBVIOUS
<1>1. TypeOK'
  BY NextType DEF Inductive
<1>2. CASE UNCHANGED vars
  <2>1. \A h \in Handlers : /\ Written(h)' <=> Written(h)
                            /\ req(h)' = req(h)
                            /\ user(h)' = user(h)
    BY <1>2 DEF vars, Written, req, user
  <2>2. LockedRowIsCurrent' /\ CommissionMovesNothing'
    BY <1>2, <2>1 DEF vars, Inductive, LockedRowIsCurrent, CommissionMovesNothing
  <2>3. RowsAndKeysExclusive' /\ UncommittedIsFresh'
    BY <1>2, <2>1 DEF vars, Inductive, RowsAndKeysExclusive, UncommittedIsFresh, HoldsRow,
                      HoldsKey
  <2>4. CallsNumbered' /\ AnnouncedSoFar' /\ OneRowPerKey'
    BY <1>2, <2>1 DEF vars, Inductive, CallsNumbered, AnnouncedSoFar, OneRowPerKey
  <2>5. AvailableNeverNegative' /\ AnsweredIsCommitted' /\ CommittedIsAnnounced'
    BY <1>2 DEF vars, Inductive, AvailableNeverNegative, AnsweredIsCommitted,
                CommittedIsAnnounced
  <2> QED
    BY <1>1, <2>2, <2>3, <2>4, <2>5 DEF Inductive
<1>3. ASSUME NEW u \in Users, GetBalance(u)
      PROVE  Inductive'
  BY <1>1, <1>3, OpenInductive DEF GetBalance
<1>4. ASSUME NEW h \in Handlers, Begin(h)
      PROVE  Inductive'
  BY <1>1, <1>4, BeginInductive
<1>5. ASSUME NEW h \in Handlers, LockMissing(h) \/ LockRefused(h) \/ InsertDuplicate(h)
                                \/ PoolTimeout(h) \/ Abort(h)
      PROVE  Inductive'
  <2>1. PICK answer \in {"prepared", "notFound", "refused", "failed"} : Return(h, answer)
    BY <1>5 DEF LockMissing, LockRefused, InsertDuplicate, PoolTimeout, Abort
  <2>2. UNCHANGED <<wallet, ledger, announced>>
    BY <1>5 DEF LockMissing, LockRefused, InsertDuplicate, PoolTimeout, Abort
  <2> QED
    BY <1>1, <2>1, <2>2, ReturnInductive
<1>6. ASSUME NEW h \in Handlers, CheckExisting(h)
      PROVE  Inductive'
  BY <1>1, <1>6, ExistingInductive
<1>7. ASSUME NEW h \in Handlers, Step(h)
      PROVE  Inductive'
  BY <1>1, <1>5, <1>6, <1>7, AdvanceInductive, LockInductive, CommitInductive DEF Step
<1> QED
  BY <1>2, <1>3, <1>4, <1>5, <1>7 DEF Next

(* The invariant holds in every state of the service. *)
THEOREM InductiveInvariant == Spec => []Inductive
BY InitInductive, NextInductive, PTL DEF Spec

(* No debit and no lock overdraws a wallet. *)
THEOREM NeverOverdrawn == Spec => []AvailableNeverNegative
BY InductiveInvariant, PTL DEF Inductive

(* A key and a call move money at most once. *)
THEOREM AtMostOnce == Spec => []OneRowPerKey
BY InductiveInvariant, PTL DEF Inductive

(* A caller told "ok" finds the row in the ledger, now and for ever. *)
THEOREM AnswersAreDurable == Spec => []AnsweredIsCommitted
BY InductiveInvariant, PTL DEF Inductive

(* No committed movement lacks its audit row or its outbox event. *)
THEOREM NoMovementUnannounced == Spec => []CommittedIsAnnounced
BY InductiveInvariant, PTL DEF Inductive

-----------------------------------------------------------------------------
(* The service implements the atomic ledger. *)

LEMMA InitRefines == Init => Ledger!LedgerInit
BY DEF Init, Ledger!LedgerInit

LEMMA CommitRefines ==
  ASSUME Inductive, NEW h \in Handlers, Commit(h)
  PROVE  Ledger!LedgerNext
<1> DEFINE r == req(h)
           id == call[h].id
<1>1. Written(h) /\ pc[h] = "commit"
  BY DEF Commit, Written
<1>2. r \in Requests /\ id \in 1 .. MaxCalls /\ user(h) = r.user
  <2>1. call[h] \in [req : Requests, id : Nat]
    BY <1>1 DEF Inductive, TypeOK
  <2>2. id \in 1 .. calls /\ calls \in 0 .. MaxCalls
    BY <1>1 DEF Inductive, CallsNumbered
  <2> QED
    BY <2>1, <2>2, BoundsAssumption DEF req, user
<1>3. Ledger!NewEntry(r, id)
  <2>1. Fresh(r.key, ledger)
    BY <1>1 DEF Inductive, UncommittedIsFresh
  <2>2. \A i \in DOMAIN ledger : ledger[i].call # id
    BY <1>1 DEF Inductive, UncommittedIsFresh
  <2> QED
    BY <2>1, <2>2 DEF Ledger!NewEntry, Ledger!Fresh, Fresh
<1>4. CASE r.op # "commission"
  <2>1. LockedRowIsCurrent
    BY DEF Inductive
  <2>2. /\ wallet[r.user] # NoWallet
        /\ Covered(r, wallet[r.user])
        /\ tx[h].after = Moved(r, wallet[r.user])
        /\ tx[h].row = RowOf(r, id, Tracked(r, wallet[r.user]),
                             Tracked(r, Moved(r, wallet[r.user])))
    BY <1>1, <1>2, <1>4, <2>1, LockedRow
  <2>3. /\ wallet' = [wallet EXCEPT ![r.user] = Moved(r, wallet[r.user])]
        /\ ledger' = Append(ledger, tx[h].row)
    BY <1>2, <1>4, <2>2 DEF Commit
  <2>4. Ledger!Move(r, id)
    BY <1>3, <1>4, <2>2, <2>3
       DEF Ledger!Move, Ledger!Covered, Covered, Ledger!Moved, Moved, Ledger!Adjusted, Adjusted,
           Ledger!RowOf, RowOf, Ledger!Tracked, Tracked
  <2> QED
    BY <1>2, <2>4 DEF Ledger!LedgerNext
<1>5. CASE r.op = "commission"
  <2> DEFINE b == tx[h].row.before
  <2>1. /\ wallet[r.user] = NoWallet => tx[h].after = EmptyWallet
        /\ tx[h].row = RowOf(r, id, b, b)
    BY <1>1, <1>2, <1>5 DEF Inductive, CommissionMovesNothing
  <2>2. wallet' = [wallet EXCEPT ![r.user] = IF @ = NoWallet THEN EmptyWallet ELSE @]
    BY <1>2, <1>5, <2>1 DEF Commit, Inductive, TypeOK
  <2>3. tx[h].row \in Row /\ ledger \in Seq(Row) /\ b \in Int
    BY <1>1 DEF Inductive, TypeOK, Row
  <2>4. /\ ledger' = Append(ledger, RowOf(r, id, b, b))
        /\ Len(ledger') = Len(ledger) + 1
        /\ ledger'[Len(ledger')] = tx[h].row
    BY <2>1, <2>3 DEF Commit
  <2>5. Ledger!NoteCommission(r, id)
    BY <1>3, <1>5, <2>2, <2>3, <2>4
       DEF Ledger!NoteCommission, Ledger!RowOf, RowOf, Ledger!EmptyWallet, EmptyWallet
  <2> QED
    BY <1>2, <2>5 DEF Ledger!LedgerNext
<1> QED
  BY <1>4, <1>5

LEMMA NextRefines ==
  Inductive /\ [Next]_vars => [Ledger!LedgerNext]_<<wallet, ledger>>
<1> SUFFICES ASSUME Inductive, [Next]_vars
             PROVE  Ledger!LedgerNext \/ UNCHANGED <<wallet, ledger>>
  OBVIOUS
<1>1. CASE UNCHANGED vars
  BY <1>1 DEF vars
<1>2. ASSUME NEW u \in Users, wallet[u] = NoWallet,
             wallet' = [wallet EXCEPT ![u] = EmptyWallet], UNCHANGED ledger
      PROVE  Ledger!LedgerNext
  BY <1>2 DEF Ledger!LedgerNext, Ledger!OpenWallet, Ledger!EmptyWallet, EmptyWallet
<1>3. ASSUME NEW u \in Users, GetBalance(u)
      PROVE  Ledger!LedgerNext
  BY <1>2, <1>3 DEF GetBalance
<1>4. ASSUME NEW h \in Handlers, CheckExisting(h)
      PROVE  Ledger!LedgerNext \/ UNCHANGED <<wallet, ledger>>
  <2>1. user(h) \in Users
    BY <1>4, CallType DEF CheckExisting, Inductive
  <2> QED
    BY <1>2, <1>4, <2>1 DEF CheckExisting
<1>5. ASSUME NEW h \in Handlers, Begin(h) \/ Step(h) \/ Abort(h), ~Commit(h), ~CheckExisting(h)
      PROVE  UNCHANGED <<wallet, ledger>>
  BY <1>5 DEF Begin, Abort, Step, Connect, CheckNew, LockMissing, LockRefused, LockAndSave,
              ReadForCommission, InsertRow, InsertDuplicate, WriteAudit, WriteOutbox, PoolTimeout
<1> QED
  BY <1>1, <1>3, <1>4, <1>5, CommitRefines DEF Next

(* Every behaviour of the service, with its locks, aborts, retries and     *)
(* pool timeouts, is a behaviour of the atomic ledger.                     *)
THEOREM Refinement == Spec => ImplementsAtomicLedger
<1>1. Init => Ledger!LedgerInit
  BY InitRefines
<1>2. Inductive /\ [Next]_vars => [Ledger!LedgerNext]_(Ledger!ledgerVars)
  BY NextRefines DEF Ledger!ledgerVars
<1> QED
  BY <1>1, <1>2, InductiveInvariant, PTL DEF Spec, ImplementsAtomicLedger, Ledger!LedgerSpec
-----------------------------------------------------------------------------
(* The ledger explains the balances.  The recursion of Replay is replaced  *)
(* by the balances themselves: b[i] is what u had after row i.  A step of  *)
(* the atomic ledger adds a row and a balance, or opens an empty wallet.   *)

Balances(rows, u, b) ==
  /\ b \in [0 .. Len(rows) -> Wallet]
  /\ b[0] = EmptyWallet
  /\ \A i \in 1 .. Len(rows) :
       b[i] = IF rows[i].user = u THEN Moved(rows[i], b[i - 1]) ELSE b[i - 1]

Explained(rows, w, u) ==
  IF w = NoWallet THEN \A i \in DOMAIN rows : rows[i].user # u
                  ELSE \E b : Balances(rows, u, b) /\ b[Len(rows)] = w

Moves(rows, i, u) == rows[i].user = u /\ rows[i].op \notin {"release", "commission"}

(* Row i of u starts where the one before it ended. *)
Linked(rows, i, u) ==
  \/ \E j \in 1 .. i - 1 :
       /\ Moves(rows, j, u)
       /\ rows[j].after = rows[i].before
       /\ \A k \in j + 1 .. i - 1 : ~Moves(rows, k, u)
  \/ rows[i].before = 0 /\ \A j \in 1 .. i - 1 : ~Moves(rows, j, u)

(* The available balance is where the last row of u ended, or nothing yet. *)
Ended(rows, w, u) ==
  \/ /\ w # NoWallet
     /\ \E j \in 1 .. Len(rows) :
          /\ Moves(rows, j, u)
          /\ rows[j].after = w.avail
          /\ \A k \in j + 1 .. Len(rows) : ~Moves(rows, k, u)
  \/ /\ \A k \in 1 .. Len(rows) : ~Moves(rows, k, u)
     /\ w # NoWallet => w.avail = 0

Chained(rows, w, u) ==
  /\ \A i \in 1 .. Len(rows) : Moves(rows, i, u) => Linked(rows, i, u)
  /\ Ended(rows, w, u)

LedgerRight ==
  \A u \in Users : Explained(ledger, wallet[u], u) /\ Chained(ledger, wallet[u], u)

(* The wallet as an operation finds it: opened when it was not there.      *)
Held(u) == IF wallet[u] = NoWallet THEN EmptyWallet ELSE wallet[u]

Recorded(row) ==
  /\ row \in Row
  /\ ledger' = Append(ledger, row)
  /\ wallet' = [wallet EXCEPT ![row.user] = Moved(row, Held(row.user))]
  /\ row.op \notin {"release", "commission"} =>
       row.before = Held(row.user).avail /\ row.after = Moved(row, Held(row.user)).avail

Opened(u) ==
  /\ wallet[u] = NoWallet
  /\ wallet' = [wallet EXCEPT ![u] = EmptyWallet]
  /\ ledger' = ledger

(* What moves a wallet is in the row. *)
LEMMA MovedByRow ==
  ASSUME NEW r \in Request, NEW w \in Wallet, NEW id, NEW b, NEW a
  PROVE  Moved(RowOf(r, id, b, a), w) = Moved(r, w)
BY DEF Moved, RowOf, Request, Ops

LEMMA HeldType ==
  ASSUME TypeOK, NEW u \in Users
  PROVE  Held(u) \in Wallet
BY DEF TypeOK, Held, EmptyWallet, Wallet

(* Every step of the atomic ledger opens a wallet or records an operation. *)
LEMMA LedgerSteps ==
  ASSUME TypeOK, Ledger!LedgerNext
  PROVE  (\E u \in Users : Opened(u)) \/ \E row : Recorded(row)
<1>1. ASSUME NEW u \in Users, Ledger!OpenWallet(u)
      PROVE  Opened(u)
  BY <1>1 DEF Ledger!OpenWallet, Ledger!EmptyWallet, EmptyWallet, Opened
<1>2. ASSUME NEW r \in Requests, NEW id \in 1 .. MaxCalls, Ledger!Move(r, id)
      PROVE  \E row : Recorded(row)
  <2> DEFINE w == wallet[r.user]
             row == RowOf(r, id, Tracked(r, w), Tracked(r, Moved(r, w)))
  <2>1. r \in Request /\ r.user \in Users /\ r.op # "commission" /\ w # NoWallet
    BY <1>2, RequestsAssumption DEF Ledger!Move, Request
  <2>2. w \in Wallet /\ Held(r.user) = w
    BY <2>1 DEF TypeOK, Held
  <2>3. /\ wallet' = [wallet EXCEPT ![r.user] = Moved(r, w)]
        /\ ledger' = Append(ledger, row)
    BY <1>2 DEF Ledger!Move, Ledger!Moved, Moved, Ledger!Adjusted, Adjusted,
                Ledger!RowOf, RowOf, Ledger!Tracked, Tracked
  <2>4. Moved(r, w) \in Wallet /\ Tracked(r, w) \in Int /\ Tracked(r, Moved(r, w)) \in Int
    BY <2>1, <2>2, MovedType, TrackedType
  <2>5. row \in Row
    BY <2>1, <2>4, BoundsAssumption, RowType
  <2>6. Moved(row, w) = Moved(r, w)
    BY <2>1, <2>2, MovedByRow
  <2>7. /\ row.user = r.user /\ row.op = r.op
        /\ row.before = Tracked(r, w) /\ row.after = Tracked(r, Moved(r, w))
    BY DEF RowOf
  <2>8. row.op # "release" => row.before = w.avail /\ row.after = Moved(r, w).avail
    BY <2>7 DEF Tracked
  <2> HIDE DEF row, w
  <2> QED
    BY <2>2, <2>3, <2>5, <2>6, <2>7, <2>8 DEF Recorded
<1>3. ASSUME NEW r \in Requests, NEW id \in 1 .. MaxCalls, Ledger!NoteCommission(r, id)
      PROVE  \E row : Recorded(row)
  <2>1. r \in Request /\ r.user \in Users /\ r.op = "commission"
    BY <1>3, RequestsAssumption DEF Ledger!NoteCommission, Request
  <2>2. PICK b \in Int : ledger' = Append(ledger, RowOf(r, id, b, b))
    BY <1>3 DEF Ledger!NoteCommission, Ledger!RowOf, RowOf
  <2> DEFINE row == RowOf(r, id, b, b)
  <2>3. row \in Row
    BY <2>1, BoundsAssumption, RowType
  <2>4. row.user = r.user /\ row.op = "commission"
    BY <2>1 DEF RowOf
  <2>5. Moved(row, Held(r.user)) = Held(r.user)
    BY <2>4 DEF Moved
  <2>6. wallet' = [wallet EXCEPT ![r.user] = Held(r.user)]
    BY <1>3 DEF Ledger!NoteCommission, Ledger!EmptyWallet, EmptyWallet, Held
  <2> HIDE DEF row
  <2> QED
    BY <2>2, <2>3, <2>4, <2>5, <2>6 DEF Recorded, row
<1> QED
  BY <1>1, <1>2, <1>3 DEF Ledger!LedgerNext

(* A row adds a balance to the history of its user, and to no other's.     *)
LEMMA RecordExplains ==
  ASSUME TypeOK, NEW row, Recorded(row), NEW u \in Users,
         Explained(ledger, wallet[u], u)
  PROVE  Explained(ledger', wallet'[u], u)
<1> DEFINE n == Len(ledger)
           w == Held(row.user)
<1>1. /\ ledger \in Seq(Row) /\ row \in Row /\ n \in Nat
      /\ Len(ledger') = n + 1 /\ ledger'[n + 1] = row
      /\ \A i \in 1 .. n : ledger'[i] = ledger[i]
  BY DEF Recorded, TypeOK
<1>2. row.user \in Users /\ w \in Wallet /\ Moved(row, w) \in Wallet
  <2>1. row.user \in Users /\ row.op \in Ops /\ row.amount \in Nat
    BY <1>1 DEF Row
  <2>2. w \in Wallet
    BY <2>1, HeldType
  <2> QED
    BY <2>1, <2>2 DEF Moved, Adjusted, Wallet, Ops
<1>3. wallet' = [wallet EXCEPT ![row.user] = Moved(row, w)]
  BY DEF Recorded
<1>4. CASE wallet[u] = NoWallet /\ u # row.user
  <2>1. wallet'[u] = NoWallet
    BY <1>2, <1>3, <1>4 DEF TypeOK
  <2>2. \A i \in 1 .. n + 1 : ledger'[i].user # u
    BY <1>1, <1>4 DEF Explained
  <2> QED
    BY <1>1, <2>1, <2>2 DEF Explained
<1>5. CASE wallet[u] # NoWallet \/ u = row.user
  <2>1. PICK b : Balances(ledger, u, b) /\ b[n] = Held(u)
    <3>1. CASE wallet[u] # NoWallet
      BY <3>1 DEF Explained, Held
    <3>2. CASE wallet[u] = NoWallet
      <4> DEFINE c == [i \in 0 .. n |-> EmptyWallet]
      <4>1. c \in [0 .. n -> Wallet] /\ c[0] = EmptyWallet /\ c[n] = EmptyWallet
        BY <1>1 DEF EmptyWallet, Wallet
      <4>2. \A i \in 1 .. n : ledger[i].user # u
        BY <1>1, <3>2 DEF Explained
      <4>3. \A i \in 1 .. n : c[i] = EmptyWallet /\ c[i - 1] = EmptyWallet
        BY <1>1
      <4> HIDE DEF c
      <4>4. Balances(ledger, u, c)
        BY <4>1, <4>2, <4>3 DEF Balances
      <4> QED
        BY <3>2, <4>1, <4>4 DEF Held
    <3> QED
      BY <3>1, <3>2
  <2> DEFINE new == IF u = row.user THEN Moved(row, w) ELSE Held(u)
             d == [i \in 0 .. n + 1 |-> IF i = n + 1 THEN new ELSE b[i]]
  <2>2. wallet'[u] = new /\ new \in Wallet /\ wallet'[u] # NoWallet
    <3>1. new \in Wallet
      BY <1>2, HeldType
    <3>2. wallet'[u] = new
      BY <1>2, <1>3, <1>5 DEF TypeOK, Held
    <3> HIDE DEF new
    <3> QED
      BY <3>1, <3>2, MarkersAssumption
  <2>3. /\ b \in [0 .. n -> Wallet] /\ b[0] = EmptyWallet
        /\ \A i \in 1 .. n :
             b[i] = IF ledger[i].user = u THEN Moved(ledger[i], b[i - 1]) ELSE b[i - 1]
    BY <2>1 DEF Balances
  <2>4. /\ d \in [0 .. n + 1 -> Wallet] /\ d[0] = EmptyWallet /\ d[n + 1] = new
        /\ \A i \in 0 .. n : d[i] = b[i]
    <3> HIDE DEF new
    <3> QED
      BY <1>1, <2>2, <2>3
  <2>5. new = IF row.user = u THEN Moved(row, b[n]) ELSE b[n]
    BY <2>1
  <2> HIDE DEF d, new
  <2>6. ASSUME NEW i \in 1 .. n + 1
        PROVE  d[i] = IF ledger'[i].user = u THEN Moved(ledger'[i], d[i - 1]) ELSE d[i - 1]
    <3>1. CASE i = n + 1
      <4>1. i - 1 = n /\ d[i - 1] = b[n] /\ ledger'[i] = row /\ d[i] = new
        BY <1>1, <2>4, <3>1
      <4> QED
        BY <2>5, <4>1
    <3>2. CASE i # n + 1
      <4>1. i \in 1 .. n /\ i \in 0 .. n /\ i - 1 \in 0 .. n
        BY <1>1, <3>2
      <4>2. d[i] = b[i] /\ d[i - 1] = b[i - 1] /\ ledger'[i] = ledger[i]
        BY <1>1, <2>4, <4>1
      <4> QED
        BY <2>3, <4>1, <4>2
    <3> QED
      BY <3>1, <3>2
  <2>7. Balances(ledger', u, d)
    BY <1>1, <2>4, <2>6 DEF Balances
  <2>8. Len(ledger') = n + 1 /\ d[Len(ledger')] = wallet'[u]
    BY <1>1, <2>2, <2>4
  <2> QED
    BY <2>2, <2>7, <2>8 DEF Explained
<1> QED
  BY <1>4, <1>5

(* A row that moves the available balance starts where the chain ended.    *)
LEMMA RecordChains ==
  ASSUME TypeOK, NEW row, Recorded(row), NEW u \in Users,
         Chained(ledger, wallet[u], u)
  PROVE  Chained(ledger', wallet'[u], u)
<1> DEFINE n == Len(ledger)
           moves == row.user = u /\ row.op \notin {"release", "commission"}
<1>1. /\ ledger \in Seq(Row) /\ row \in Row /\ n \in Nat
      /\ Len(ledger') = n + 1 /\ ledger'[n + 1] = row
      /\ \A i \in 1 .. n : ledger'[i] = ledger[i]
  BY DEF Recorded, TypeOK
<1>2. /\ \A i \in 1 .. n : Moves(ledger', i, u) <=> Moves(ledger, i, u)
      /\ Moves(ledger', n + 1, u) <=> moves
  BY <1>1 DEF Moves
<1>3. \A i \in 1 .. n : Linked(ledger, i, u) => Linked(ledger', i, u)
  <2> SUFFICES ASSUME NEW i \in 1 .. n, Linked(ledger, i, u)
               PROVE  Linked(ledger', i, u)
    OBVIOUS
  <2>1. \A j \in 1 .. i - 1 : j \in 1 .. n /\ \A k \in j + 1 .. i - 1 : k \in 1 .. n
    BY <1>1
  <2> QED
    BY <1>1, <1>2, <2>1 DEF Linked
<1>4. Held(u).avail \in Int /\ Moved(row, Held(row.user)) \in Wallet
  <2>1. row.user \in Users /\ row.op \in Ops /\ row.amount \in Nat
    BY <1>1 DEF Row
  <2>2. Held(row.user) \in Wallet /\ Held(u) \in Wallet
    BY <2>1, HeldType
  <2> QED
    BY <2>1, <2>2 DEF Moved, Adjusted, Wallet, Ops
<1>5. /\ \/ \E j \in 1 .. n :
              /\ Moves(ledger, j, u)
              /\ ledger[j].after = Held(u).avail
              /\ \A k \in j + 1 .. n : ~Moves(ledger, k, u)
         \/ Held(u).avail = 0 /\ \A k \in 1 .. n : ~Moves(ledger, k, u)
  BY DEF Chained, Ended, Held, EmptyWallet
<1>6. CASE moves
  <2>1. row.before = Held(u).avail /\ row.after = Moved(row, Held(u)).avail
    BY <1>6 DEF Recorded
  <2>2. wallet'[u] = Moved(row, Held(u)) /\ wallet'[u] # NoWallet
    BY <1>4, <1>6, MarkersAssumption DEF Recorded, TypeOK
  <2>3. Linked(ledger', n + 1, u)
    <3>1. (n + 1) - 1 = n
      BY <1>1
    <3>2. \A j \in 1 .. n : \A k \in j + 1 .. n : k \in 1 .. n
      BY <1>1
    <3> QED
      BY <1>1, <1>2, <1>5, <2>1, <3>1, <3>2 DEF Linked
  <2>4. Ended(ledger', wallet'[u], u)
    <3>1. n + 1 \in 1 .. n + 1 /\ (n + 1) + 1 .. n + 1 = {}
      BY <1>1
    <3> QED
      BY <1>1, <1>2, <1>6, <2>1, <2>2, <3>1 DEF Ended
  <2>5. \A i \in 1 .. n + 1 : i \in 1 .. n \/ i = n + 1
    BY <1>1
  <2> QED
    BY <1>1, <1>2, <1>3, <2>3, <2>4, <2>5 DEF Chained
<1>7. CASE ~moves
  <2>1. \A i \in 1 .. n + 1 : i \in 1 .. n \/ i = n + 1
    BY <1>1
  <2>2. \/ wallet'[u] = wallet[u]
        \/ wallet'[u] # NoWallet /\ wallet'[u].avail = Held(u).avail
    <3>1. CASE row.user # u
      BY <3>1 DEF Recorded, TypeOK
    <3>2. CASE row.user = u
      <4>1. wallet'[u] = Moved(row, Held(u)) /\ wallet'[u] # NoWallet
        BY <1>4, <3>2, MarkersAssumption DEF Recorded, TypeOK
      <4>2. Held(u) \in Wallet
        BY HeldType
      <4>3. Moved(row, Held(u)).avail = Held(u).avail
        BY <1>1, <1>7, <3>2, <4>2 DEF Moved, Adjusted, Wallet
      <4> QED
        BY <4>1, <4>3
    <3> QED
      BY <3>1, <3>2
  <2>3. Ended(ledger', wallet'[u], u)
    <3>1. CASE \E j \in 1 .. n :
                 /\ wallet[u] # NoWallet
                 /\ Moves(ledger, j, u)
                 /\ ledger[j].after = wallet[u].avail
                 /\ \A k \in j + 1 .. n : ~Moves(ledger, k, u)
      <4>1. PICK j \in 1 .. n :
              /\ wallet[u] # NoWallet
              /\ Moves(ledger, j, u)
              /\ ledger[j].after = wallet[u].avail
              /\ \A k \in j + 1 .. n : ~Moves(ledger, k, u)
        BY <3>1
      <4>2. wallet'[u] # NoWallet /\ wallet'[u].avail = wallet[u].avail
        BY <2>2, <4>1 DEF Held
      <4>3. j \in 1 .. n + 1 /\ \A k \in j + 1 .. n + 1 : k \in j + 1 .. n \/ k = n + 1
        BY <1>1
      <4>4. \A k \in j + 1 .. n : k \in 1 .. n
        BY <1>1
      <4> QED
        BY <1>1, <1>2, <1>7, <4>1, <4>2, <4>3, <4>4 DEF Ended
    <3>2. CASE /\ \A k \in 1 .. n : ~Moves(ledger, k, u)
               /\ wallet[u] # NoWallet => wallet[u].avail = 0
      <4>1. wallet'[u] # NoWallet => wallet'[u].avail = 0
        BY <2>2, <3>2 DEF Held, EmptyWallet
      <4> QED
        BY <1>1, <1>2, <1>7, <2>1, <3>2, <4>1 DEF Ended
    <3> QED
      BY <3>1, <3>2 DEF Chained, Ended
  <2> QED
    BY <1>1, <1>2, <1>3, <1>7, <2>1, <2>3 DEF Chained
<1> QED
  BY <1>6, <1>7

(* A wallet is opened empty, with no row behind it. *)
LEMMA OpenKeeps ==
  ASSUME TypeOK, NEW v \in Users, Opened(v), NEW u \in Users,
         Explained(ledger, wallet[u], u), Chained(ledger, wallet[u], u)
  PROVE  Explained(ledger', wallet'[u], u) /\ Chained(ledger', wallet'[u], u)
<1>1. ledger' = ledger /\ wallet[v] = NoWallet /\ wallet'[v] = EmptyWallet
  BY DEF Opened, TypeOK
<1>2. CASE u # v
  <2>1. wallet'[u] = wallet[u]
    BY <1>2 DEF Opened, TypeOK
  <2> QED
    BY <1>1, <2>1
<1>3. CASE u = v
  <2>1. EmptyWallet \in Wallet /\ EmptyWallet # NoWallet /\ EmptyWallet.avail = 0
    BY MarkersAssumption DEF EmptyWallet, Wallet
  <2>2. \A i \in 1 .. Len(ledger) : ledger[i].user # u
    BY <1>1, <1>3 DEF Explained, TypeOK
  <2>3. Explained(ledger', wallet'[u], u)
    <3> DEFINE n == Len(ledger)
               b == [i \in 0 .. n |-> EmptyWallet]
    <3>1. n \in Nat
      BY DEF TypeOK
    <3>2. b \in [0 .. n -> Wallet] /\ b[0] = EmptyWallet /\ b[n] = EmptyWallet
      BY <2>1, <3>1
    <3>3. \A i \in 1 .. n : b[i] = EmptyWallet /\ b[i - 1] = EmptyWallet
      BY <3>1
    <3> HIDE DEF b
    <3>4. Balances(ledger, u, b)
      BY <2>2, <3>2, <3>3 DEF Balances
    <3> QED
      BY <1>1, <1>3, <2>1, <3>2, <3>4 DEF Explained
  <2>4. Chained(ledger', wallet'[u], u)
    BY <1>1, <1>3, <2>1, <2>2 DEF Chained, Ended, Moves
  <2> QED
    BY <2>3, <2>4
<1> QED
  BY <1>2, <1>3

(* The histories and the chains survive every step of the service. *)
LEMMA LedgerStaysRight ==
  ASSUME Inductive, LedgerRight, [Next]_vars
  PROVE  LedgerRight'
<1>1. TypeOK /\ [Ledger!LedgerNext]_<<wallet, ledger>>
  BY NextRefines DEF Inductive
<1>2. CASE UNCHANGED <<wallet, ledger>>
  BY <1>2 DEF LedgerRight
<1>3. ASSUME NEW v \in Users, Opened(v)
      PROVE  LedgerRight'
  BY <1>1, <1>3, OpenKeeps DEF LedgerRight
<1>4. ASSUME NEW row, Recorded(row)
      PROVE  LedgerRight'
  BY <1>1, <1>4, RecordExplains, RecordChains DEF LedgerRight
<1> QED
  BY <1>1, <1>2, <1>3, <1>4, LedgerSteps

LEMMA LedgerStartsRight == Init => LedgerRight
<1> SUFFICES ASSUME Init, NEW u \in Users
             PROVE  Explained(<<>>, NoWallet, u) /\ Chained(<<>>, NoWallet, u)
  <2>1. ASSUME Init, NEW u \in Users
        PROVE  ledger = <<>> /\ wallet[u] = NoWallet
    BY <2>1 DEF Init
  <2> QED
    BY <2>1 DEF LedgerRight
<1> QED
  BY DEF Explained, Chained, Ended

THEOREM LedgerRightInvariant == Spec => []LedgerRight
<1>1. Inductive /\ LedgerRight /\ [Next]_vars => LedgerRight'
  BY LedgerStaysRight
<1> QED
  BY <1>1, LedgerStartsRight, InductiveInvariant, PTL DEF Spec

(* Replay's recursion has one solution: the balances.  At the first place  *)
(* where two solutions differ they would have the same predecessor.        *)
LEMMA ReplayIsBalance ==
  ASSUME TypeOK, NEW u \in Users, NEW b, Balances(ledger, u, b)
  PROVE  Replay(u) = b[Len(ledger)]
<1> DEFINE n == Len(ledger)
           After(w, i) == IF i = 0 THEN EmptyWallet
                          ELSE IF ledger[i].user = u THEN Moved(ledger[i], w[i - 1])
                               ELSE w[i - 1]
           Solves(w) == w = [i \in 0 .. n |-> After(w, i)]
           w0 == CHOOSE w : Solves(w)
<1>1. n \in Nat
  BY DEF TypeOK
<1>2. \A i \in 0 .. n : b[i] = After(b, i)
  BY <1>1 DEF Balances
<1>3. b = [i \in 0 .. n |-> b[i]]
  BY DEF Balances
<1>4. Solves(b)
  <2> HIDE DEF After
  <2> QED
    BY <1>2, <1>3
<1>5. Solves(w0)
  <2> HIDE DEF Solves
  <2> QED
    BY <1>4
<1>6. Replay(u) = w0[n]
  BY DEF Replay
<1>7. \A i \in 0 .. n : w0[i] = After(w0, i)
  <2> HIDE DEF w0, After
  <2> QED
    BY <1>5
<1> HIDE DEF w0
<1>8. \A i \in 0 .. n : w0[i] = b[i]
  <2> DEFINE Differ == {i \in 0 .. n : w0[i] # b[i]}
  <2> SUFFICES ASSUME Differ # {}
               PROVE  FALSE
    OBVIOUS
  <2>1. PICK i \in Differ : \A j \in Differ : i <= j
    <3> DEFINE Below == {0 .. j : j \in Differ}
    <3>1. IsWellFoundedOn(StrictSubsetOrdering(0 .. n), SUBSET (0 .. n))
      <4>1. IsFiniteSet(0 .. n)
        BY <1>1, FS_Interval
      <4> QED
        BY <4>1, FS_FiniteSubsetsOfFinite, FS_StrictSubsetOrderingWellFounded
    <3>2. Below \subseteq SUBSET (0 .. n) /\ Below # {}
      BY <1>1
    <3> HIDE DEF Below
    <3>3. PICK s \in Below : \A t \in Below : ~(<<t, s>> \in StrictSubsetOrdering(0 .. n))
      BY <3>1, <3>2, WFMin
    <3> USE DEF Below
    <3>4. PICK i \in Differ : s = 0 .. i
      OBVIOUS
    <3>5. ASSUME NEW j \in Differ, j < i
          PROVE  FALSE
      <4>1. 0 .. j \in Below /\ 0 .. j \subseteq s /\ 0 .. j # s /\ s \subseteq 0 .. n
        BY <1>1, <3>4, <3>5
      <4> QED
        BY <3>3, <4>1 DEF StrictSubsetOrdering
    <3> QED
      BY <1>1, <3>5
  <2>2. i \in 0 .. n /\ w0[i] # b[i]
    OBVIOUS
  <2>3. CASE i = 0
    BY <1>2, <1>7, <2>2, <2>3
  <2>4. CASE i # 0
    <3>1. i - 1 \in 0 .. n /\ ~(i <= i - 1)
      BY <1>1, <2>2, <2>4
    <3>2. w0[i - 1] = b[i - 1]
      BY <2>1, <3>1
    <3> QED
      BY <1>2, <1>7, <2>2, <2>4, <3>2
  <2> QED
    BY <2>3, <2>4
<1> QED
  BY <1>1, <1>6, <1>8

(* No money appears or disappears between the two tables: in every state a *)
(* balance is what the ledger rows of its user add up to.                  *)
THEOREM BalancesExplained == Spec => []LedgerExplainsBalances
<1>1. TypeOK /\ LedgerRight => LedgerExplainsBalances
  BY ReplayIsBalance DEF LedgerRight, Explained, LedgerExplainsBalances
<1>2. Inductive => TypeOK
  BY DEF Inductive
<1> QED
  BY <1>1, <1>2, InductiveInvariant, LedgerRightInvariant, PTL

(* The balanceBefore and balanceAfter of the rows that move a wallet's     *)
(* available balance form one chain, from zero to the balance.             *)
THEOREM RowsChain == Spec => []LedgerChains
<1>1. TypeOK /\ LedgerRight => LedgerChains
  <2> SUFFICES ASSUME TypeOK, LedgerRight, NEW u \in Users, NEW i \in DOMAIN ledger,
                      MovesAvailable(i, u)
               PROVE  /\ Linked(ledger, i, u)
                      /\ (\A k \in i + 1 .. Len(ledger) : ~MovesAvailable(k, u))
                           => wallet[u] # NoWallet /\ wallet[u].avail = ledger[i].after
    BY DEF LedgerChains, Linked, Moves, MovesAvailable
  <2>1. i \in 1 .. Len(ledger) /\ Len(ledger) \in Nat
    BY DEF TypeOK
  <2>2. Chained(ledger, wallet[u], u) /\ Moves(ledger, i, u)
    BY DEF LedgerRight, Moves, MovesAvailable
  <2>3. SUFFICES ASSUME \A k \in i + 1 .. Len(ledger) : ~Moves(ledger, k, u)
                 PROVE  wallet[u] # NoWallet /\ wallet[u].avail = ledger[i].after
    BY <2>1, <2>2 DEF Chained, Moves, MovesAvailable
  <2>4. PICK j \in 1 .. Len(ledger) :
          /\ wallet[u] # NoWallet
          /\ Moves(ledger, j, u)
          /\ ledger[j].after = wallet[u].avail
          /\ \A k \in j + 1 .. Len(ledger) : ~Moves(ledger, k, u)
    BY <2>1, <2>2 DEF Chained, Ended
  <2>5. j = i
    BY <2>1, <2>2, <2>3, <2>4
  <2> QED
    BY <2>4, <2>5
<1>2. Inductive => TypeOK
  BY DEF Inductive
<1> QED
  BY <1>1, <1>2, InductiveInvariant, LedgerRightInvariant, PTL
=============================================================================
