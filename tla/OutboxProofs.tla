---------------------------- MODULE OutboxProofs ----------------------------
(***************************************************************************)
(* Theorems about Outbox, for every number of events, overlapping runs and *)
(* retry jobs, for every batch size, retry limit and number of faults.     *)
(***************************************************************************)
EXTENDS Outbox, TLAPS, FiniteSetTheorems

-----------------------------------------------------------------------------
(* The strengthening.                                                      *)

(* A run books an event as completed only after it delivered it. *)
DeliveredInHand == \A w \in Workers : at[w] = "complete" => InHand(w).event \in delivered

(* How the retry count of a row, of an entity a run has left, of the one   *)
(* it is about to book as failed, and of one that is to be put back,       *)
(* relates to the n attempts that failed.                                  *)
RowCounts(r, n) ==
  /\ r.retries <= 2 * n
  /\ r.status = "failed" => r.retries >= 1 /\ r.retries + 1 <= 2 * n
  /\ r.status # "failed" => r.retries + 2 <= 2 * MaxRetries

LeftCounts(x, n) == x.retries <= 2 * n /\ x.retries + 2 <= 2 * MaxRetries
MissedCounts(x, n) == x.retries + 2 <= 2 * n
RequeueCounts(x, n) == x.retries >= 1 /\ x.retries < MaxRetries /\ x.retries + 1 <= 2 * n

RowsCount == \A e \in Events : row[e] # NoRow => RowCounts(row[e], failures[e])

RunsCount ==
  \A w \in Workers :
    /\ \A i \in 1 .. Len(batch[w]) : LeftCounts(batch[w][i], failures[batch[w][i].event])
    /\ at[w] = "fail" => MissedCounts(InHand(w), failures[InHand(w).event])

RetriersCount ==
  \A r \in Retriers : \A i \in 1 .. Len(requeue[r]) :
    RequeueCounts(requeue[r][i], failures[requeue[r][i].event])

Inductive ==
  /\ TypeOK
  /\ CompletedWasDelivered /\ DeliveredInHand
  /\ ProcessingHasOwner
  /\ RowsCount /\ RunsCount /\ RetriersCount

-----------------------------------------------------------------------------
(* What a query finds. *)

LEMMA FoundEntities ==
  ASSUME row \in [Events -> Row \cup {NoRow}], NEW n \in Nat \ {0}, NEW order,
         NEW S \in SUBSET Events, S # {}, \A e \in S : row[e] # NoRow,
         NEW found \in Found(n, order, S)
  PROVE  /\ found \in Seq(Entity) /\ found # << >> /\ Len(found) >= 1
         /\ \A i \in 1 .. Len(found) :
              found[i].event \in S /\ found[i].retries = row[found[i].event].retries
<1> DEFINE size == IF Cardinality(S) < n THEN Cardinality(S) ELSE n
<1>1. Cardinality(S) \in Nat \ {0}
  <2>1. IsFiniteSet(S)
    <3>1. IsFiniteSet(Events)
      BY FS_Interval, LimitsAssumption DEF Events
    <3> QED
      BY <3>1, FS_Subset
  <2> QED
    BY <2>1, FS_CardinalityType, FS_EmptySet
<1>2. size \in Nat \ {0}
  BY <1>1
<1>3. PICK e \in [1 .. size -> S] :
        found = [i \in 1 .. size |-> [event |-> e[i], retries |-> row[e[i]].retries]]
  BY DEF Found
<1> HIDE DEF size
<1>4. \A i \in 1 .. size : e[i] \in S /\ found[i] = [event |-> e[i], retries |-> row[e[i]].retries]
  BY <1>3
<1>5. ASSUME NEW i \in 1 .. size
      PROVE  found[i] \in Entity
  <2>1. e[i] \in Events /\ row[e[i]] \in Row
    BY <1>4
  <2>2. row[e[i]].retries \in Nat
    BY <2>1 DEF Row
  <2>3. [event |-> e[i], retries |-> row[e[i]].retries] \in Entity
    BY <2>1, <2>2 DEF Entity
  <2> QED
    BY <1>4, <2>3
<1>6. found \in [1 .. size -> Entity]
  BY <1>3, <1>5
<1>7. found \in Seq(Entity) /\ Len(found) = size
  BY <1>2, <1>6
<1> QED
  BY <1>2, <1>4, <1>7

(* The entity a run has in hand. *)
LEMMA HandIsEntity ==
  ASSUME TypeOK, NEW w \in Workers, at[w] # "idle"
  PROVE  /\ batch[w] \in Seq(Entity) /\ Len(batch[w]) >= 1
         /\ InHand(w) = batch[w][1] /\ InHand(w) \in Entity
         /\ InHand(w).event \in Events /\ InHand(w).retries \in Nat
<1>1. batch[w] \in Seq(Entity) /\ batch[w] # << >>
  BY DEF TypeOK
<1>2. Len(batch[w]) >= 1 /\ InHand(w) = batch[w][1] /\ batch[w][1] \in Entity
  BY <1>1 DEF InHand
<1> QED
  BY <1>1, <1>2 DEF Entity

LEMMA NextIsEntity ==
  ASSUME TypeOK, NEW r \in Retriers, requeue[r] # << >>
  PROVE  /\ requeue[r] \in Seq(Entity) /\ Len(requeue[r]) >= 1
         /\ Head(requeue[r]) = requeue[r][1] /\ Head(requeue[r]) \in Entity
         /\ Head(requeue[r]).event \in Events /\ Head(requeue[r]).retries \in Nat
<1>1. requeue[r] \in Seq(Entity)
  BY DEF TypeOK
<1>2. Len(requeue[r]) >= 1 /\ Head(requeue[r]) = requeue[r][1] /\ requeue[r][1] \in Entity
  BY <1>1
<1> QED
  BY <1>1, <1>2 DEF Entity

(* What a save stores. *)
LEMMA SaveStores ==
  ASSUME TypeOK, NEW e \in Events, NEW status \in Statuses, NEW n \in Nat, Save(e, status, n)
  PROVE  /\ row' \in [Events -> Row \cup {NoRow}]
         /\ older' \subseteq Events \X Events
         /\ row'[e] = [status |-> status, retries |-> n] /\ row'[e] # NoRow
         /\ row'[e].status = status /\ row'[e].retries = n
         /\ \A x \in Events \ {e} : row'[x] = row[x]
<1> DEFINE new == [status |-> status, retries |-> n]
<1>1. new \in Row
  BY DEF Row
<1>2. row' = [row EXCEPT ![e] = new]
  BY DEF Save
<1>3. new # NoRow
  BY <1>1, MarkerAssumption
<1>4. older' \subseteq Events \X Events
  BY DEF Save, TypeOK
<1> QED
  BY <1>1, <1>2, <1>3, <1>4 DEF TypeOK

(* A run that is done with what it had in hand. *)
LEMMA MoveOnTakes ==
  ASSUME TypeOK, NEW w \in Workers, at[w] # "idle", MoveOn(w)
  PROVE  /\ batch' \in [Workers -> Seq(Entity)] /\ at' \in [Workers -> Places]
         /\ \A v \in Workers : at'[v] = "idle" <=> batch'[v] = << >>
         /\ at'[w] \in {"idle", "claim"}
         /\ \A v \in Workers \ {w} : at'[v] = at[v] /\ batch'[v] = batch[v]
         /\ \A i \in 1 .. Len(batch'[w]) :
              i + 1 \in 1 .. Len(batch[w]) /\ batch'[w][i] = batch[w][i + 1]
<1>1. batch[w] \in Seq(Entity) /\ Len(batch[w]) >= 1
  BY HandIsEntity
<1>2. /\ batch' = [batch EXCEPT ![w] = Tail(batch[w])]
      /\ at' = [at EXCEPT ![w] = IF Len(batch[w]) = 1 THEN "idle" ELSE "claim"]
  BY DEF MoveOn
<1>3. /\ Tail(batch[w]) \in Seq(Entity) /\ Len(Tail(batch[w])) = Len(batch[w]) - 1
      /\ \A i \in 1 .. Len(Tail(batch[w])) :
           i + 1 \in 1 .. Len(batch[w]) /\ Tail(batch[w])[i] = batch[w][i + 1]
  BY <1>1
<1>4. Tail(batch[w]) = << >> <=> Len(batch[w]) = 1
  <2>1. \A t \in Seq(Entity) : t = << >> <=> Len(t) = 0
    OBVIOUS
  <2>2. Tail(batch[w]) = << >> <=> Len(Tail(batch[w])) = 0
    BY <1>3, <2>1
  <2>3. Len(batch[w]) \in Nat /\ Len(Tail(batch[w])) = Len(batch[w]) - 1
    BY <1>1, <1>3
  <2> QED
    BY <2>2, <2>3
<1>5. batch'[w] = Tail(batch[w])
  BY <1>2 DEF TypeOK
<1>6. at'[w] = IF Len(batch[w]) = 1 THEN "idle" ELSE "claim"
  BY <1>2 DEF TypeOK
<1>7. \A v \in Workers \ {w} : at'[v] = at[v] /\ batch'[v] = batch[v]
  BY <1>2 DEF TypeOK
<1>8. batch' \in [Workers -> Seq(Entity)] /\ at' \in [Workers -> Places]
  BY <1>2, <1>3 DEF TypeOK, Places
<1>9. \A v \in Workers : at'[v] = "idle" <=> batch'[v] = << >>
  BY <1>4, <1>5, <1>6, <1>7 DEF TypeOK
<1> QED
  BY <1>3, <1>5, <1>6, <1>7, <1>8, <1>9

(* A run that goes on with what it has in hand. *)
LEMMA GoToTakes ==
  ASSUME TypeOK, NEW w \in Workers, at[w] # "idle", NEW place \in Places \ {"idle"}, GoTo(w, place)
  PROVE  /\ UNCHANGED <<batch, requeue, emitted>>
         /\ at' \in [Workers -> Places] /\ at'[w] = place
         /\ \A v \in Workers \ {w} : at'[v] = at[v]
         /\ \A v \in Workers : at'[v] = "idle" <=> batch'[v] = << >>
BY DEF GoTo, TypeOK

(* An attempt at e failed.  The count never goes back. *)
LEMMA MissedCountsUp ==
  ASSUME TypeOK, NEW e \in Events, Missed(e)
  PROVE  /\ failures' \in [Events -> 0 .. MaxRetries]
         /\ failures'[e] = IF failures[e] = MaxRetries THEN MaxRetries ELSE failures[e] + 1
         /\ \A x \in Events : failures[x] <= failures'[x]
BY LimitsAssumption DEF Missed, TypeOK

-----------------------------------------------------------------------------
(* Type correctness. *)

LEMMA QueryTypes ==
  /\ InStatus("pending") \in SUBSET Events /\ \A e \in InStatus("pending") : row[e] # NoRow
  /\ Retriable \in SUBSET Events /\ \A e \in Retriable : row[e] # NoRow
BY DEF InStatus, Retriable

LEMMA TypeStep ==
  ASSUME TypeOK, [Next]_vars
  PROVE  TypeOK'
<1>1. CASE Emit
  <2>1. emitted' \in Events /\ emitted' \in 0 .. Count
    BY <1>1, LimitsAssumption DEF Emit, Events, TypeOK
  <2>2. Save(emitted', "pending", 0) /\ "pending" \in Statuses
    BY <1>1 DEF Emit, Statuses
  <2>3. row' \in [Events -> Row \cup {NoRow}] /\ older' \subseteq Events \X Events
    BY <2>1, <2>2, SaveStores
  <2> QED
    BY <1>1, <2>1, <2>3 DEF Emit, TypeOK, history
<1>2. ASSUME NEW w \in Workers, ProcessPending(w)
      PROVE  TypeOK'
  <2>1. PICK found \in Found(Batch, Created, InStatus("pending")) :
          batch' = [batch EXCEPT ![w] = found]
    BY <1>2 DEF ProcessPending
  <2>2. found \in Seq(Entity) /\ found # << >>
    <3>1. InStatus("pending") # {} /\ row \in [Events -> Row \cup {NoRow}] /\ Batch \in Nat \ {0}
      BY <1>2, LimitsAssumption DEF ProcessPending, TypeOK
    <3> QED
      BY <3>1, QueryTypes, FoundEntities
  <2>3. at' = [at EXCEPT ![w] = "claim"] /\ UNCHANGED <<row, older, emitted, requeue, history, faults>>
    BY <1>2 DEF ProcessPending
  <2>4. \A v \in Workers : at'[v] = "idle" <=> batch'[v] = << >>
    BY <2>1, <2>2, <2>3 DEF TypeOK
  <2> QED
    BY <2>1, <2>2, <2>3, <2>4 DEF TypeOK, Places, history
<1>3. ASSUME NEW w \in Workers, Claim(w)
      PROVE  TypeOK'
  <2>1. at[w] # "idle" /\ Save(InHand(w).event, "processing", InHand(w).retries) /\ GoTo(w, "deliver")
    BY <1>3 DEF Claim
  <2>2. row' \in [Events -> Row \cup {NoRow}] /\ older' \subseteq Events \X Events
    BY <2>1, HandIsEntity, SaveStores DEF Statuses
  <2> QED
    BY <1>3, <2>1, <2>2, GoToTakes DEF Claim, TypeOK, history, Places
<1>4. ASSUME NEW w \in Workers, Deliver(w)
      PROVE  TypeOK'
  <2>1. at[w] # "idle" /\ GoTo(w, "complete") /\ delivered' = delivered \cup {InHand(w).event}
    BY <1>4 DEF Deliver
  <2> QED
    BY SMTT(30), <1>4, <2>1, HandIsEntity, GoToTakes DEF Deliver, TypeOK, Places
<1>5. ASSUME NEW w \in Workers, DeliverFails(w) \/ CompleteFails(w)
      PROVE  TypeOK'
  <2>1. at[w] # "idle" /\ GoTo(w, "fail") /\ Missed(InHand(w).event)
    BY <1>5 DEF DeliverFails, CompleteFails
  <2>2. UNCHANGED <<row, older, delivered, lost>> /\ faults' \in 0 .. MaxFaults
    BY <1>5, LimitsAssumption DEF DeliverFails, CompleteFails, TypeOK
  <2> QED
    BY <2>1, <2>2, HandIsEntity, MissedCountsUp, GoToTakes DEF TypeOK, Places
<1>6. ASSUME NEW w \in Workers, Complete(w) \/ Fail(w)
      PROVE  TypeOK'
  <2>1. /\ at[w] # "idle" /\ MoveOn(w)
        /\ \/ Save(InHand(w).event, "completed", InHand(w).retries)
           \/ Save(InHand(w).event, "failed", InHand(w).retries + 1)
    BY <1>6 DEF Complete, Fail
  <2>2. InHand(w).event \in Events /\ InHand(w).retries \in Nat /\ InHand(w).retries + 1 \in Nat
    BY <2>1, HandIsEntity
  <2>3. row' \in [Events -> Row \cup {NoRow}] /\ older' \subseteq Events \X Events
    BY <2>1, <2>2, SaveStores DEF Statuses
  <2>4. UNCHANGED <<emitted, requeue, delivered, failures, lost, faults>>
    BY <2>1 DEF MoveOn, history
  <2>5. /\ batch' \in [Workers -> Seq(Entity)] /\ at' \in [Workers -> Places]
        /\ \A v \in Workers : at'[v] = "idle" <=> batch'[v] = << >>
    BY <2>1, MoveOnTakes
  <2> QED
    BY <2>3, <2>4, <2>5 DEF TypeOK
<1>7. ASSUME NEW w \in Workers, Die(w)
      PROVE  TypeOK'
  <2>1. /\ at' = [at EXCEPT ![w] = "idle"] /\ batch' = [batch EXCEPT ![w] = << >>]
        /\ UNCHANGED <<row, older, emitted, requeue, delivered, failures>>
    BY <1>7 DEF Die
  <2>2. lost' \subseteq Events /\ faults' \in 0 .. MaxFaults
    BY <1>7, HandIsEntity, LimitsAssumption DEF Die, TypeOK
  <2>3. << >> \in Seq(Entity)
    OBVIOUS
  <2>4. \A v \in Workers : at'[v] = "idle" <=> batch'[v] = << >>
    BY <2>1 DEF TypeOK
  <2> QED
    BY <2>1, <2>2, <2>3, <2>4 DEF TypeOK, Places
<1>8. ASSUME NEW r \in Retriers, RetryFailed(r)
      PROVE  TypeOK'
  <2>1. PICK found \in Found(RetryBatch, older, Retriable) :
          requeue' = [requeue EXCEPT ![r] = found]
    BY <1>8 DEF RetryFailed
  <2>2. found \in Seq(Entity)
    BY <1>8, FoundEntities, QueryTypes, LimitsAssumption DEF RetryFailed, TypeOK
  <2> QED
    BY <1>8, <2>1, <2>2 DEF RetryFailed, TypeOK, history
<1>9. ASSUME NEW r \in Retriers, Requeue(r)
      PROVE  TypeOK'
  <2>1. /\ requeue[r] # << >> /\ requeue' = [requeue EXCEPT ![r] = Tail(requeue[r])]
        /\ Save(Head(requeue[r]).event, "pending", Head(requeue[r]).retries + 1)
    BY <1>9 DEF Requeue
  <2>2. /\ requeue[r] \in Seq(Entity) /\ Head(requeue[r]).event \in Events
        /\ Head(requeue[r]).retries + 1 \in Nat
    BY <2>1, NextIsEntity
  <2>3. row' \in [Events -> Row \cup {NoRow}] /\ older' \subseteq Events \X Events
    BY <2>1, <2>2, SaveStores DEF Statuses
  <2>4. Tail(requeue[r]) \in Seq(Entity)
    BY <2>1, <2>2
  <2> QED
    BY <1>9, <2>1, <2>3, <2>4 DEF Requeue, TypeOK, history
<1>10. ASSUME NEW r \in Retriers, RetrierDies(r)
       PROVE  TypeOK'
  <2>1. << >> \in Seq(Entity)
    OBVIOUS
  <2> QED
    BY <1>10, <2>1, LimitsAssumption DEF RetrierDies, TypeOK, history
<1>11. ASSUME NEW e \in Events, CleanOldEvents(e)
       PROVE  TypeOK'
  BY <1>11 DEF CleanOldEvents, TypeOK, history
<1>12. CASE UNCHANGED vars
  BY <1>12 DEF vars, TypeOK
<1> QED
  BY <1>1, <1>2, <1>3, <1>4, <1>5, <1>6, <1>7, <1>8, <1>9, <1>10, <1>11, <1>12 DEF Next, Work

-----------------------------------------------------------------------------
(* A completed or cleaned event was delivered. *)

(* A save that does not complete an event it has not delivered. *)
LEMMA SaveKeepsDelivered ==
  ASSUME TypeOK, CompletedWasDelivered, NEW e \in Events, NEW status \in Statuses, NEW n \in Nat,
         Save(e, status, n), delivered \subseteq delivered', UNCHANGED emitted,
         status = "completed" => e \in delivered
  PROVE  CompletedWasDelivered'
<1>1. SUFFICES ASSUME NEW x \in 1 .. emitted, row'[x] = NoRow \/ row'[x].status = "completed"
               PROVE  x \in delivered
  BY DEF CompletedWasDelivered
<1>2. x \in Events
  BY LimitsAssumption DEF TypeOK, Events
<1>3. CASE x = e
  BY <1>1, <1>3, SaveStores
<1>4. CASE x # e
  BY ZenonT(60), <1>1, <1>2, <1>4, SaveStores DEF CompletedWasDelivered
<1> QED
  BY <1>3, <1>4

LEMMA DeliveredStep ==
  ASSUME TypeOK, CompletedWasDelivered, DeliveredInHand, [Next]_vars
  PROVE  CompletedWasDelivered' /\ DeliveredInHand'
<1>1. CASE Emit
  <2>1. Save(emitted', "pending", 0) /\ emitted' = emitted + 1 /\ UNCHANGED <<batch, at, delivered>>
    BY <1>1 DEF Emit, history
  <2>2. emitted' \in Events
    BY <1>1, LimitsAssumption DEF Emit, Events, TypeOK
  <2>3. /\ row'[emitted'] # NoRow /\ row'[emitted'].status = "pending"
        /\ \A x \in Events \ {emitted'} : row'[x] = row[x]
    BY <2>1, <2>2, SaveStores DEF Statuses
  <2>4. \A x \in 1 .. emitted' : x = emitted' \/ x \in 1 .. emitted
    BY <2>1 DEF TypeOK
  <2>5. \A x \in 1 .. emitted : x \in Events
    BY LimitsAssumption DEF TypeOK, Events
  <2> QED
    BY <2>1, <2>3, <2>4, <2>5 DEF CompletedWasDelivered, DeliveredInHand, InHand
<1>2. ASSUME NEW w \in Workers, ProcessPending(w)
      PROVE  CompletedWasDelivered' /\ DeliveredInHand'
  <2>1. /\ at' = [at EXCEPT ![w] = "claim"] /\ UNCHANGED <<row, emitted, delivered>>
        /\ \E found : batch' = [batch EXCEPT ![w] = found]
    BY <1>2 DEF ProcessPending, history
  <2> QED
    BY <2>1 DEF CompletedWasDelivered, DeliveredInHand, InHand, TypeOK
<1>3. ASSUME NEW w \in Workers, Claim(w)
      PROVE  CompletedWasDelivered' /\ DeliveredInHand'
  <2>1. /\ at[w] # "idle" /\ Save(InHand(w).event, "processing", InHand(w).retries)
        /\ GoTo(w, "deliver") /\ UNCHANGED delivered
    BY <1>3 DEF Claim, history
  <2>2. CompletedWasDelivered'
    BY <2>1, HandIsEntity, SaveKeepsDelivered DEF Statuses, GoTo
  <2>3. DeliveredInHand'
    BY <2>1, GoToTakes DEF DeliveredInHand, InHand, Places
  <2> QED
    BY <2>2, <2>3
<1>4. ASSUME NEW w \in Workers, Deliver(w) \/ DeliverFails(w) \/ CompleteFails(w)
      PROVE  CompletedWasDelivered' /\ DeliveredInHand'
  <2>1. /\ at[w] # "idle" /\ UNCHANGED <<row, emitted>> /\ delivered \subseteq delivered'
        /\ \/ GoTo(w, "complete") /\ InHand(w).event \in delivered'
           \/ GoTo(w, "fail")
    BY <1>4 DEF Deliver, DeliverFails, CompleteFails, GoTo
  <2>2. CompletedWasDelivered'
    BY <2>1 DEF CompletedWasDelivered
  <2>3. DeliveredInHand'
    BY <2>1, GoToTakes DEF DeliveredInHand, InHand, Places
  <2> QED
    BY <2>2, <2>3
<1>5. ASSUME NEW w \in Workers, Complete(w) \/ Fail(w)
      PROVE  CompletedWasDelivered' /\ DeliveredInHand'
  <2>1. /\ at[w] # "idle" /\ MoveOn(w)
        /\ \/ Save(InHand(w).event, "completed", InHand(w).retries) /\ at[w] = "complete"
           \/ Save(InHand(w).event, "failed", InHand(w).retries + 1)
    BY <1>5 DEF Complete, Fail
  <2>2. InHand(w).event \in Events /\ InHand(w).retries \in Nat /\ InHand(w).retries + 1 \in Nat
    BY <2>1, HandIsEntity
  <2>3. UNCHANGED <<emitted, delivered>>
    BY <2>1 DEF MoveOn, history
  <2>4. CompletedWasDelivered'
    BY <2>1, <2>2, <2>3, SaveKeepsDelivered DEF Statuses, DeliveredInHand
  <2>5. DeliveredInHand'
    BY <2>1, <2>3, MoveOnTakes DEF DeliveredInHand, InHand
  <2> QED
    BY <2>4, <2>5
<1>6. ASSUME NEW w \in Workers, Die(w)
      PROVE  CompletedWasDelivered' /\ DeliveredInHand'
  BY <1>6 DEF Die, CompletedWasDelivered, DeliveredInHand, InHand, TypeOK
<1>7. ASSUME NEW r \in Retriers, Requeue(r)
      PROVE  CompletedWasDelivered' /\ DeliveredInHand'
  <2>1. /\ requeue[r] # << >> /\ UNCHANGED <<emitted, batch, at, delivered>>
        /\ Save(Head(requeue[r]).event, "pending", Head(requeue[r]).retries + 1)
    BY <1>7 DEF Requeue, history
  <2>2. Head(requeue[r]).event \in Events /\ Head(requeue[r]).retries + 1 \in Nat
    BY <2>1, NextIsEntity
  <2> QED
    BY <2>1, <2>2, SaveKeepsDelivered DEF Statuses, DeliveredInHand, InHand
<1>8. ASSUME NEW r \in Retriers, RetryFailed(r) \/ RetrierDies(r)
      PROVE  CompletedWasDelivered' /\ DeliveredInHand'
  BY <1>8 DEF RetryFailed, RetrierDies, history, CompletedWasDelivered, DeliveredInHand, InHand
<1>9. ASSUME NEW e \in Events, CleanOldEvents(e)
      PROVE  CompletedWasDelivered' /\ DeliveredInHand'
  <2>1. row' = [row EXCEPT ![e] = NoRow] /\ row[e].status = "completed"
        /\ UNCHANGED <<emitted, batch, at, delivered>>
    BY <1>9 DEF CleanOldEvents, InStatus, history
  <2> QED
    BY <2>1 DEF CompletedWasDelivered, DeliveredInHand, InHand, TypeOK
<1>10. CASE UNCHANGED vars
  BY <1>10 DEF vars, CompletedWasDelivered, DeliveredInHand, InHand
<1> QED
  BY <1>1, <1>2, <1>3, <1>4, <1>5, <1>6, <1>7, <1>8, <1>9, <1>10 DEF Next, Work

-----------------------------------------------------------------------------
(* A row in `processing` is in somebody's hand. *)

Owned(e) ==
  \/ e \in lost
  \/ \E w \in Workers : at[w] \in {"deliver", "complete", "fail"} /\ InHand(w).event = e

(* A save that leaves the row of e in another status, or with an owner.    *)
LEMMA SaveKeepsOwner ==
  ASSUME TypeOK, ProcessingHasOwner, NEW e \in Events, NEW status \in Statuses, NEW n \in Nat,
         Save(e, status, n), status = "processing" => Owned(e)',
         \A x \in Events \ {e} : Owned(x) => Owned(x)'
  PROVE  ProcessingHasOwner'
<1>1. SUFFICES ASSUME NEW x \in Events, row'[x] # NoRow, row'[x].status = "processing"
               PROVE  Owned(x)'
  BY DEF ProcessingHasOwner, InStatus, Owned
<1>2. CASE x = e
  BY <1>1, <1>2, SaveStores
<1>3. CASE x # e
  <2>1. row'[x] = row[x]
    BY <1>3, SaveStores
  <2>2. x \in InStatus("processing")
    BY <1>1, <2>1 DEF InStatus
  <2>3. Owned(x)
    BY <2>2 DEF ProcessingHasOwner, Owned
  <2> QED
    BY <1>3, <2>3
<1> QED
  BY <1>2, <1>3

LEMMA OwnerStep ==
  ASSUME TypeOK, ProcessingHasOwner, [Next]_vars
  PROVE  ProcessingHasOwner'
<1>1. CASE Emit
  <2>1. Save(emitted', "pending", 0) /\ UNCHANGED <<batch, at, lost>> /\ emitted' \in Events
    BY <1>1, LimitsAssumption DEF Emit, history, Events, TypeOK
  <2> QED
    BY <2>1, SaveKeepsOwner DEF Statuses, Owned, InHand
<1>2. ASSUME NEW w \in Workers, ProcessPending(w)
      PROVE  ProcessingHasOwner'
  <2>1. /\ at[w] = "idle" /\ at' = [at EXCEPT ![w] = "claim"] /\ UNCHANGED <<row, lost>>
        /\ \E found : batch' = [batch EXCEPT ![w] = found]
    BY <1>2 DEF ProcessPending, history
  <2>2. \A e \in Events : Owned(e) => Owned(e)'
    BY <2>1 DEF Owned, InHand, TypeOK
  <2> QED
    BY <2>1, <2>2 DEF ProcessingHasOwner, InStatus, Owned
<1>3. ASSUME NEW w \in Workers, Claim(w)
      PROVE  ProcessingHasOwner'
  <2>1. /\ at[w] = "claim" /\ Save(InHand(w).event, "processing", InHand(w).retries)
        /\ GoTo(w, "deliver") /\ UNCHANGED lost
    BY <1>3 DEF Claim, history
  <2>2. UNCHANGED batch /\ at'[w] = "deliver" /\ \A v \in Workers \ {w} : at'[v] = at[v]
    BY <2>1, GoToTakes DEF Places
  <2>3. PICK e \in Events : e = InHand(w).event
    BY <2>1, HandIsEntity
  <2>4. Owned(e)' /\ \A x \in Events : Owned(x) => Owned(x)'
    BY <2>1, <2>2, <2>3 DEF Owned, InHand
  <2>5. Save(e, "processing", InHand(w).retries) /\ InHand(w).retries \in Nat
    BY <2>1, <2>3, HandIsEntity
  <2> QED
    BY <2>4, <2>5, SaveKeepsOwner DEF Statuses
<1>4. ASSUME NEW w \in Workers, Deliver(w) \/ DeliverFails(w) \/ CompleteFails(w)
      PROVE  ProcessingHasOwner'
  <2>1. /\ at[w] \in {"deliver", "complete"} /\ UNCHANGED <<row, lost>>
        /\ GoTo(w, "complete") \/ GoTo(w, "fail")
    BY <1>4 DEF Deliver, DeliverFails, CompleteFails
  <2>2. /\ UNCHANGED batch /\ at'[w] \in {"complete", "fail"}
        /\ \A v \in Workers \ {w} : at'[v] = at[v]
    BY <2>1, GoToTakes DEF Places
  <2>3. \A e \in Events : Owned(e) => Owned(e)'
    BY <2>1, <2>2 DEF Owned, InHand
  <2> QED
    BY <2>1, <2>3 DEF ProcessingHasOwner, InStatus, Owned
<1>5. ASSUME NEW w \in Workers, Complete(w) \/ Fail(w)
      PROVE  ProcessingHasOwner'
  <2>1. /\ at[w] # "idle" /\ MoveOn(w)
        /\ \/ Save(InHand(w).event, "completed", InHand(w).retries)
           \/ Save(InHand(w).event, "failed", InHand(w).retries + 1)
    BY <1>5 DEF Complete, Fail
  <2>2. InHand(w).event \in Events /\ InHand(w).retries \in Nat /\ InHand(w).retries + 1 \in Nat
    BY <2>1, HandIsEntity
  <2>3. UNCHANGED lost /\ \A v \in Workers \ {w} : at'[v] = at[v] /\ batch'[v] = batch[v]
    BY <2>1, MoveOnTakes DEF MoveOn, history
  <2>4. \A e \in Events \ {InHand(w).event} : Owned(e) => Owned(e)'
    BY <2>3 DEF Owned, InHand
  <2> QED
    BY <2>1, <2>2, <2>4, SaveKeepsOwner DEF Statuses
<1>6. ASSUME NEW w \in Workers, Die(w)
      PROVE  ProcessingHasOwner'
  <2>1. /\ at' = [at EXCEPT ![w] = "idle"] /\ batch' = [batch EXCEPT ![w] = << >>]
        /\ lost' = IF at[w] = "claim" THEN lost ELSE lost \cup {InHand(w).event}
        /\ UNCHANGED row
    BY <1>6 DEF Die
  <2>2. \A v \in Workers \ {w} : at'[v] = at[v] /\ batch'[v] = batch[v]
    BY <2>1 DEF TypeOK
  <2>3. \A e \in Events : Owned(e) => Owned(e)'
    BY <2>1, <2>2 DEF Owned, InHand
  <2> QED
    BY <2>1, <2>3 DEF ProcessingHasOwner, InStatus, Owned
<1>7. ASSUME NEW r \in Retriers, Requeue(r)
      PROVE  ProcessingHasOwner'
  <2>1. /\ requeue[r] # << >> /\ UNCHANGED <<batch, at, lost>>
        /\ Save(Head(requeue[r]).event, "pending", Head(requeue[r]).retries + 1)
    BY <1>7 DEF Requeue, history
  <2>2. Head(requeue[r]).event \in Events /\ Head(requeue[r]).retries + 1 \in Nat
    BY <2>1, NextIsEntity
  <2> QED
    BY <2>1, <2>2, SaveKeepsOwner DEF Statuses, Owned, InHand
<1>8. ASSUME NEW r \in Retriers, RetryFailed(r) \/ RetrierDies(r)
      PROVE  ProcessingHasOwner'
  BY <1>8 DEF RetryFailed, RetrierDies, history, ProcessingHasOwner, InStatus, InHand
<1>9. ASSUME NEW e \in Events, CleanOldEvents(e)
      PROVE  ProcessingHasOwner'
  BY <1>9 DEF CleanOldEvents, history, ProcessingHasOwner, InStatus, InHand, TypeOK
<1>10. CASE UNCHANGED vars
  BY <1>10 DEF vars, ProcessingHasOwner, InStatus, InHand
<1> QED
  BY <1>1, <1>2, <1>3, <1>4, <1>5, <1>6, <1>7, <1>8, <1>9, <1>10 DEF Next, Work

-----------------------------------------------------------------------------
(* Retries were failures. *)

(* What a run books and puts back counts rightly.                          *)
LEMMA SavedCounts ==
  ASSUME NEW x \in Entity, NEW n \in Nat
  PROVE  /\ LeftCounts(x, n) =>
              RowCounts([status |-> "processing", retries |-> x.retries], n)
              /\ RowCounts([status |-> "completed", retries |-> x.retries], n)
         /\ MissedCounts(x, n) => RowCounts([status |-> "failed", retries |-> x.retries + 1], n)
         /\ RequeueCounts(x, n) => RowCounts([status |-> "pending", retries |-> x.retries + 1], n)
BY LimitsAssumption DEF RowCounts, LeftCounts, MissedCounts, RequeueCounts, Entity

LEMMA SaveKeepsRows ==
  ASSUME TypeOK, RowsCount, NEW e \in Events, NEW status \in Statuses, NEW n \in Nat,
         Save(e, status, n), UNCHANGED failures,
         RowCounts([status |-> status, retries |-> n], failures[e])
  PROVE  RowsCount'
<1>1. SUFFICES ASSUME NEW x \in Events, row'[x] # NoRow
               PROVE  RowCounts(row'[x], failures[x])
  BY DEF RowsCount
<1>2. CASE x = e
  BY <1>2, SaveStores
<1>3. CASE x # e
  <2>1. row'[x] = row[x]
    BY <1>3, SaveStores
  <2> QED
    BY <1>1, <2>1 DEF RowsCount
<1> QED
  BY <1>2, <1>3

Counts == RowsCount /\ RunsCount /\ RetriersCount

(* What the entities say, apart from the rows. *)
LEMMA CountsUp ==
  ASSUME TypeOK, Counts, failures' \in [Events -> 0 .. MaxRetries],
         \A x \in Events : failures[x] <= failures'[x]
  PROVE  /\ \A e \in Events : row[e] # NoRow => RowCounts(row[e], failures'[e])
         /\ \A w \in Workers : \A i \in 1 .. Len(batch[w]) :
              LeftCounts(batch[w][i], failures'[batch[w][i].event])
         /\ \A w \in Workers : at[w] = "fail" => MissedCounts(InHand(w), failures'[InHand(w).event])
         /\ \A r \in Retriers : \A i \in 1 .. Len(requeue[r]) :
              RequeueCounts(requeue[r][i], failures'[requeue[r][i].event])
<1>0. \A x \in Events : failures[x] \in Nat /\ failures'[x] \in Nat
  BY LimitsAssumption DEF TypeOK
<1>1. ASSUME NEW e \in Events, row[e] # NoRow
      PROVE  RowCounts(row[e], failures'[e])
  <2>1. row[e] \in Row /\ RowCounts(row[e], failures[e])
    BY <1>1 DEF TypeOK, Counts, RowsCount
  <2> QED
    BY <1>0, <2>1 DEF RowCounts, Row
<1>2. ASSUME NEW w \in Workers, NEW i \in 1 .. Len(batch[w])
      PROVE  LeftCounts(batch[w][i], failures'[batch[w][i].event])
  <2>1. batch[w] \in Seq(Entity)
    BY DEF TypeOK
  <2>2. batch[w][i] \in Entity /\ batch[w][i].event \in Events
    <3>1. batch[w][i] \in Entity
      BY <2>1
    <3> QED
      BY <3>1 DEF Entity
  <2>3. LeftCounts(batch[w][i], failures[batch[w][i].event])
    BY DEF Counts, RunsCount
  <2> QED
    BY <1>0, <2>2, <2>3 DEF LeftCounts, Entity
<1>3. ASSUME NEW w \in Workers, at[w] = "fail"
      PROVE  MissedCounts(InHand(w), failures'[InHand(w).event])
  <2>1. InHand(w) \in Entity /\ InHand(w).event \in Events
    BY <1>3, HandIsEntity
  <2>2. MissedCounts(InHand(w), failures[InHand(w).event])
    BY <1>3 DEF Counts, RunsCount
  <2> QED
    BY <1>0, <2>1, <2>2 DEF MissedCounts, Entity
<1>4. ASSUME NEW r \in Retriers, NEW i \in 1 .. Len(requeue[r])
      PROVE  RequeueCounts(requeue[r][i], failures'[requeue[r][i].event])
  <2>1. requeue[r] \in Seq(Entity)
    BY DEF TypeOK
  <2>2. requeue[r][i] \in Entity /\ requeue[r][i].event \in Events
    <3>1. requeue[r][i] \in Entity
      BY <2>1
    <3> QED
      BY <3>1 DEF Entity
  <2>3. RequeueCounts(requeue[r][i], failures[requeue[r][i].event])
    BY DEF Counts, RetriersCount
  <2> QED
    BY <1>0, <2>2, <2>3 DEF RequeueCounts, Entity
<1> QED
  BY <1>1, <1>2, <1>3, <1>4

LEMMA CountsStep ==
  ASSUME TypeOK, Counts, [Next]_vars
  PROVE  Counts'
<1> USE DEF Counts
<1>1. CASE Emit
  <2>1. Save(emitted', "pending", 0) /\ UNCHANGED <<batch, at, requeue, failures>>
    BY <1>1 DEF Emit, history
  <2>2. emitted' \in Events
    BY <1>1, LimitsAssumption DEF Emit, Events, TypeOK
  <2>3. RowCounts([status |-> "pending", retries |-> 0], failures[emitted'])
    BY <2>2, LimitsAssumption DEF RowCounts, TypeOK
  <2>4. RowsCount'
    BY <2>1, <2>2, <2>3, SaveKeepsRows DEF Statuses
  <2> QED
    BY <2>1, <2>4 DEF RunsCount, RetriersCount, InHand
<1>2. ASSUME NEW w \in Workers, ProcessPending(w)
      PROVE  Counts'
  <2>1. PICK found \in Found(Batch, Created, InStatus("pending")) :
          batch' = [batch EXCEPT ![w] = found]
    BY <1>2 DEF ProcessPending
  <2>2. \A i \in 1 .. Len(found) :
          found[i].event \in InStatus("pending") /\ found[i].retries = row[found[i].event].retries
    <3>1. InStatus("pending") # {} /\ row \in [Events -> Row \cup {NoRow}] /\ Batch \in Nat \ {0}
      BY <1>2, LimitsAssumption DEF ProcessPending, TypeOK
    <3> QED
      BY <3>1, QueryTypes, FoundEntities
  <2>3. at' = [at EXCEPT ![w] = "claim"] /\ UNCHANGED <<row, requeue, failures>>
    BY <1>2 DEF ProcessPending, history
  <2>4. \A i \in 1 .. Len(found) : LeftCounts(found[i], failures[found[i].event])
    BY <2>2 DEF RowsCount, RowCounts, LeftCounts, InStatus
  <2>5. RunsCount'
    <3>1. batch'[w] = found /\ at'[w] = "claim"
      BY <2>1, <2>3 DEF TypeOK
    <3>2. \A v \in Workers \ {w} : batch'[v] = batch[v] /\ at'[v] = at[v]
      BY <2>1, <2>3 DEF TypeOK
    <3> QED
      BY <2>3, <2>4, <3>1, <3>2 DEF RunsCount, InHand
  <2> QED
    BY <2>3, <2>5 DEF RowsCount, RetriersCount
<1>3. ASSUME NEW w \in Workers, Claim(w)
      PROVE  Counts'
  <2>1. /\ at[w] # "idle" /\ Save(InHand(w).event, "processing", InHand(w).retries)
        /\ GoTo(w, "deliver") /\ UNCHANGED failures
    BY <1>3 DEF Claim, history
  <2>2. /\ Len(batch[w]) >= 1 /\ InHand(w) = batch[w][1] /\ InHand(w) \in Entity
        /\ InHand(w).event \in Events /\ InHand(w).retries \in Nat /\ batch[w] \in Seq(Entity)
    BY <2>1, HandIsEntity
  <2>3. LeftCounts(InHand(w), failures[InHand(w).event]) /\ failures[InHand(w).event] \in Nat
    BY <2>2 DEF RunsCount, TypeOK
  <2>4. RowsCount'
    BY <2>1, <2>2, <2>3, SavedCounts, SaveKeepsRows DEF Statuses
  <2>5. RunsCount' /\ RetriersCount'
    BY <2>1, GoToTakes DEF Places, RunsCount, RetriersCount, InHand
  <2> QED
    BY <2>4, <2>5
<1>4. ASSUME NEW w \in Workers, Deliver(w)
      PROVE  Counts'
  <2>1. at[w] # "idle" /\ GoTo(w, "complete") /\ UNCHANGED <<row, failures>>
    BY <1>4 DEF Deliver
  <2>2. RunsCount' /\ RetriersCount'
    BY <2>1, GoToTakes DEF Places, RunsCount, RetriersCount, InHand
  <2> QED
    BY <2>1, <2>2 DEF RowsCount
<1>5. ASSUME NEW w \in Workers, DeliverFails(w) \/ CompleteFails(w)
      PROVE  Counts'
  <2>1. at[w] # "idle" /\ GoTo(w, "fail") /\ Missed(InHand(w).event) /\ UNCHANGED row
    BY <1>5 DEF DeliverFails, CompleteFails
  <2>2. /\ Len(batch[w]) >= 1 /\ InHand(w) = batch[w][1] /\ InHand(w) \in Entity
        /\ InHand(w).event \in Events /\ batch[w] \in Seq(Entity)
    BY <2>1, HandIsEntity
  <2>3. /\ failures' \in [Events -> 0 .. MaxRetries]
        /\ failures'[InHand(w).event] = IF failures[InHand(w).event] = MaxRetries
                                        THEN MaxRetries ELSE failures[InHand(w).event] + 1
        /\ \A x \in Events : failures[x] <= failures'[x]
    BY <2>1, <2>2, MissedCountsUp
  <2>4. LeftCounts(InHand(w), failures[InHand(w).event]) /\ failures[InHand(w).event] \in 0 .. MaxRetries
    BY <2>2 DEF RunsCount, TypeOK
  <2>5. MissedCounts(InHand(w), failures'[InHand(w).event])
    <3>1. InHand(w).retries \in Nat /\ MaxRetries \in Nat
      BY <2>2, LimitsAssumption DEF Entity
    <3>2. CASE failures[InHand(w).event] = MaxRetries
      BY <2>3, <2>4, <3>1, <3>2 DEF LeftCounts, MissedCounts
    <3>3. CASE failures[InHand(w).event] # MaxRetries
      BY <2>3, <2>4, <3>1, <3>3 DEF LeftCounts, MissedCounts
    <3> QED
      BY <3>2, <3>3
  <2>6. /\ UNCHANGED <<batch, requeue>> /\ \A v \in Workers \ {w} : at'[v] = at[v]
    BY <2>1, GoToTakes DEF Places
  <2>7. RowsCount' /\ RetriersCount'
    BY <2>1, <2>3, <2>6, CountsUp DEF RowsCount, RetriersCount
  <2>8. RunsCount'
    BY <2>3, <2>5, <2>6, CountsUp DEF RunsCount, InHand
  <2> QED
    BY <2>7, <2>8
<1>6. ASSUME NEW w \in Workers, Complete(w) \/ Fail(w)
      PROVE  Counts'
  <2>1. /\ at[w] # "idle" /\ MoveOn(w)
        /\ \/ Save(InHand(w).event, "completed", InHand(w).retries)
           \/ at[w] = "fail" /\ Save(InHand(w).event, "failed", InHand(w).retries + 1)
    BY <1>6 DEF Complete, Fail
  <2>2. /\ Len(batch[w]) >= 1 /\ InHand(w) = batch[w][1] /\ InHand(w) \in Entity
        /\ InHand(w).event \in Events /\ InHand(w).retries \in Nat /\ InHand(w).retries + 1 \in Nat
        /\ batch[w] \in Seq(Entity)
    BY <2>1, HandIsEntity
  <2>3. /\ LeftCounts(InHand(w), failures[InHand(w).event]) /\ failures[InHand(w).event] \in Nat
        /\ at[w] = "fail" => MissedCounts(InHand(w), failures[InHand(w).event])
    BY <2>2 DEF RunsCount, TypeOK
  <2>4. UNCHANGED <<requeue, failures>>
    BY <2>1 DEF MoveOn, history
  <2>5. RowsCount'
    BY <2>1, <2>2, <2>3, <2>4, SavedCounts, SaveKeepsRows DEF Statuses
  <2>6. /\ at'[w] \in {"idle", "claim"}
        /\ \A v \in Workers \ {w} : at'[v] = at[v] /\ batch'[v] = batch[v]
        /\ \A i \in 1 .. Len(batch'[w]) :
             i + 1 \in 1 .. Len(batch[w]) /\ batch'[w][i] = batch[w][i + 1]
    BY <2>1, MoveOnTakes
  <2>7. \A i \in 1 .. Len(batch'[w]) : LeftCounts(batch'[w][i], failures[batch'[w][i].event])
    BY <2>6 DEF RunsCount
  <2>8. RunsCount'
    BY <2>4, <2>6, <2>7 DEF RunsCount, InHand
  <2>9. RetriersCount'
    BY <2>4 DEF RetriersCount
  <2> QED
    BY <2>5, <2>8, <2>9
<1>7. ASSUME NEW w \in Workers, Die(w)
      PROVE  Counts'
  <2>1. /\ at' = [at EXCEPT ![w] = "idle"] /\ batch' = [batch EXCEPT ![w] = << >>]
        /\ UNCHANGED <<row, requeue, failures>>
    BY <1>7 DEF Die
  <2>2. at'[w] = "idle" /\ batch'[w] = << >> /\ Len(<< >>) = 0
    BY <2>1 DEF TypeOK
  <2>3. \A v \in Workers \ {w} : batch'[v] = batch[v] /\ at'[v] = at[v]
    BY <2>1 DEF TypeOK
  <2>4. RunsCount'
    BY <2>1, <2>2, <2>3 DEF RunsCount, InHand
  <2> QED
    BY <2>1, <2>4 DEF RowsCount, RetriersCount
<1>8. ASSUME NEW r \in Retriers, RetryFailed(r)
      PROVE  Counts'
  <2>1. PICK found \in Found(RetryBatch, older, Retriable) :
          requeue' = [requeue EXCEPT ![r] = found]
    BY <1>8 DEF RetryFailed
  <2>2. \A i \in 1 .. Len(found) :
          found[i].event \in Retriable /\ found[i].retries = row[found[i].event].retries
    <3>1. Retriable # {} /\ row \in [Events -> Row \cup {NoRow}] /\ RetryBatch \in Nat \ {0}
      BY <1>8, LimitsAssumption DEF RetryFailed, TypeOK
    <3> QED
      BY <3>1, QueryTypes, FoundEntities
  <2>3. UNCHANGED <<row, batch, at, failures>>
    BY <1>8 DEF RetryFailed, history
  <2>4. \A i \in 1 .. Len(found) : RequeueCounts(found[i], failures[found[i].event])
    BY <2>2 DEF RowsCount, RowCounts, RequeueCounts, Retriable, InStatus
  <2>5. RetriersCount'
    <3>1. requeue'[r] = found /\ \A q \in Retriers \ {r} : requeue'[q] = requeue[q]
      BY <2>1 DEF TypeOK
    <3> QED
      BY <2>3, <2>4, <3>1 DEF RetriersCount
  <2> QED
    BY <2>3, <2>5 DEF RowsCount, RunsCount, InHand
<1>9. ASSUME NEW r \in Retriers, Requeue(r)
      PROVE  Counts'
  <2>1. /\ requeue[r] # << >> /\ requeue' = [requeue EXCEPT ![r] = Tail(requeue[r])]
        /\ Save(Head(requeue[r]).event, "pending", Head(requeue[r]).retries + 1)
        /\ UNCHANGED <<batch, at, failures>>
    BY <1>9 DEF Requeue, history
  <2>2. /\ requeue[r] \in Seq(Entity) /\ Len(requeue[r]) >= 1
        /\ Head(requeue[r]) = requeue[r][1] /\ Head(requeue[r]) \in Entity
        /\ Head(requeue[r]).event \in Events /\ Head(requeue[r]).retries + 1 \in Nat
    BY <2>1, NextIsEntity
  <2>3. /\ RequeueCounts(Head(requeue[r]), failures[Head(requeue[r]).event])
        /\ failures[Head(requeue[r]).event] \in Nat
    BY <2>2 DEF RetriersCount, TypeOK
  <2>4. RowsCount'
    BY <2>1, <2>2, <2>3, SavedCounts, SaveKeepsRows DEF Statuses
  <2>5. RetriersCount'
    <3>1. requeue'[r] = Tail(requeue[r]) /\ \A q \in Retriers \ {r} : requeue'[q] = requeue[q]
      BY <2>1 DEF TypeOK
    <3>2. \A i \in 1 .. Len(Tail(requeue[r])) :
            i + 1 \in 1 .. Len(requeue[r]) /\ Tail(requeue[r])[i] = requeue[r][i + 1]
      BY <2>2
    <3> QED
      BY <2>1, <3>1, <3>2 DEF RetriersCount
  <2> QED
    BY <2>1, <2>4, <2>5 DEF RunsCount, InHand
<1>10. ASSUME NEW r \in Retriers, RetrierDies(r)
       PROVE  Counts'
  <2>1. requeue' = [requeue EXCEPT ![r] = << >>] /\ UNCHANGED <<row, batch, at, failures>>
    BY <1>10 DEF RetrierDies, history
  <2>2. requeue'[r] = << >> /\ Len(<< >>) = 0 /\ \A q \in Retriers \ {r} : requeue'[q] = requeue[q]
    BY <2>1 DEF TypeOK
  <2>3. RetriersCount'
    BY <2>1, <2>2 DEF RetriersCount
  <2> QED
    BY <2>1, <2>3 DEF RowsCount, RunsCount, InHand
<1>11. ASSUME NEW e \in Events, CleanOldEvents(e)
       PROVE  Counts'
  <2>1. row' = [row EXCEPT ![e] = NoRow] /\ UNCHANGED <<batch, at, requeue, failures>>
    BY <1>11 DEF CleanOldEvents, history
  <2>2. row'[e] = NoRow /\ \A x \in Events \ {e} : row'[x] = row[x]
    BY <2>1 DEF TypeOK
  <2> QED
    BY <2>1, <2>2 DEF RowsCount, RunsCount, RetriersCount, InHand
<1>12. CASE UNCHANGED vars
  BY <1>12 DEF vars, RowsCount, RunsCount, RetriersCount, InHand
<1> QED
  BY <1>1, <1>2, <1>3, <1>4, <1>5, <1>6, <1>7, <1>8, <1>9, <1>10, <1>11, <1>12 DEF Next, Work

-----------------------------------------------------------------------------
(* The invariant. *)

LEMMA InitInductive == Init => Inductive
<1> SUFFICES ASSUME Init
             PROVE  Inductive
  OBVIOUS
<1> USE DEF Init
<1>1. << >> \in Seq(Entity) /\ Len(<< >>) = 0
  OBVIOUS
<1>2. TypeOK
  BY <1>1, LimitsAssumption DEF TypeOK, Places, Row
<1>3. CompletedWasDelivered /\ DeliveredInHand /\ ProcessingHasOwner
  BY DEF CompletedWasDelivered, DeliveredInHand, ProcessingHasOwner, InStatus
<1>4. RowsCount /\ RunsCount /\ RetriersCount
  BY <1>1 DEF RowsCount, RunsCount, RetriersCount
<1> QED
  BY <1>2, <1>3, <1>4 DEF Inductive

LEMMA NextInductive == Inductive /\ [Next]_vars => Inductive'
BY TypeStep, DeliveredStep, OwnerStep, CountsStep DEF Inductive, Counts

LEMMA InductiveRetries ==
  ASSUME Inductive
  PROVE  RetriesWereFailures
BY DEF Inductive, RowsCount, RowCounts, RetriesWereFailures

(* The strengthening holds in every state of the system. *)
THEOREM InductiveInvariant == Spec => []Inductive
BY InitInductive, NextInductive, PTL DEF Spec

(* Rows, entities in hand and the history keep their types, however many   *)
(* runs overlap.                                                           *)
THEOREM TypeCorrect == Spec => []TypeOK
BY InductiveInvariant, PTL DEF Inductive

(* processEvent's `completed`: whatever stale entities are saved over it,  *)
(* a row says so, and is cleaned, only after the event was delivered.      *)
THEOREM NothingCompletedUndelivered == Spec => []CompletedWasDelivered
BY InductiveInvariant, PTL DEF Inductive

(* `processing`, a status no query looks for: only the death of a run      *)
(* leaves a row in it without a run that still has the event in hand.      *)
THEOREM NothingStrandsButDeath == Spec => []ProcessingHasOwner
BY InductiveInvariant, PTL DEF Inductive

(* processEvent's and retryFailed's retryCount: at most two for each       *)
(* attempt that failed, for every limit and number of runs.                *)
THEOREM RetriesAreEarned == Spec => []RetriesWereFailures
BY InductiveInvariant, InductiveRetries, PTL
=============================================================================
