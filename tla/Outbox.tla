-------------------------------- MODULE Outbox --------------------------------
(***************************************************************************)
(* escrow/outbox.service.ts: rows of `outbox_events` wait to be delivered  *)
(* by processPending, which a timer starts every five seconds in every     *)
(* backend process, whether or not an earlier run is still going.          *)
(*                                                                         *)
(* A run reads its batch once and works through those entities, so it may  *)
(* hold a row as it was long ago; save(entity) then stores the status and  *)
(* the retry count the run holds, over whatever the table says by now.     *)
(***************************************************************************)
EXTENDS Integers, Sequences, FiniteSets

CONSTANTS
  Count,        \* events the services will emit: 1 .. Count, in createdAt order
  Workers,      \* runs of processPending that may overlap
  Retriers,     \* runs of retryFailed that may overlap
  Batch,        \* rows processPending takes at once
  RetryBatch,   \* rows retryFailed takes at once
  MaxRetries,   \* retryCount at which retryFailed leaves a row alone
  MaxFaults,    \* bound: runs that die, and saves that throw, in a behaviour
  NoRow         \* no such row: not emitted yet, or cleaned

ASSUME LimitsAssumption ==
  /\ Count \in Nat /\ MaxFaults \in Nat
  /\ Batch \in Nat \ {0} /\ RetryBatch \in Nat \ {0} /\ MaxRetries \in Nat \ {0}

VARIABLES
  row,        \* rows of `outbox_events`
  older,      \* pairs of rows: the updatedAt of the first is the earlier one
  emitted,    \* events 1 .. emitted have been emitted
  batch,      \* batch[w]: the entities run w has left, the first in hand
  at,         \* at[w]: the next thing run w does
  requeue,    \* requeue[r]: the entities run r has left
  delivered,  \* history: events handed to their listeners
  failures,   \* history: failures[e]: failed attempts at e, counted up to MaxRetries
  lost,       \* history: events in the hand of a run that died
  faults      \* runs that died and saves that threw

vars == <<row, older, emitted, batch, at, requeue, delivered, failures, lost, faults>>
history == <<delivered, failures, lost>>

Events == 1 .. Count
Statuses == {"pending", "processing", "completed", "failed"}
Row == [status : Statuses, retries : Nat]
Entity == [event : Events, retries : Nat]
ASSUME MarkerAssumption == NoRow \notin Row
Places == {"idle", "claim", "deliver", "complete", "fail"}

InStatus(status) == {e \in Events : row[e] # NoRow /\ row[e].status = status}

Init ==
  /\ row = [e \in Events |-> NoRow]
  /\ older = {}
  /\ emitted = 0
  /\ batch = [w \in Workers |-> << >>]
  /\ at = [w \in Workers |-> "idle"]
  /\ requeue = [r \in Retriers |-> << >>]
  /\ delivered = {}
  /\ failures = [e \in Events |-> 0]
  /\ lost = {}
  /\ faults = 0

(* The order of createdAt. *)
Created == {p \in Events \X Events : p[1] < p[2]}

(* find(... take: n): entities for the first n events of S in the order.   *)
Found(n, order, S) ==
  LET size == IF Cardinality(S) < n THEN Cardinality(S) ELSE n
      First == {e \in [1 .. size -> S] :
                  \A i \in 1 .. size :
                    /\ \A j \in i + 1 .. size : <<e[i], e[j]>> \in order
                    /\ \A x \in S \ {e[j] : j \in 1 .. size} : <<e[i], x>> \in order}
  IN  {[i \in 1 .. size |-> [event |-> e[i], retries |-> row[e[i]].retries]] : e \in First}

(* save(entity): an update, or an insert if the row was cleaned meanwhile. *)
Save(e, status, retries) ==
  LET new == [status |-> status, retries |-> retries] IN
  /\ row' = [row EXCEPT ![e] = new]
  /\ older' = IF row[e] = new THEN older
              ELSE {p \in older : e \notin {p[1], p[2]}}
                   \cup {<<x, e>> : x \in {x \in Events \ {e} : row[x] # NoRow}}

Emit ==
  /\ emitted < Count
  /\ emitted' = emitted + 1
  /\ Save(emitted', "pending", 0)
  /\ UNCHANGED <<batch, at, requeue, history, faults>>

-----------------------------------------------------------------------------
(* processPending and processEvent *)

InHand(w) == Head(batch[w])

(* Mutant: the run does not end with its batch. *)
MoveOnStuck(w) ==
  /\ batch' = [batch EXCEPT ![w] = Tail(@)]
  /\ at' = [at EXCEPT ![w] = "claim"]
  /\ UNCHANGED <<emitted, requeue, history, faults>>

MoveOn(w) ==
  /\ batch' = [batch EXCEPT ![w] = Tail(@)]
  /\ at' = [at EXCEPT ![w] = IF Len(batch[w]) = 1 THEN "idle" ELSE "claim"]
  /\ UNCHANGED <<emitted, requeue, history, faults>>

GoTo(w, place) ==
  /\ at' = [at EXCEPT ![w] = place]
  /\ UNCHANGED <<emitted, batch, requeue>>

Missed(e) == failures' = [failures EXCEPT ![e] = IF @ = MaxRetries THEN @ ELSE @ + 1]

ProcessPending(w) ==
  /\ at[w] = "idle"
  /\ InStatus("pending") # {}
  /\ \E found \in Found(Batch, Created, InStatus("pending")) :
       batch' = [batch EXCEPT ![w] = found]
  /\ at' = [at EXCEPT ![w] = "claim"]
  /\ UNCHANGED <<row, older, emitted, requeue, history, faults>>

(* Mutant: an attempt is counted when it starts. *)
ClaimCounted(w) ==
  /\ at[w] = "claim"
  /\ Save(InHand(w).event, "processing", InHand(w).retries + 1)
  /\ GoTo(w, "deliver")
  /\ UNCHANGED <<history, faults>>

Claim(w) ==
  /\ at[w] = "claim"
  /\ Save(InHand(w).event, "processing", InHand(w).retries)
  /\ GoTo(w, "deliver")
  /\ UNCHANGED <<history, faults>>

Deliver(w) ==
  /\ at[w] = "deliver"
  /\ delivered' = delivered \cup {InHand(w).event}
  /\ GoTo(w, "complete")
  /\ UNCHANGED <<row, older, failures, lost, faults>>

(* Mutant: the error is swallowed. *)
DeliverFailsQuietly(w) ==
  /\ at[w] = "deliver"
  /\ Missed(InHand(w).event)
  /\ GoTo(w, "complete")
  /\ UNCHANGED <<row, older, delivered, lost, faults>>

(* A listener or the gateway throws. *)
DeliverFails(w) ==
  /\ at[w] = "deliver"
  /\ Missed(InHand(w).event)
  /\ GoTo(w, "fail")
  /\ UNCHANGED <<row, older, delivered, lost, faults>>

Complete(w) ==
  /\ at[w] = "complete"
  /\ Save(InHand(w).event, "completed", InHand(w).retries)
  /\ MoveOn(w)

(* The save is inside the try: the delivered event is booked as failed. *)
CompleteFails(w) ==
  /\ at[w] = "complete"
  /\ faults < MaxFaults
  /\ faults' = faults + 1
  /\ Missed(InHand(w).event)
  /\ GoTo(w, "fail")
  /\ UNCHANGED <<row, older, delivered, lost>>

(* Mutant: the failure is counted, and the status left as it was. *)
FailUnmarked(w) ==
  /\ at[w] = "fail"
  /\ Save(InHand(w).event, "processing", InHand(w).retries + 1)
  /\ MoveOn(w)

Fail(w) ==
  /\ at[w] = "fail"
  /\ Save(InHand(w).event, "failed", InHand(w).retries + 1)
  /\ MoveOn(w)

(* The process dies, or one of the two saves outside the try throws: the   *)
(* run is over, and nothing puts back the row it had in hand.              *)
Die(w) ==
  /\ at[w] # "idle"
  /\ faults < MaxFaults
  /\ faults' = faults + 1
  /\ lost' = IF at[w] = "claim" THEN lost ELSE lost \cup {InHand(w).event}
  /\ batch' = [batch EXCEPT ![w] = << >>]
  /\ at' = [at EXCEPT ![w] = "idle"]
  /\ UNCHANGED <<row, older, emitted, requeue, delivered, failures>>

-----------------------------------------------------------------------------
(* retryFailed *)

(* Mutant: only rows that were never tried are taken. *)
RetriableNever == {e \in InStatus("failed") : row[e].retries = 0}

Retriable == {e \in InStatus("failed") : row[e].retries < MaxRetries}

RetryFailed(r) ==
  /\ requeue[r] = << >>
  /\ Retriable # {}
  /\ \E found \in Found(RetryBatch, older, Retriable) :
       requeue' = [requeue EXCEPT ![r] = found]
  /\ UNCHANGED <<row, older, emitted, batch, at, history, faults>>

Requeue(r) ==
  /\ requeue[r] # << >>
  /\ Save(Head(requeue[r]).event, "pending", Head(requeue[r]).retries + 1)
  /\ requeue' = [requeue EXCEPT ![r] = Tail(@)]
  /\ UNCHANGED <<emitted, batch, at, history, faults>>

RetrierDies(r) ==
  /\ requeue[r] # << >>
  /\ faults < MaxFaults
  /\ faults' = faults + 1
  /\ requeue' = [requeue EXCEPT ![r] = << >>]
  /\ UNCHANGED <<row, older, emitted, batch, at, history>>

(* A completed row older than a week, by createdAt, is deleted. *)
CleanOldEvents(e) ==
  /\ e \in InStatus("completed")
  /\ row' = [row EXCEPT ![e] = NoRow]
  /\ older' = {p \in older : e \notin {p[1], p[2]}}
  /\ UNCHANGED <<emitted, batch, at, requeue, history, faults>>

Work(w) ==
  \/ Claim(w)
  \/ Deliver(w) \/ DeliverFails(w)
  \/ Complete(w)
  \/ Fail(w)

Next ==
  \/ Emit
  \/ \E w \in Workers : ProcessPending(w) \/ Work(w) \/ CompleteFails(w) \/ Die(w)
  \/ \E r \in Retriers : RetryFailed(r) \/ Requeue(r) \/ RetrierDies(r)
  \/ \E e \in Events : CleanOldEvents(e)

Spec == Init /\ [][Next]_vars

(* The timers keep firing and a run that can go on goes on; no service is  *)
(* obliged to emit, nothing is obliged to fail and rows may never be old.  *)
FairSpec ==
  /\ Spec
  /\ \A w \in Workers : WF_vars(ProcessPending(w)) /\ WF_vars(Work(w))
  /\ \A r \in Retriers : WF_vars(RetryFailed(r)) /\ WF_vars(Requeue(r))

-----------------------------------------------------------------------------

(* Type invariant: rows, entities in hand and the history.                 *)
TypeOK ==
  /\ row \in [Events -> Row \cup {NoRow}]
  /\ older \subseteq Events \X Events
  /\ emitted \in 0 .. Count
  /\ batch \in [Workers -> Seq(Entity)]
  /\ at \in [Workers -> Places]
  /\ \A w \in Workers : at[w] = "idle" <=> batch[w] = << >>
  /\ requeue \in [Retriers -> Seq(Entity)]
  /\ delivered \subseteq Events
  /\ failures \in [Events -> 0 .. MaxRetries]
  /\ lost \subseteq Events
  /\ faults \in 0 .. MaxFaults

(* A row that says `completed`, and a row that was cleaned, was delivered, *)
(* though stale runs overwrite rows, and even insert them again.           *)
CompletedWasDelivered ==
  \A e \in 1 .. emitted :
    row[e] = NoRow \/ row[e].status = "completed" => e \in delivered

(* No row is left in `processing`, which no query looks for, unless a run  *)
(* has the event in hand or a run that had it died.                        *)
ProcessingHasOwner ==
  \A e \in InStatus("processing") :
    \/ e \in lost
    \/ \E w \in Workers : at[w] \in {"deliver", "complete", "fail"} /\ InHand(w).event = e

(* retryCount, however stale the entity it was computed from, counts at    *)
(* most two for each attempt that failed: a row is never given up early    *)
(* because several runs booked one failure.                                *)
RetriesWereFailures ==
  \A e \in Events : row[e] # NoRow => row[e].retries <= 2 * failures[e]

GivenUp(e) == row[e] # NoRow /\ row[e].status = "failed" /\ row[e].retries >= MaxRetries

(* An emitted event is delivered, or retried until it is given up, or was  *)
(* in the hand of a run that died: nothing else can lose it, and the runs  *)
(* cannot push it back and forth between them for ever.                    *)
EventSettles ==
  \A e \in Events : e <= emitted ~> e \in delivered \/ GivenUp(e) \/ e \in lost

-----------------------------------------------------------------------------

(* "kullaniciya giden event kaybi OLMAZ", "retry mekanizmasi garanti       *)
(* edilir": an emitted event is delivered or retried until it is given up. *)
NoEventIsLost == \A e \in Events : e <= emitted ~> e \in delivered \/ GivenUp(e)
=============================================================================
