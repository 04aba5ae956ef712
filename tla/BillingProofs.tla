---------------------------- MODULE BillingProofs ----------------------------
(***************************************************************************)
(* Theorems about Billing, for any number of requests, of replicas of the  *)
(* renewal job and of subscriptions.                                       *)
(*                                                                         *)
(* A row may be saved long after it was read, and the save updates only    *)
(* columns.  So the invariant speaks of the saves and updates still to     *)
(* come, in the lists of the processes and inside the charges on those     *)
(* lists: each makes a row that is to be renewed, or active, only out of   *)
(* one that was, and no request renews anything.                           *)
(*                                                                         *)
(* A second invariant gives the lists that requests have and the payment   *)
(* that each process has in hand.  On it rest that one request buys at a   *)
(* time, what paid requests still owe to the credits, and that the rows of *)
(* credits add up until columns of two rows are mixed.                     *)
(***************************************************************************)
EXTENDS Billing, TLAPS, SequenceTheorems, FiniteSetTheorems

-----------------------------------------------------------------------------
(* The strengthening. *)

Renews(row) == row.status = "active" /\ row.autoRenew

(* Rows of subscriptions, with e periods given so far. *)
Rows(e) == {row \in Subscription : row.period \in 1 .. e}

(* An active row has not failed as often as leads to the grace period. *)
Sound(row) == row.status = "active" => row.fails < MaxFails

(* No save makes more of a subscription than there was. *)
Follows(row, was) ==
  /\ Renews(row) => Renews(was)
  /\ row.status = "active" => was.status = "active"
  /\ Sound(was) => Sound(row)

Credits == {c \in UserCredit : c.balance >= 0}

(* The steps that process p may have left, of the first n subscriptions.   *)
Saves(p, n, e) ==
  {w \in [do : {"saveSub"}, s : 1 .. n, row : Rows(e), was : Subscription] :
     Follows(w.row, w.was) /\ (Renews(w.row) => p \notin Handlers)}

Updates(p, n, e) ==
  {w \in [do : {"updateSub"}, s : 1 .. n, row : Rows(e), was : Subscription, saw : Subscription] :
     Follows(w.row, w.was) /\ (Renews(w.row) => p \notin Handlers)}

Extensions(p, n) == {w \in [do : {"extend"}, s : 1 .. n, row : Subscription] : p \notin Handlers}

CreditSaves ==
  {w \in [do : {"saveCredit"}, row : Credits, was : Credits] :
     w.row.totalPurchased \in {w.was.totalPurchased, w.was.totalPurchased + Pack}}

CreditUpdates ==
  {w \in [do : {"updateCredit"}, row : Credits, was : Credits, saw : Credits] :
     w.row.totalPurchased \in {w.was.totalPurchased, w.was.totalPurchased + Pack}}

Plain(p) == {w \in {Subscribe, FindExpired, AddCredits} \cup CreditSaves \cup CreditUpdates :
               p \in Handlers \/ w = FindExpired}

Leaves(p, n, e) == Saves(p, n, e) \cup Updates(p, n, e) \cup Extensions(p, n) \cup Plain(p)

Charges(p, n, e) ==
  {w \in [do : {"charge"}, for : {"subscription", "credits", "renewal"},
          yes : Seq(Leaves(p, n, e)), no : Seq(Leaves(p, n, e))] :
     p \in Handlers \/ w.for = "renewal"}
Calls(p, n, e) == [do : {"call"}, n : Nat, charge : Charges(p, n, e)]
Records(p, n, e) == [do : {"record"}, answer : {"success", "failed"}, call : Calls(p, n, e)]

Steps(p, n, e) ==
  Leaves(p, n, e) \cup Charges(p, n, e) \cup Calls(p, n, e) \cup Records(p, n, e)

JobsRight ==
  /\ job = [p \in Processes |-> job[p]]
  /\ \A p \in Processes : job[p] \in Seq(Steps(p, Len(subs), Len(periods)))

Typed ==
  /\ subs \in Seq(Rows(Len(periods)))
  /\ Len(periods) \in Nat /\ periods \in Seq({"running", "ending", "over"})
  /\ credit \in Credits
  /\ Len(payments) \in Nat /\ payments \in Seq(Payment)
  /\ cancelled \subseteq 1 .. Len(subs) /\ overwritten \subseteq 1 .. Len(subs)

LimitKept == \A s \in 1 .. Len(subs) \ overwritten : Sound(subs[s])

Inductive == Typed /\ JobsRight /\ CancelledStaysCancelled /\ LimitKept

-----------------------------------------------------------------------------
(* Lists of steps. *)

LEMMA SeqGrows ==
  ASSUME NEW S, NEW T, S \subseteq T
  PROVE  Seq(S) \subseteq Seq(T)
<1> SUFFICES ASSUME NEW s \in Seq(S) PROVE s \in Seq(T)
  OBVIOUS
<1>1. Len(s) \in Nat /\ s \in [1 .. Len(s) -> T]
  BY ElementOfSeq, LenProperties
<1> QED
  BY <1>1, SeqDef

LEMMA RowsGrow ==
  ASSUME NEW e \in Nat, NEW f \in Nat, e <= f
  PROVE  Rows(e) \subseteq Rows(f)
BY DEF Rows

(* What is a step of the first n subscriptions and e periods is one of     *)
(* more of them.                                                           *)
LEMMA StepsGrow ==
  ASSUME NEW p, NEW n \in Nat, NEW m \in Nat, n <= m, NEW e \in Nat, NEW f \in Nat, e <= f
  PROVE  Seq(Steps(p, n, e)) \subseteq Seq(Steps(p, m, f))
<1>1. Leaves(p, n, e) \subseteq Leaves(p, m, f)
  <2>1. 1 .. n \subseteq 1 .. m /\ Rows(e) \subseteq Rows(f)
    BY RowsGrow
  <2> QED
    BY <2>1 DEF Leaves, Saves, Updates, Extensions
<1>2. Seq(Leaves(p, n, e)) \subseteq Seq(Leaves(p, m, f))
  BY <1>1, SeqGrows
<1>3. Charges(p, n, e) \subseteq Charges(p, m, f)
  BY <1>2 DEF Charges
<1>4. Calls(p, n, e) \subseteq Calls(p, m, f)
  BY <1>3 DEF Calls
<1>5. Records(p, n, e) \subseteq Records(p, m, f)
  BY <1>4 DEF Records
<1>6. Steps(p, n, e) \subseteq Steps(p, m, f)
  BY <1>1, <1>3, <1>4, <1>5 DEF Steps
<1> QED
  BY <1>6, SeqGrows

(* The next step of a process. *)
LEMMA NextStep ==
  ASSUME Inductive, NEW p \in Processes, job[p] # << >>
  PROVE  /\ Head(job[p]) \in Steps(p, Len(subs), Len(periods))
         /\ Tail(job[p]) \in Seq(Steps(p, Len(subs), Len(periods)))
         /\ Len(subs) \in Nat /\ Len(periods) \in Nat
<1>1. /\ job[p] \in Seq(Steps(p, Len(subs), Len(periods))) /\ subs \in Seq(Rows(Len(periods)))
      /\ Len(periods) \in Nat
  BY DEF Inductive, JobsRight, Typed
<1> QED
  BY <1>1, HeadTailProperties, LenProperties

(* One list changes, into one of steps that are right. *)
LEMMA JobsKeep ==
  ASSUME Inductive, NEW p \in Processes, NEW todo \in Seq(Steps(p, Len(subs'), Len(periods'))),
         job' = [job EXCEPT ![p] = todo], Len(subs') \in Nat, Len(subs) <= Len(subs'),
         Len(periods') \in Nat, Len(periods) <= Len(periods')
  PROVE  JobsRight'
<1>1. /\ job = [q \in Processes |-> job[q]]
      /\ \A q \in Processes : job[q] \in Seq(Steps(q, Len(subs), Len(periods)))
  BY DEF Inductive, JobsRight
<1>2. DOMAIN job = Processes
  BY <1>1
<1>3. /\ job' = [q \in Processes |-> job'[q]] /\ job'[p] = todo
      /\ \A q \in Processes \ {p} : job'[q] = job[q]
  BY <1>1, <1>2
<1>4. \A q \in Processes : job[q] \in Seq(Steps(q, Len(subs'), Len(periods')))
  <2>1. Len(subs) \in Nat /\ Len(periods) \in Nat
    BY LenProperties DEF Inductive, Typed
  <2> QED
    BY <1>1, <2>1, StepsGrow
<1>5. \A q \in Processes : job'[q] \in Seq(Steps(q, Len(subs'), Len(periods')))
  BY <1>3, <1>4
<1> QED
  BY <1>3, <1>5 DEF JobsRight

(* The list goes on with more steps that are right. *)
LEMMA ThenKeeps ==
  ASSUME Inductive, NEW p \in Processes, job[p] # << >>,
         NEW more \in Seq(Steps(p, Len(subs'), Len(periods'))), Then(p, more),
         Len(subs') \in Nat, Len(subs) <= Len(subs'),
         Len(periods') \in Nat, Len(periods) <= Len(periods')
  PROVE  JobsRight'
<1>1. Tail(job[p]) \in Seq(Steps(p, Len(subs'), Len(periods')))
  BY NextStep, StepsGrow
<1>2. more \o Tail(job[p]) \in Seq(Steps(p, Len(subs'), Len(periods')))
  BY <1>1, ConcatProperties
<1>3. job' = [job EXCEPT ![p] = more \o Tail(job[p])]
  BY DEF Then
<1> QED
  BY <1>2, <1>3, JobsKeep

(* Which step it is, is told by what it does. *)
LEMMA Kinds ==
  ASSUME NEW p, NEW n, NEW e, NEW w \in Steps(p, n, e)
  PROVE  /\ w.do = "saveSub" => w \in Saves(p, n, e)
         /\ w.do = "updateSub" => w \in Updates(p, n, e)
         /\ w.do = "extend" => w \in Extensions(p, n)
         /\ w.do = "charge" => w \in Charges(p, n, e)
         /\ w.do = "call" => w \in Calls(p, n, e)
         /\ w.do = "record" => w \in Records(p, n, e)
         /\ w.do = "saveCredit" => w \in CreditSaves
         /\ w.do = "updateCredit" => w \in CreditUpdates
         /\ w.do = "subscribe" => w = Subscribe
         /\ w.do = "addCredits" => w = AddCredits
         /\ w.do \in {"subscribe", "addCredits", "saveCredit", "updateCredit"} => p \in Handlers
<1>1. w \in Saves(p, n, e) => w.do = "saveSub"
  BY DEF Saves
<1>2. w \in Extensions(p, n) => w.do = "extend"
  BY DEF Extensions
<1>3. w \in Charges(p, n, e) => w.do = "charge"
  BY DEF Charges
<1>4. w \in Calls(p, n, e) => w.do = "call"
  BY DEF Calls
<1>5. w \in Records(p, n, e) => w.do = "record"
  BY DEF Records
<1>6. w \in Plain(p) =>
        \/ w \in CreditSaves /\ w.do = "saveCredit" /\ p \in Handlers
        \/ w \in CreditUpdates /\ w.do = "updateCredit" /\ p \in Handlers
        \/ w = Subscribe /\ w.do = "subscribe" /\ p \in Handlers
        \/ w = AddCredits /\ w.do = "addCredits" /\ p \in Handlers
        \/ w.do = "findExpired"
  <2>1. \A v \in CreditSaves : v.do = "saveCredit"
    BY DEF CreditSaves
  <2>2. \A v \in CreditUpdates : v.do = "updateCredit"
    BY DEF CreditUpdates
  <2>3. Subscribe.do = "subscribe" /\ FindExpired.do = "findExpired" /\ AddCredits.do = "addCredits"
    BY DEF Subscribe, FindExpired, AddCredits
  <2> QED
    BY <2>1, <2>2, <2>3 DEF Plain
<1>7. w \in Updates(p, n, e) => w.do = "updateSub"
  BY DEF Updates
<1>8. \/ w \in Saves(p, n, e) \/ w \in Updates(p, n, e) \/ w \in Extensions(p, n)
      \/ w \in Plain(p)
      \/ w \in Charges(p, n, e) \/ w \in Calls(p, n, e) \/ w \in Records(p, n, e)
  BY DEF Steps, Leaves
<1> QED
  BY <1>1, <1>2, <1>3, <1>4, <1>5, <1>6, <1>7, <1>8

(* A column is that of the row that is stored, or the one that is there. *)
LEMMA UpdatedRow ==
  ASSUME NEW e, NEW u, u.row \in Rows(e), subs[u.s] \in Rows(e)
  PROVE  UpdatedSub(u) \in Rows(e)
<1> DEFINE a == Written(u.row.status, u.saw.status, subs[u.s].status)
           b == Written(u.row.autoRenew, u.saw.autoRenew, subs[u.s].autoRenew)
           c == Written(u.row.fails, u.saw.fails, subs[u.s].fails)
           d == Written(u.row.period, u.saw.period, subs[u.s].period)
<1>1. a \in SubscriptionStatuses /\ b \in BOOLEAN /\ c \in Nat
  BY DEF Rows, Subscription, Written
<1>2. d \in Nat /\ d \in 1 .. e
  BY DEF Rows, Subscription, Written
<1>3. UpdatedSub(u) = [status |-> a, autoRenew |-> b, fails |-> c, period |-> d]
  BY DEF UpdatedSub
<1> HIDE DEF a, b, c, d
<1> QED
  BY <1>1, <1>2, <1>3 DEF Rows, Subscription

(* The columns of a row are updated, as one of the updates that are right. *)
LEMMA UpdateSubKeeps ==
  ASSUME Inductive, NEW p \in Processes, DoUpdateSub(p)
  PROVE  Inductive'
<1>0. PICK w : w = Head(job[p])
  OBVIOUS
<1> DEFINE new == UpdatedSub(w)
<1>1. /\ job[p] # << >> /\ w.do = "updateSub" /\ Then(p, << >>)
      /\ subs' = [subs EXCEPT ![w.s] = new]
      /\ cancelled' = cancelled \cup IF p \in Handlers THEN {w.s} ELSE {}
      /\ overwritten' = overwritten \cup IF subs[w.s] # w.was \/ new # w.row THEN {w.s} ELSE {}
      /\ periods' = periods /\ credit' = credit /\ payments' = payments
  BY <1>0 DEF DoUpdateSub, Doing, Advance
<1>2. w \in Updates(p, Len(subs), Len(periods))
  BY <1>0, <1>1, NextStep, Kinds
<1>3. PICK s : s = w.s
  OBVIOUS
<1>4. /\ s \in 1 .. Len(subs) /\ w.row \in Rows(Len(periods)) /\ w.was \in Subscription
      /\ Renews(w.row) => Renews(w.was) /\ p \notin Handlers
      /\ Sound(w.was) => Sound(w.row)
  BY <1>2, <1>3 DEF Updates, Follows
<1>5. /\ subs \in Seq(Rows(Len(periods))) /\ Len(subs) \in Nat /\ Len(periods) \in Nat
      /\ cancelled \subseteq 1 .. Len(subs) /\ overwritten \subseteq 1 .. Len(subs)
  BY LenProperties DEF Inductive, Typed
<1>6. new \in Rows(Len(periods))
  <2>1. subs[w.s] \in Rows(Len(periods))
    BY <1>3, <1>4, <1>5, ElementOfSeq
  <2> QED
    BY <1>4, <2>1, UpdatedRow
<1> HIDE DEF new
<1>7. /\ subs' \in Seq(Rows(Len(periods'))) /\ Len(subs') = Len(subs)
      /\ subs'[s] = new /\ \A t \in 1 .. Len(subs) : t # s => subs'[t] = subs[t]
  BY <1>1, <1>3, <1>4, <1>5, <1>6, ExceptSeq
<1>8. Typed'
  BY <1>1, <1>3, <1>4, <1>5, <1>7 DEF Inductive, Typed
<1>9. JobsRight'
  <2>1. /\ Len(subs') \in Nat /\ Len(subs) <= Len(subs')
        /\ Len(periods') \in Nat /\ Len(periods) <= Len(periods')
    BY <1>1, <1>5, <1>7
  <2>2. job[p] # << >> /\ Then(p, << >>)
    BY <1>1
  <2> QED
    BY <2>1, <2>2, ThenKeeps, EmptySeq
<1>10. ASSUME s \notin overwritten'
       PROVE  s \notin overwritten /\ subs[s] = w.was /\ subs'[s] = w.row
  BY <1>1, <1>3, <1>7, <1>10
<1>11. CancelledStaysCancelled'
  <2> SUFFICES ASSUME NEW t \in cancelled', Renews(subs'[t]), t \notin overwritten'
               PROVE  FALSE
    BY DEF CancelledStaysCancelled, Renews
  <2>1. CASE t = s
    <3>1. Renews(w.was) /\ p \notin Handlers
      BY <1>4, <1>10, <2>1
    <3>2. t \in cancelled
      BY <1>1, <3>1
    <3> QED
      BY <1>10, <2>1, <3>1, <3>2 DEF Inductive, CancelledStaysCancelled, Renews
  <2>2. CASE t # s
    <3>1. t \in cancelled /\ subs'[t] = subs[t]
      BY <1>1, <1>3, <1>5, <1>7, <2>2
    <3> QED
      BY <1>1, <3>1 DEF Inductive, CancelledStaysCancelled, Renews
  <2> QED
    BY <2>1, <2>2
<1>12. LimitKept'
  <2> SUFFICES ASSUME NEW t \in 1 .. Len(subs), t \notin overwritten' PROVE Sound(subs'[t])
    BY <1>7 DEF LimitKept, Sound
  <2>1. t \notin overwritten /\ Sound(subs[t])
    BY <1>1 DEF Inductive, LimitKept
  <2> QED
    BY <1>4, <1>7, <1>10, <2>1
<1> QED
  BY <1>8, <1>9, <1>11, <1>12 DEF Inductive

(* A step that leaves subscriptions, and what is said of them, alone. *)
LEMMA RestKeeps ==
  ASSUME Inductive, JobsRight', subs' = subs, cancelled' = cancelled, overwritten' = overwritten,
         Len(periods') = Len(periods), periods' \in Seq({"running", "ending", "over"}),
         credit' \in Credits, Len(payments') \in Nat, payments' \in Seq(Payment)
  PROVE  Inductive'
<1>1. Typed'
  BY DEF Inductive, Typed
<1>2. CancelledStaysCancelled' /\ LimitKept'
  BY DEF Inductive, CancelledStaysCancelled, LimitKept
<1> QED
  BY <1>1, <1>2 DEF Inductive

(* A leaf is a step, and so is a charge between two lists of leaves. *)
LEMMA MakeSteps ==
  ASSUME NEW p, NEW n, NEW e
  PROVE  /\ \A w \in Saves(p, n, e) : w \in Leaves(p, n, e) /\ w \in Steps(p, n, e)
         /\ \A w \in Updates(p, n, e) : w \in Steps(p, n, e)
         /\ \A w \in Plain(p) : w \in Leaves(p, n, e) /\ w \in Steps(p, n, e)
         /\ \A w \in Extensions(p, n) : w \in Leaves(p, n, e)
         /\ FindExpired \in Plain(p)
         /\ p \in Handlers => Subscribe \in Plain(p) /\ AddCredits \in Plain(p)
         /\ \A what \in {"subscription", "credits", "renewal"},
               yes, no \in Seq(Leaves(p, n, e)) :
              p \in Handlers \/ what = "renewal" => Charge(what, yes, no) \in Steps(p, n, e)
BY DEF Steps, Leaves, Plain, Charges, Charge

LEMMA MakeSave ==
  ASSUME NEW p, NEW n, NEW e, NEW s \in 1 .. n, NEW row \in Rows(e), NEW was \in Subscription,
         Follows(row, was), Renews(row) => p \notin Handlers
  PROVE  SaveSub(s, row, was) \in Saves(p, n, e)
BY DEF Saves, SaveSub

LEMMA MakeSaveCredit ==
  ASSUME NEW h \in Handlers, NEW row \in Credits, NEW was \in Credits,
         row.totalPurchased \in {was.totalPurchased, was.totalPurchased + Pack}
  PROVE  SaveCredit(row, was) \in Plain(h)
BY DEF Plain, SaveCredit, CreditSaves

(* A process takes up a list of steps that are right. *)
LEMMA BeginKeeps ==
  ASSUME Inductive, NEW p \in Processes, NEW todo \in Seq(Steps(p, Len(subs), Len(periods))), Begin(p, todo)
  PROVE  Inductive'
<1>1. /\ job' = [job EXCEPT ![p] = todo]
      /\ subs' = subs /\ periods' = periods /\ credit' = credit /\ payments' = payments
      /\ cancelled' = cancelled /\ overwritten' = overwritten
  BY DEF Begin
<1>2. JobsRight'
  <2>1. Len(subs) \in Nat /\ Len(periods) \in Nat
    BY LenProperties DEF Inductive, Typed
  <2>2. /\ Len(subs') \in Nat /\ Len(subs) <= Len(subs')
        /\ Len(periods') \in Nat /\ Len(periods) <= Len(periods')
    BY <1>1, <2>1
  <2> QED
    BY <1>1, <2>2, JobsKeep
<1> QED
  BY <1>1, <1>2, RestKeeps DEF Inductive, Typed

LEMMA ActiveRow ==
  ASSUME Inductive, NEW s \in DOMAIN subs
  PROVE  /\ s \in 1 .. Len(subs) /\ Len(subs) \in Nat
         /\ subs[s] \in Rows(Len(periods)) /\ subs[s] \in Subscription
<1>1. subs \in Seq(Rows(Len(periods)))
  BY DEF Inductive, Typed
<1>2. s \in 1 .. Len(subs) /\ Len(subs) \in Nat /\ subs[s] \in Rows(Len(periods))
  BY <1>1, LenProperties, ElementOfSeq
<1> QED
  BY <1>2 DEF Rows

(* What a user asks for. *)
LEMMA RequestKeeps ==
  ASSUME Inductive, NEW h \in Handlers, Request(h)
  PROVE  Inductive'
<1> DEFINE n == Len(subs)
           e == Len(periods)
<1>0. h \in Processes
  BY DEF Processes
<1>1. PayForPlan \in Steps(h, n, e)
  <2>1. <<Subscribe>> \in Seq(Leaves(h, n, e)) /\ << >> \in Seq(Leaves(h, n, e))
    BY MakeSteps, EmptySeq
  <2> QED
    BY <2>1, MakeSteps DEF PayForPlan
<1>2. CASE Purchase(h)
  <2>1. CASE Begin(h, <<PayForPlan>>)
    <3>1. <<PayForPlan>> \in Seq(Steps(h, n, e))
      BY <1>1
    <3> QED
      BY <1>0, <2>1, <3>1, BeginKeeps
  <2>2. ASSUME NEW s \in Active,
               Begin(h, <<SaveSub(s, [subs[s] EXCEPT !.status = "cancelled"], subs[s]), PayForPlan>>)
        PROVE  Inductive'
    <3> DEFINE row == [subs[s] EXCEPT !.status = "cancelled"]
    <3>1. s \in 1 .. n /\ subs[s] \in Rows(e) /\ subs[s] \in Subscription
      BY ActiveRow DEF Active
    <3>2. row \in Rows(e) /\ ~Renews(row) /\ Follows(row, subs[s])
      BY <3>1 DEF Rows, Follows, Subscription, SubscriptionStatuses, Renews, Sound
    <3> HIDE DEF row
    <3>3. SaveSub(s, row, subs[s]) \in Steps(h, n, e)
      BY <3>1, <3>2, MakeSave, MakeSteps
    <3>4. <<SaveSub(s, row, subs[s]), PayForPlan>> \in Seq(Steps(h, n, e))
      BY <1>1, <3>3
    <3> QED
      BY <1>0, <2>2, <3>4, BeginKeeps DEF row
  <2> QED
    BY <1>2, <2>1, <2>2 DEF Purchase
<1>3. CASE CancelSubscription(h)
  <2>1. PICK s \in Active : Begin(h, <<SaveSub(s, [subs[s] EXCEPT !.autoRenew = FALSE], subs[s])>>)
    BY <1>3 DEF CancelSubscription, Latest
  <2> DEFINE row == [subs[s] EXCEPT !.autoRenew = FALSE]
  <2>2. s \in 1 .. n /\ subs[s] \in Rows(e) /\ subs[s] \in Subscription
    BY ActiveRow DEF Active
  <2>3. row \in Rows(e) /\ ~Renews(row) /\ Follows(row, subs[s])
    BY <2>2 DEF Rows, Follows, Subscription, Renews, Sound
  <2> HIDE DEF row
  <2>4. SaveSub(s, row, subs[s]) \in Steps(h, n, e)
    BY <2>2, <2>3, MakeSave, MakeSteps
  <2>5. <<SaveSub(s, row, subs[s])>> \in Seq(Steps(h, n, e))
    BY <2>4
  <2> QED
    BY <1>0, <2>1, <2>5, BeginKeeps DEF row
<1>4. CASE BuyCredits(h)
  <2>1. <<AddCredits>> \in Seq(Leaves(h, n, e)) /\ << >> \in Seq(Leaves(h, n, e))
    BY MakeSteps, EmptySeq
  <2>2. Charge("credits", <<AddCredits>>, << >>) \in Steps(h, n, e)
    BY <2>1, MakeSteps
  <2>3. <<Charge("credits", <<AddCredits>>, << >>)>> \in Seq(Steps(h, n, e))
    BY <2>2
  <2> QED
    BY <1>0, <1>4, <2>3, BeginKeeps DEF BuyCredits
<1>5. ASSUME NEW m \in Int, m <= credit.balance, Begin(h, <<SaveCredit(Used(m), credit)>>)
      PROVE  Inductive'
  <2> DEFINE b == credit.balance - m
             u == credit.totalUsed + m
             row == [credit EXCEPT !.balance = b, !.totalUsed = u]
  <2>1. credit \in Credits /\ credit \in UserCredit
    BY DEF Inductive, Typed, Credits
  <2>2. b \in Int /\ u \in Int /\ b >= 0
    BY <1>5, <2>1 DEF UserCredit
  <2>3. Used(m) = row
    BY DEF Used
  <2> HIDE DEF b, u
  <2>4. row \in UserCredit /\ row.balance = b /\ row.totalUsed = u
        /\ row.totalPurchased = credit.totalPurchased
    BY <2>1, <2>2 DEF UserCredit
  <2> HIDE DEF row
  <2>5. row \in Credits
    BY <2>2, <2>4 DEF Credits
  <2>6. SaveCredit(Used(m), credit) \in Steps(h, n, e)
    BY <2>1, <2>3, <2>4, <2>5, MakeSaveCredit, MakeSteps
  <2>7. <<SaveCredit(Used(m), credit)>> \in Seq(Steps(h, n, e))
    BY <2>6
  <2> QED
    BY <1>0, <1>5, <2>7, BeginKeeps
<1>6. CASE Deduct(h)
  <2>1. Invoice \in Int /\ (Deduct(h) => Invoice <= credit.balance)
    <3>1. credit \in UserCredit
      BY DEF Inductive, Typed, Credits
    <3> QED
      BY <3>1, BillingAssumption DEF UserCredit, Deduct
  <2> QED
    BY <1>5, <1>6, <2>1 DEF Deduct
<1>7. CASE Refund(h)
  <2>1. -Invoice \in Int /\ -Invoice <= credit.balance
    <3>1. credit \in UserCredit /\ credit.balance >= 0
      BY DEF Inductive, Typed, Credits
    <3> QED
      BY <3>1, BillingAssumption DEF UserCredit
  <2> QED
    BY <1>5, <1>7, <2>1 DEF Refund
<1> QED
  BY <1>2, <1>3, <1>4, <1>6, <1>7 DEF Request

-----------------------------------------------------------------------------
(* The renewal job. *)

(* find() answers with a list of what it was asked for. *)
LEMMA OrdersAreLists ==
  ASSUME Inductive, NEW S, S \subseteq DOMAIN subs, NEW f \in Orders(S)
  PROVE  Cardinality(S) \in Nat /\ f \in [1 .. Cardinality(S) -> S]
<1>1. DOMAIN subs = 1 .. Len(subs) /\ Len(subs) \in Nat
  BY LenProperties DEF Inductive, Typed
<1>2. IsFiniteSet(S)
  <2>1. IsFiniteSet(1 .. Len(subs))
    BY <1>1, FS_Interval
  <2> QED
    BY <1>1, <2>1, FS_Subset
<1> QED
  BY <1>2, FS_CardinalityType DEF Orders

(* A function on 1 .. n is a list. *)
LEMMA ListOf ==
  ASSUME NEW S, NEW n \in Nat, NEW f \in [1 .. n -> S]
  PROVE  f \in Seq(S)
BY SeqDef

LEMMA FailedRow ==
  ASSUME NEW e, NEW row \in Rows(e)
  PROVE  Failed(row) \in Rows(e) /\ Follows(Failed(row), row)
<1> DEFINE f == row.fails + 1
           s == IF row.fails + 1 >= MaxFails THEN "grace_period" ELSE row.status
           new == [row EXCEPT !.fails = f, !.status = s]
<1>0. row \in Subscription /\ row.period \in 1 .. e /\ MaxFails \in Nat
  BY BillingAssumption DEF Rows
<1>1. Failed(row) = new
  BY DEF Failed
<1>2. /\ f \in Nat /\ s \in SubscriptionStatuses /\ s \in {"grace_period", row.status}
      /\ s = "active" => f < MaxFails
  BY <1>0 DEF Subscription, SubscriptionStatuses
<1> HIDE DEF f, s
<1>3. /\ new \in Subscription /\ new.status = s /\ new.autoRenew = row.autoRenew
      /\ new.period = row.period /\ new.fails = f
  BY <1>0, <1>2 DEF Subscription
<1> HIDE DEF new
<1> QED
  BY <1>0, <1>1, <1>2, <1>3 DEF Rows, Follows, Renews, Sound

(* What the job charges for, and what it does next, is right. *)
LEMMA RenewalIsStep ==
  ASSUME Inductive, NEW k \in Crons, NEW s \in DOMAIN subs
  PROVE  RenewalOf(s) \in Steps(k, Len(subs), Len(periods))
<1> DEFINE n == Len(subs)
           e == Len(periods)
<1>1. s \in 1 .. n /\ subs[s] \in Rows(e) /\ subs[s] \in Subscription /\ k \notin Handlers
  BY ActiveRow, BillingAssumption
<1>2. Extend(s, subs[s]) \in Leaves(k, n, e)
  <2>1. Extend(s, subs[s]) \in Extensions(k, n)
    BY <1>1 DEF Extend, Extensions
  <2> QED
    BY <2>1, MakeSteps
<1>3. SaveSub(s, Failed(subs[s]), subs[s]) \in Leaves(k, n, e)
  <2>1. SaveSub(s, Failed(subs[s]), subs[s]) \in Saves(k, n, e)
    BY <1>1, FailedRow, MakeSave
  <2> QED
    BY <2>1, MakeSteps
<1>4. /\ <<Extend(s, subs[s])>> \in Seq(Leaves(k, n, e))
      /\ <<SaveSub(s, Failed(subs[s]), subs[s])>> \in Seq(Leaves(k, n, e))
  BY <1>2, <1>3
<1> QED
  BY <1>4, MakeSteps DEF RenewalOf

LEMMA RenewalsKeep ==
  ASSUME Inductive, NEW k \in Crons, ProcessRenewals(k)
  PROVE  Inductive'
<1> DEFINE n == Len(subs)
           e == Len(periods)
<1>1. PICK due \in Orders(Due) :
        Begin(k, [i \in DOMAIN due |-> RenewalOf(due[i])] \o <<FindExpired>>)
  BY DEF ProcessRenewals
<1> DEFINE c == Cardinality(Due)
           first == [i \in DOMAIN due |-> RenewalOf(due[i])]
<1>2. Due \subseteq DOMAIN subs
  BY DEF Due, Active
<1>3. c \in Nat /\ due \in [1 .. c -> Due]
  BY <1>2, OrdersAreLists
<1> HIDE DEF c
<1>4. first \in [1 .. c -> Steps(k, n, e)]
  BY <1>2, <1>3, RenewalIsStep
<1>5. first \in Seq(Steps(k, n, e)) /\ <<FindExpired>> \in Seq(Steps(k, n, e))
  BY <1>3, <1>4, ListOf, MakeSteps
<1> HIDE DEF first
<1>6. first \o <<FindExpired>> \in Seq(Steps(k, n, e))
  BY <1>5, ConcatProperties
<1>7. k \in Processes
  BY DEF Processes
<1> QED
  BY <1>1, <1>6, <1>7, BeginKeeps DEF first

-----------------------------------------------------------------------------
(* The steps of a process. *)

(* A step that only goes on, and perhaps writes payments or credits. *)
LEMMA PlainKeeps ==
  ASSUME Inductive, NEW p \in Processes, job[p] # << >>,
         NEW more \in Seq(Steps(p, Len(subs), Len(periods))), Then(p, more),
         subs' = subs, cancelled' = cancelled, overwritten' = overwritten, periods' = periods,
         credit' \in Credits, payments' \in Seq(Payment)
  PROVE  Inductive'
<1>1. JobsRight'
  BY ThenKeeps
<1>2. Len(payments') \in Nat /\ Len(periods') \in Nat /\ periods' \in Seq({"running", "ending", "over"})
  BY LenProperties DEF Inductive, Typed
<1> QED
  BY <1>1, <1>2, RestKeeps

(* The save has seen the row that is there. *)
LEMMA SaveSubKeeps ==
  ASSUME Inductive, NEW p \in Processes, DoSaveSub(p)
  PROVE  Inductive'
<1>0. PICK w : w = Head(job[p])
  OBVIOUS
<1> DEFINE v == UpdateSub(w.s, w.row, w.was, subs[w.s])
<1>1. /\ job[p] # << >> /\ w.do = "saveSub" /\ Then(p, <<v>>)
      /\ subs' = subs /\ cancelled' = cancelled /\ overwritten' = overwritten
      /\ periods' = periods /\ credit' = credit /\ payments' = payments
  BY <1>0 DEF DoSaveSub, Doing, history
<1>2. w \in Saves(p, Len(subs), Len(periods))
  BY <1>0, <1>1, NextStep, Kinds
<1>3. subs[w.s] \in Subscription
  <2>1. w.s \in 1 .. Len(subs) /\ DOMAIN subs = 1 .. Len(subs)
    BY <1>2, LenProperties DEF Saves, Inductive, Typed
  <2> QED
    BY <2>1, ActiveRow
<1>4. v \in Updates(p, Len(subs), Len(periods))
  BY <1>2, <1>3 DEF Saves, Updates, UpdateSub
<1> HIDE DEF v
<1>5. <<v>> \in Seq(Steps(p, Len(subs), Len(periods)))
  BY <1>4, MakeSteps
<1>6. credit' \in Credits /\ payments' \in Seq(Payment)
  BY <1>1 DEF Inductive, Typed
<1> QED
  BY <1>1, <1>5, <1>6, PlainKeeps

(* The row as the job found it, with a new period, is to be saved. *)
LEMMA ExtendKeeps ==
  ASSUME Inductive, NEW p \in Processes, DoExtend(p)
  PROVE  Inductive'
<1>0. PICK w : w = Head(job[p])
  OBVIOUS
<1> DEFINE t == Len(periods) + 1
           row == [w.row EXCEPT !.period = t, !.fails = 0]
           v == SaveSub(w.s, row, w.row)
<1>1. /\ job[p] # << >> /\ w.do = "extend" /\ Then(p, <<v>>)
      /\ subs' = subs /\ cancelled' = cancelled /\ overwritten' = overwritten
      /\ periods' = Append(periods, "running") /\ credit' = credit /\ payments' = payments
  BY <1>0 DEF DoExtend, Doing, history
<1>2. w \in Extensions(p, Len(subs))
  BY <1>0, <1>1, NextStep, Kinds
<1>3. w.s \in 1 .. Len(subs) /\ w.row \in Subscription /\ p \notin Handlers
  BY <1>2 DEF Extensions
<1>4. t \in Nat /\ t >= 1 /\ MaxFails > 0
  BY BillingAssumption DEF Inductive, Typed
<1>5. /\ Len(periods') \in Nat /\ Len(periods) <= Len(periods') /\ Len(periods') = t
      /\ periods' \in Seq({"running", "ending", "over"})
  BY <1>1, AppendProperties, LenProperties DEF Inductive, Typed
<1> HIDE DEF t
<1>6. row \in Rows(t) /\ Follows(row, w.row)
  <2>1. /\ row \in Subscription /\ row.period = t /\ row.fails = 0
        /\ row.status = w.row.status /\ row.autoRenew = w.row.autoRenew
    BY <1>3, <1>4 DEF Subscription
  <2>2. t \in 1 .. t
    BY <1>4
  <2> HIDE DEF row
  <2> QED
    BY <1>4, <2>1, <2>2 DEF Rows, Follows, Renews, Sound
<1> HIDE DEF row
<1>7. v \in Saves(p, Len(subs), t)
  BY <1>3, <1>6, MakeSave
<1> HIDE DEF v
<1>8. <<v>> \in Seq(Steps(p, Len(subs'), Len(periods')))
  BY <1>1, <1>5, <1>7, MakeSteps
<1>9. /\ subs \in Seq(Rows(Len(periods))) /\ subs \in Seq(Rows(t)) /\ Len(subs) \in Nat
  <2>1. subs \in Seq(Rows(Len(periods))) /\ Len(periods) \in Nat /\ Len(periods) <= t
    BY <1>4, <1>5 DEF Inductive, Typed, t
  <2> QED
    BY <1>4, <2>1, RowsGrow, SeqGrows, LenProperties
<1>10. Typed'
  BY <1>1, <1>5, <1>9 DEF Inductive, Typed
<1>11. JobsRight'
  <2>1. Len(subs') \in Nat /\ Len(subs) <= Len(subs')
    BY <1>1, <1>9
  <2>2. job[p] # << >> /\ Then(p, <<v>>)
    BY <1>1
  <2> QED
    BY <1>5, <1>8, <2>1, <2>2, ThenKeeps
<1>12. CancelledStaysCancelled' /\ LimitKept'
  BY <1>1 DEF Inductive, CancelledStaysCancelled, LimitKept
<1> QED
  BY <1>10, <1>11, <1>12 DEF Inductive

LEMMA FindExpiredKeeps ==
  ASSUME Inductive, NEW p \in Processes, DoFindExpired(p)
  PROVE  Inductive'
<1> DEFINE n == Len(subs)
           e == Len(periods)
<1>1. PICK found \in Orders(Overdue) :
        Then(p, [i \in DOMAIN found |->
                   SaveSub(found[i], [subs[found[i]] EXCEPT !.status = "expired"], subs[found[i]])])
  BY DEF DoFindExpired
<1> DEFINE c == Cardinality(Overdue)
           more == [i \in DOMAIN found |->
                      SaveSub(found[i], [subs[found[i]] EXCEPT !.status = "expired"], subs[found[i]])]
<1>2. Overdue \subseteq DOMAIN subs
  BY DEF Overdue
<1>3. c \in Nat /\ found \in [1 .. c -> Overdue]
  BY <1>2, OrdersAreLists
<1> HIDE DEF c
<1>4. ASSUME NEW s \in Overdue
      PROVE  SaveSub(s, [subs[s] EXCEPT !.status = "expired"], subs[s]) \in Steps(p, n, e)
  <2> DEFINE row == [subs[s] EXCEPT !.status = "expired"]
  <2>1. s \in 1 .. n /\ subs[s] \in Rows(e) /\ subs[s] \in Subscription
    BY <1>2, ActiveRow
  <2>2. row \in Rows(e) /\ ~Renews(row) /\ Follows(row, subs[s])
    BY <2>1 DEF Rows, Follows, Subscription, SubscriptionStatuses, Renews, Sound
  <2> HIDE DEF row
  <2>3. SaveSub(s, row, subs[s]) \in Steps(p, n, e)
    BY <2>1, <2>2, MakeSave, MakeSteps
  <2> QED
    BY <2>3 DEF row
<1>5. more \in [1 .. c -> Steps(p, n, e)]
  BY <1>3, <1>4
<1>6. more \in Seq(Steps(p, n, e))
  BY <1>3, <1>5, ListOf
<1> HIDE DEF more
<1>7. /\ job[p] # << >> /\ subs' = subs /\ cancelled' = cancelled /\ overwritten' = overwritten
      /\ periods' = periods /\ credit' = credit /\ payments' = payments
  BY DEF DoFindExpired, Doing, history
<1>8. credit' \in Credits /\ payments' \in Seq(Payment)
  BY <1>7 DEF Inductive, Typed
<1> QED
  BY <1>1, <1>6, <1>7, <1>8, PlainKeeps DEF more

(* A new subscription has not been cancelled. *)
LEMMA SubscribeKeeps ==
  ASSUME Inductive, NEW p \in Processes, DoSubscribe(p)
  PROVE  Inductive'
<1> DEFINE n == Len(subs)
           e == Len(periods)
           t == Len(periods) + 1
           new == [status |-> "active", autoRenew |-> TRUE, fails |-> 0, period |-> t]
<1>0. /\ subs \in Seq(Rows(e)) /\ e \in Nat /\ t \in Nat /\ e <= t
  BY DEF Inductive, Typed
<1>1. /\ subs \in Seq(Rows(t)) /\ n \in Nat
      /\ cancelled \subseteq 1 .. n /\ overwritten \subseteq 1 .. n
  BY <1>0, RowsGrow, SeqGrows, LenProperties DEF Inductive, Typed
<1>2. /\ job[p] # << >> /\ subs' = Append(subs, new) /\ periods' = Append(periods, "running")
      /\ cancelled' = cancelled /\ overwritten' = overwritten
      /\ credit' = credit /\ payments' = payments /\ Then(p, << >>)
  BY DEF DoSubscribe, Doing, history, Advance
<1>3. new \in Rows(t)
  <2>1. MaxFails > 0 /\ t \in 1 .. t
    BY <1>0, BillingAssumption
  <2> HIDE DEF t
  <2> QED
    BY <2>1, <1>0 DEF Rows, Subscription, SubscriptionStatuses
<1> HIDE DEF new
<1>4. /\ subs' \in Seq(Rows(t)) /\ Len(subs') = n + 1
      /\ \A s \in 1 .. n : subs'[s] = subs[s]
  BY <1>1, <1>2, <1>3, AppendProperties
<1>5. Len(periods') = t /\ periods' \in Seq({"running", "ending", "over"})
  BY <1>2, AppendProperties, LenProperties DEF Inductive, Typed
<1>6. Typed'
  BY <1>0, <1>1, <1>2, <1>4, <1>5 DEF Inductive, Typed
<1>7. JobsRight'
  <2>1. Len(subs') \in Nat /\ Len(subs) <= Len(subs') /\ Len(periods') \in Nat
        /\ Len(periods) <= Len(periods')
    BY <1>0, <1>1, <1>4, <1>5
  <2> QED
    BY <1>2, <2>1, ThenKeeps, EmptySeq
<1>8. CancelledStaysCancelled'
  BY <1>1, <1>2, <1>4 DEF Inductive, CancelledStaysCancelled
<1>9. LimitKept'
  <2>1. Sound(new)
    BY BillingAssumption DEF Sound, new
  <2>2. subs'[n + 1] = new
    BY <1>1, <1>2, <1>3, AppendProperties
  <2> SUFFICES ASSUME NEW s \in 1 .. n + 1, s \notin overwritten PROVE Sound(subs'[s])
    BY <1>2, <1>4 DEF LimitKept, Sound
  <2>3. CASE s = n + 1
    BY <2>1, <2>2, <2>3
  <2>4. CASE s # n + 1
    <3>1. s \in 1 .. n
      BY <1>1, <2>4
    <3>2. Sound(subs[s]) /\ subs'[s] = subs[s]
      BY <1>4, <3>1 DEF Inductive, LimitKept
    <3> QED
      BY <3>2
  <2> QED
    BY <2>3, <2>4
<1> QED
  BY <1>6, <1>7, <1>8, <1>9 DEF Inductive

(* A pending payment is stored, and the provider is called next. *)
LEMMA ChargeKeeps ==
  ASSUME Inductive, NEW p \in Processes, DoCharge(p)
  PROVE  Inductive'
<1> DEFINE n == Len(subs)
           e == Len(periods)
           w == Head(job[p])
           m == Len(payments) + 1
           pay == [for |-> w.for, status |-> "pending", charged |-> FALSE]
<1>1. /\ job[p] # << >> /\ w.do = "charge"
      /\ subs' = subs /\ cancelled' = cancelled /\ overwritten' = overwritten
      /\ periods' = periods /\ credit' = credit
  BY DEF DoCharge, Doing, history
<1>2. w \in Charges(p, n, e)
  BY <1>1, NextStep, Kinds
<1>3. m \in Nat /\ payments \in Seq(Payment) /\ credit' \in Credits
  BY <1>1 DEF Inductive, Typed
<1>4. CASE card
  <2>1. payments' = Append(payments, pay) /\ Then(p, <<Call(w, m)>>)
    BY <1>4 DEF DoCharge
  <2>2. pay \in Payment
    BY <1>2 DEF Charges, Payment
  <2> HIDE DEF pay, w, m
  <2>3. payments' \in Seq(Payment)
    BY <1>3, <2>1, <2>2, AppendProperties
  <2>4. Call(w, m) \in Steps(p, n, e)
    BY <1>2, <1>3 DEF Call, Calls, Steps
  <2>5. <<Call(w, m)>> \in Seq(Steps(p, n, e))
    BY <2>4
  <2> QED
    BY <1>1, <1>3, <2>1, <2>3, <2>5, PlainKeeps
<1>5. CASE ~card
  <2>1. payments' = payments /\ Then(p, << >>)
    BY <1>5 DEF DoCharge, Advance
  <2> QED
    BY <1>1, <1>3, <2>1, PlainKeeps, EmptySeq
<1> QED
  BY <1>4, <1>5

(* The provider answers. *)
LEMMA CallKeeps ==
  ASSUME Inductive, NEW p \in Processes, DoCall(p)
  PROVE  Inductive'
<1> DEFINE n == Len(subs)
           e == Len(periods)
           w == Head(job[p])
<1>1. /\ job[p] # << >> /\ w.do = "call"
      /\ subs' = subs /\ cancelled' = cancelled /\ overwritten' = overwritten
      /\ periods' = periods /\ credit' = credit
  BY DEF DoCall, Doing
<1>2. w \in Calls(p, n, e)
  BY <1>1, NextStep, Kinds
<1>3. PICK charged \in BOOLEAN, answer \in {"success", "failed"} :
        /\ payments' = [payments EXCEPT ![w.n].charged = charged]
        /\ Then(p, <<Record(w, answer)>>)
  BY DEF DoCall
<1> HIDE DEF w
<1>4. Record(w, answer) \in Steps(p, n, e)
  BY <1>2 DEF Record, Records, Steps
<1>5. payments' \in Seq(Payment) /\ credit' \in Credits
  <2>1. credit' \in Credits /\ payments \in Seq(Payment)
    BY <1>1 DEF Inductive, Typed
  <2>2. payments \in [1 .. Len(payments) -> Payment] /\ Len(payments) \in Nat
    BY <2>1, LenProperties
  <2>3. payments' \in [1 .. Len(payments) -> Payment]
    BY <1>3, <2>2 DEF Payment
  <2> QED
    BY <2>1, <2>2, <2>3, ListOf
<1>6. <<Record(w, answer)>> \in Seq(Steps(p, n, e))
  BY <1>4
<1> QED
  BY <1>1, <1>3, <1>5, <1>6, PlainKeeps

(* The answer is recorded, and what was to follow it follows. *)
LEMMA RecordKeeps ==
  ASSUME Inductive, NEW p \in Processes, DoRecord(p)
  PROVE  Inductive'
<1> DEFINE n == Len(subs)
           e == Len(periods)
           w == Head(job[p])
           more == IF w.answer = "success" THEN w.call.charge.yes ELSE w.call.charge.no
<1>1. /\ job[p] # << >> /\ w.do = "record"
      /\ subs' = subs /\ cancelled' = cancelled /\ overwritten' = overwritten
      /\ periods' = periods /\ credit' = credit
      /\ payments' = [payments EXCEPT ![w.call.n].status = w.answer]
      /\ Then(p, more)
  BY DEF DoRecord, Doing, history
<1>2. w \in Records(p, n, e)
  BY <1>1, NextStep, Kinds
<1> HIDE DEF w
<1>3. w.answer \in {"success", "failed"} /\ w.call \in Calls(p, n, e)
  BY <1>2 DEF Records
<1>4. w.call.charge \in Charges(p, n, e)
  BY <1>3 DEF Calls
<1>5. w.call.charge.yes \in Seq(Leaves(p, n, e)) /\ w.call.charge.no \in Seq(Leaves(p, n, e))
  BY <1>4 DEF Charges
<1>6. more \in Seq(Steps(p, n, e))
  <2>1. Leaves(p, n, e) \subseteq Steps(p, n, e)
    BY DEF Steps
  <2> QED
    BY <1>5, <2>1, SeqGrows
<1>7. payments' \in Seq(Payment) /\ credit' \in Credits
  <2>1. credit' \in Credits /\ payments \in Seq(Payment)
    BY <1>1 DEF Inductive, Typed
  <2>2. payments \in [1 .. Len(payments) -> Payment] /\ Len(payments) \in Nat
    BY <2>1, LenProperties
  <2>3. payments' \in [1 .. Len(payments) -> Payment]
    BY <1>1, <1>3, <2>2 DEF Payment
  <2> QED
    BY <2>1, <2>2, <2>3, ListOf
<1> HIDE DEF more
<1> QED
  BY <1>1, <1>6, <1>7, PlainKeeps

LEMMA AddCreditsKeeps ==
  ASSUME Inductive, NEW p \in Processes, DoAddCredits(p)
  PROVE  Inductive'
<1> DEFINE n == Len(subs)
           e == Len(periods)
           b == credit.balance + Pack
           t == credit.totalPurchased + Pack
           row == [credit EXCEPT !.balance = b, !.totalPurchased = t]
<1>1. /\ job[p] # << >> /\ Then(p, <<SaveCredit(row, credit)>>)
      /\ subs' = subs /\ cancelled' = cancelled /\ overwritten' = overwritten
      /\ periods' = periods /\ credit' = credit /\ payments' = payments
  BY DEF DoAddCredits, Doing, history
<1>2. /\ credit \in Credits /\ credit \in UserCredit /\ payments \in Seq(Payment)
      /\ credit.balance >= 0
  BY DEF Inductive, Typed, Credits
<1>3. b \in Int /\ t \in Nat /\ b >= 0 /\ t = credit.totalPurchased + Pack
  BY <1>2, BillingAssumption DEF UserCredit
<1> HIDE DEF b, t
<1>4. /\ row \in UserCredit /\ row.balance = b /\ row.totalPurchased = t
      /\ row.totalUsed = credit.totalUsed
  BY <1>2, <1>3 DEF UserCredit
<1> HIDE DEF row
<1>5. row \in Credits
  BY <1>3, <1>4 DEF Credits
<1>6. SaveCredit(row, credit) \in Steps(p, n, e)
  <2>1. p \in Handlers
    BY NextStep, Kinds DEF DoAddCredits, Doing
  <2> QED
    BY <1>2, <1>3, <1>4, <1>5, <2>1, MakeSaveCredit, MakeSteps
<1>7. <<SaveCredit(row, credit)>> \in Seq(Steps(p, n, e))
  BY <1>6
<1> QED
  BY <1>1, <1>2, <1>7, PlainKeeps

LEMMA SaveCreditKeeps ==
  ASSUME Inductive, NEW p \in Processes, DoSaveCredit(p)
  PROVE  Inductive'
<1>0. PICK w : w = Head(job[p])
  OBVIOUS
<1> DEFINE v == UpdateCredit(w.row, w.was, credit)
<1>1. /\ job[p] # << >> /\ w.do = "saveCredit" /\ Then(p, <<v>>) /\ credit' = credit
      /\ subs' = subs /\ cancelled' = cancelled /\ overwritten' = overwritten
      /\ periods' = periods /\ payments' = payments
  BY <1>0 DEF DoSaveCredit, Doing, history
<1>2. w \in CreditSaves /\ p \in Handlers
  BY <1>0, <1>1, NextStep, Kinds
<1>3. credit \in Credits /\ credit' \in Credits /\ payments' \in Seq(Payment)
  BY <1>1 DEF Inductive, Typed
<1>4. v \in CreditUpdates
  BY <1>2, <1>3 DEF CreditSaves, CreditUpdates, UpdateCredit
<1> HIDE DEF v
<1>5. v \in Plain(p)
  BY <1>2, <1>4 DEF Plain
<1>6. <<v>> \in Seq(Steps(p, Len(subs), Len(periods)))
  BY <1>5, MakeSteps
<1> QED
  BY <1>1, <1>3, <1>6, PlainKeeps

LEMMA UpdatedCreditIsCredit ==
  ASSUME NEW u \in CreditUpdates, credit \in Credits
  PROVE  UpdatedCredit(u) \in Credits
<1> DEFINE a == Written(u.row.balance, u.saw.balance, credit.balance)
           b == Written(u.row.totalPurchased, u.saw.totalPurchased, credit.totalPurchased)
           c == Written(u.row.totalUsed, u.saw.totalUsed, credit.totalUsed)
<1>1. u.row \in Credits
  BY DEF CreditUpdates
<1>2. a \in Int /\ a >= 0 /\ b \in Nat /\ c \in Int
  BY <1>1 DEF Credits, UserCredit, Written
<1>3. UpdatedCredit(u) = [balance |-> a, totalPurchased |-> b, totalUsed |-> c]
  BY DEF UpdatedCredit
<1> HIDE DEF a, b, c
<1> QED
  BY <1>2, <1>3 DEF Credits, UserCredit

LEMMA UpdateCreditKeeps ==
  ASSUME Inductive, NEW p \in Processes, DoUpdateCredit(p)
  PROVE  Inductive'
<1>0. PICK w : w = Head(job[p])
  OBVIOUS
<1>1. /\ job[p] # << >> /\ w.do = "updateCredit" /\ Then(p, << >>)
      /\ credit' = UpdatedCredit(w)
      /\ subs' = subs /\ cancelled' = cancelled /\ overwritten' = overwritten
      /\ periods' = periods /\ payments' = payments
  BY <1>0 DEF DoUpdateCredit, Doing, Advance
<1>2. w \in CreditUpdates
  BY <1>0, <1>1, NextStep, Kinds
<1>3. credit' \in Credits /\ payments' \in Seq(Payment)
  BY <1>1, <1>2, UpdatedCreditIsCredit DEF Inductive, Typed
<1> QED
  BY <1>1, <1>3, PlainKeeps, EmptySeq

(* Processes that end half way, periods that pass, and cards. *)
LEMMA OtherKeeps ==
  ASSUME Inductive,
         \/ \E p \in Processes : Break(p)
         \/ \E k \in Crons : Skip(k)
         \/ \E s \in DOMAIN subs : Elapse(s)
         \/ DeleteCard \/ RegisterCard
         \/ UNCHANGED vars
  PROVE  Inductive'
<1>0. Len(periods) \in Nat /\ periods \in Seq({"running", "ending", "over"})
      /\ credit \in Credits /\ Len(payments) \in Nat /\ payments \in Seq(Payment)
  BY DEF Inductive, Typed
<1>1. ASSUME NEW p \in Processes, Break(p)
      PROVE  Inductive'
  <2>1. /\ job' = [job EXCEPT ![p] = << >>]
        /\ subs' = subs /\ cancelled' = cancelled /\ overwritten' = overwritten
        /\ periods' = periods /\ credit' = credit /\ payments' = payments
    BY <1>1 DEF Break
  <2>2. JobsRight'
    <3>1. Len(subs) \in Nat
      BY LenProperties DEF Inductive, Typed
    <3>2. /\ Len(subs') \in Nat /\ Len(subs) <= Len(subs')
          /\ Len(periods') \in Nat /\ Len(periods) <= Len(periods')
      BY <1>0, <2>1, <3>1
    <3> QED
      BY <2>1, <3>2, JobsKeep, EmptySeq
  <2> QED
    BY <1>0, <2>1, <2>2, RestKeeps
<1>2. ASSUME job' = job, subs' = subs, Len(periods') = Len(periods)
      PROVE  JobsRight'
  BY <1>2 DEF Inductive, JobsRight
<1>3. ASSUME NEW s \in DOMAIN subs, Elapse(s)
      PROVE  Inductive'
  <2> DEFINE t == subs[s].period
             new == IF periods[t] = "running" THEN "ending" ELSE "over"
  <2>1. /\ job' = job /\ periods' = [periods EXCEPT ![t] = new]
        /\ subs' = subs /\ cancelled' = cancelled /\ overwritten' = overwritten
        /\ credit' = credit /\ payments' = payments
    BY <1>3 DEF Elapse, history
  <2>2. new \in {"running", "ending", "over"}
    OBVIOUS
  <2> HIDE DEF new, t
  <2>3. periods \in [1 .. Len(periods) -> {"running", "ending", "over"}]
    BY <1>0, LenProperties
  <2>4. periods' \in [1 .. Len(periods) -> {"running", "ending", "over"}]
    BY <2>1, <2>2, <2>3
  <2>5. periods' \in Seq({"running", "ending", "over"})
    BY <1>0, <2>4, ListOf
  <2> QED
    BY <1>0, <1>2, <2>1, <2>5, LenProperties, RestKeeps
<1>4. CASE DeleteCard \/ RegisterCard \/ UNCHANGED vars
  <2>1. /\ job' = job /\ subs' = subs /\ cancelled' = cancelled /\ overwritten' = overwritten
        /\ periods' = periods /\ credit' = credit /\ payments' = payments
    BY <1>4 DEF DeleteCard, RegisterCard, CardIs, history, vars
  <2> QED
    BY <1>0, <1>2, <2>1, RestKeeps
<1>5. ASSUME NEW k \in Crons, Skip(k)
      PROVE  Inductive'
  <2>1. /\ k \in Processes /\ job[k] # << >> /\ job' = [job EXCEPT ![k] = Tail(job[k])]
        /\ subs' = subs /\ cancelled' = cancelled /\ overwritten' = overwritten
        /\ periods' = periods /\ credit' = credit /\ payments' = payments
    BY <1>5, EmptySeq DEF Skip, history, Processes
  <2>2. JobsRight'
    <3>1. Len(subs) \in Nat
      BY LenProperties DEF Inductive, Typed
    <3>2. Tail(job[k]) \in Seq(Steps(k, Len(subs'), Len(periods')))
      BY <2>1, NextStep
    <3>3. /\ Len(subs') \in Nat /\ Len(subs) <= Len(subs')
          /\ Len(periods') \in Nat /\ Len(periods) <= Len(periods')
      BY <1>0, <2>1, <3>1
    <3>4. k \in Processes /\ job' = [job EXCEPT ![k] = Tail(job[k])]
      BY <2>1
    <3> QED
      BY <3>2, <3>3, <3>4, JobsKeep
  <2> QED
    BY <1>0, <2>1, <2>2, RestKeeps
<1> QED
  BY <1>1, <1>3, <1>4, <1>5

LEMMA InitInductive == Init => Inductive
<1> SUFFICES ASSUME Init PROVE Inductive
  OBVIOUS
<1>1. Typed
  BY EmptySeq DEF Init, Typed, Credits, UserCredit
<1>2. JobsRight
  BY EmptySeq DEF Init, JobsRight
<1>3. CancelledStaysCancelled /\ LimitKept
  BY DEF Init, CancelledStaysCancelled, LimitKept
<1> QED
  BY <1>1, <1>2, <1>3 DEF Inductive

LEMMA NextInductive == Inductive /\ [Next]_vars => Inductive'
<1> SUFFICES ASSUME Inductive, [Next]_vars PROVE Inductive'
  OBVIOUS
<1>1. ASSUME NEW h \in Handlers, Request(h) PROVE Inductive'
  BY <1>1, RequestKeeps
<1>2. ASSUME NEW k \in Crons, ProcessRenewals(k) PROVE Inductive'
  BY <1>2, RenewalsKeep
<1>3. ASSUME NEW p \in Processes, Step(p) PROVE Inductive'
  BY <1>3, SaveSubKeeps, UpdateSubKeeps, SubscribeKeeps, ExtendKeeps, FindExpiredKeeps, ChargeKeeps,
     CallKeeps, RecordKeeps, AddCreditsKeeps, SaveCreditKeeps, UpdateCreditKeeps DEF Step
<1> QED
  BY <1>1, <1>2, <1>3, OtherKeeps DEF Next

-----------------------------------------------------------------------------
(* What the lists of the requests look like, and who holds which payment.  *)

PayForCredits == Charge("credits", <<AddCredits>>, << >>)

(* The charge c, wherever it has got to. *)
Paying(w, c) ==
  \/ w = c
  \/ w.do = "call" /\ w.charge = c
  \/ w.do = "record" /\ w.call.charge = c

PlanStep(w) == Paying(w, PayForPlan) \/ w = Subscribe
CreditStep(w) ==
  Paying(w, PayForCredits) \/ w = AddCredits \/ w.do \in {"saveCredit", "updateCredit"}
SubStep(w) == w.do \in {"saveSub", "updateSub"}

Shape(l) ==
  \/ l = << >>
  \/ Len(l) = 1 /\ (PlanStep(Head(l)) \/ CreditStep(Head(l)) \/ SubStep(Head(l)))
  \/ /\ Len(l) = 2 /\ Tail(l) = <<PayForPlan>>
     /\ SubStep(Head(l)) /\ Head(l).row.status = "cancelled"

RequestsShaped == \A h \in Handlers : Shape(job[h])

(* Only the first step of a list has called the provider. *)
Waits(l) == \A i \in DOMAIN l : l[i].do \notin {"call", "record"}
InHand(p) == job[p] # << >> /\ Head(job[p]).do \in {"call", "record"}
Held(w) == IF w.do = "call" THEN w.n ELSE w.call.n

(* What is known of the payment n that a step has in hand. *)
HeldRight(w) ==
  /\ w.do = "call" => /\ w.n \in DOMAIN payments
                      /\ payments[w.n].for = w.charge.for
                      /\ payments[w.n].status = "pending" /\ ~payments[w.n].charged
  /\ w.do = "record" => /\ w.call.n \in DOMAIN payments
                        /\ payments[w.call.n].for = w.call.charge.for
                        /\ payments[w.call.n].status = "pending"
                        /\ w.answer = "success" => payments[w.call.n].charged
                        /\ payments[w.call.n].charged => w.answer = "success" \/ disturbed

PaymentsInHand ==
  /\ \A n \in DOMAIN payments : payments[n].status = "success" => payments[n].charged
  /\ \A p \in Processes : job[p] # << >> => Waits(Tail(job[p])) /\ HeldRight(Head(job[p]))
  /\ \A p, q \in Processes :
       InHand(p) /\ InHand(q) /\ Held(Head(job[p])) = Held(Head(job[q])) => p = q

(* One buyer, who has no active subscription beside the one to be          *)
(* cancelled first.                                                        *)
Buys(l) == l # << >> /\ (Len(l) = 2 \/ PlanStep(Head(l)))

OneBuyer ==
  /\ \A s, t \in Active : s = t
  /\ \A h, g \in Handlers : Buys(job[h]) /\ Buys(job[g]) => h = g
  /\ \A h \in Handlers : Buys(job[h]) =>
       \A s \in Active : Len(job[h]) = 2 /\ s = Head(job[h]).s
OneBuyerUnlessRaced == raced \/ overwritten # {} \/ OneBuyer

(* The request has paid for credits and not saved them yet. *)
Owes(l) ==
  /\ l # << >>
  /\ LET w == Head(l) IN
       \/ w.do = "record" /\ w.call.charge = PayForCredits /\ w.answer = "success"
       \/ w = AddCredits
       \/ /\ w.do \in {"saveCredit", "updateCredit"}
          /\ w.row.totalPurchased # w.was.totalPurchased

Owed == {h \in Handlers : Owes(job[h])}
PaidForCredits == {n \in DOMAIN payments : payments[n].for = "credits" /\ payments[n].charged}

PurchasesAddUp ==
  /\ IsFiniteSet(Owed)
  /\ disturbed \/ credit.totalPurchased + Pack * Cardinality(Owed)
                    = Pack * Cardinality(PaidForCredits)

(* Until columns of two rows are mixed, the credits and the rows to be     *)
(* saved to them add up; and what is used is what was deducted.            *)
Adds(c) == c.balance = c.totalPurchased - c.totalUsed

RowsAddUp ==
  /\ used \in Int
  /\ mixed \in BOOLEAN
  /\ disturbed \/ credit.totalUsed = used
  /\ mixed \/ /\ Adds(credit)
              /\ \A h \in Handlers : job[h] # << >> =>
                   (Head(job[h]).do \in {"saveCredit", "updateCredit"} => Adds(Head(job[h]).row))

(* A list of one step. *)
LEMMA OneStep ==
  ASSUME NEW w
  PROVE  /\ <<w>> # << >> /\ Len(<<w>>) = 1 /\ Head(<<w>>) = w /\ Tail(<<w>>) = << >>
         /\ \A x : <<w, x>> # << >> /\ Len(<<w, x>>) = 2 /\ Head(<<w, x>>) = w
                   /\ Tail(<<w, x>>) = <<x>>
OBVIOUS

(* One list changes, and no other. *)
LEMMA OneList ==
  ASSUME Inductive, NEW p \in Processes, NEW l, job' = [job EXCEPT ![p] = l]
  PROVE  job'[p] = l /\ \A q \in Processes : q # p => job'[q] = job[q]
<1>1. job = [q \in Processes |-> job[q]]
  BY DEF Inductive, JobsRight
<1>2. DOMAIN job = Processes
  BY <1>1
<1> QED
  BY <1>2

(* What a list goes on with. *)
LEMMA Onward ==
  ASSUME Inductive, NEW p \in Processes, job[p] # << >>, NEW more, Then(p, more)
  PROVE  /\ job'[p] = more \o Tail(job[p])
         /\ \A q \in Processes : q # p => job'[q] = job[q]
BY OneList DEF Then

LEMMA NothingMore ==
  ASSUME Inductive, NEW p \in Processes, job[p] # << >>
  PROVE  << >> \o Tail(job[p]) = Tail(job[p])
BY NextStep, ConcatEmptySeq

LEMMA OneMore ==
  ASSUME Inductive, NEW p \in Processes, job[p] # << >>, NEW w
  PROVE  /\ <<w>> \o Tail(job[p]) # << >>
         /\ Head(<<w>> \o Tail(job[p])) = w /\ Tail(<<w>> \o Tail(job[p])) = Tail(job[p])
         /\ Len(<<w>> \o Tail(job[p])) = Len(job[p])
<1> DEFINE S == Steps(p, Len(subs), Len(periods)) \cup {w}
           l == <<w>> \o Tail(job[p])
<1>1. Tail(job[p]) \in Seq(S) /\ <<w>> \in Seq(S) /\ Len(<<w>>) = 1 /\ <<w>>[1] = w
  <2>1. Seq(Steps(p, Len(subs), Len(periods))) \subseteq Seq(S)
    BY SeqGrows
  <2> QED
    BY <2>1, NextStep
<1>2. Len(Tail(job[p])) \in Nat /\ Len(job[p]) = Len(Tail(job[p])) + 1
  <2>1. job[p] \in Seq(Steps(p, Len(subs), Len(periods)))
    BY DEF Inductive, JobsRight
  <2> QED
    BY <2>1, HeadTailProperties, LenProperties
<1> HIDE DEF S
<1>3. /\ l \in Seq(S) /\ Len(l) = 1 + Len(Tail(job[p]))
      /\ \A i \in 1 .. 1 + Len(Tail(job[p])) : l[i] = IF i <= 1 THEN w ELSE Tail(job[p])[i - 1]
  <2>1. /\ <<w>> \o Tail(job[p]) \in Seq(S)
        /\ Len(<<w>> \o Tail(job[p])) = Len(<<w>>) + Len(Tail(job[p]))
        /\ \A i \in 1 .. Len(<<w>>) + Len(Tail(job[p])) :
             (<<w>> \o Tail(job[p]))[i] = IF i <= Len(<<w>>) THEN <<w>>[i]
                                          ELSE Tail(job[p])[i - Len(<<w>>)]
    BY <1>1, ConcatProperties
  <2> QED
    BY <1>1, <1>2, <2>1
<1> HIDE DEF l
<1>4. l # << >> /\ l[1] = w
  BY <1>2, <1>3, EmptySeq
<1>5. Head(l) = w
  BY <1>4
<1>6. /\ Tail(l) \in Seq(S) /\ Len(Tail(l)) = Len(Tail(job[p]))
      /\ \A i \in 1 .. Len(Tail(l)) : Tail(l)[i] = l[i + 1]
  BY <1>2, <1>3, <1>4, HeadTailProperties
<1>7. \A i \in 1 .. Len(Tail(l)) : Tail(l)[i] = Tail(job[p])[i]
  <2> SUFFICES ASSUME NEW i \in 1 .. Len(Tail(l)) PROVE Tail(l)[i] = Tail(job[p])[i]
    OBVIOUS
  <2>1. i + 1 \in 1 .. 1 + Len(Tail(job[p])) /\ ~(i + 1 <= 1) /\ (i + 1) - 1 = i
    BY <1>2, <1>6
  <2>2. l[i + 1] = Tail(job[p])[(i + 1) - 1]
    BY <1>3, <2>1
  <2> QED
    BY <1>6, <2>1, <2>2
<1>8. Tail(l) = Tail(job[p])
  BY <1>1, <1>6, <1>7, SeqEqual
<1> QED
  BY <1>2, <1>3, <1>4, <1>5, <1>8 DEF l

(* What is charged tells the two purchases apart. *)
LEMMA TwoPurchases ==
  /\ PayForPlan.do = "charge" /\ PayForCredits.do = "charge" /\ PayForPlan # PayForCredits
  /\ PayForPlan.for = "subscription" /\ PayForCredits.for = "credits"
  /\ PayForPlan.yes = <<Subscribe>> /\ PayForPlan.no = << >>
  /\ PayForCredits.yes = <<AddCredits>> /\ PayForCredits.no = << >>
  /\ Subscribe.do = "subscribe" /\ AddCredits.do = "addCredits" /\ FindExpired.do = "findExpired"
BY DEF PayForPlan, PayForCredits, Charge, Subscribe, AddCredits, FindExpired

(* The first step of a request's list tells what is behind it. *)
LEMMA RequestHeads ==
  ASSUME Inductive, RequestsShaped, NEW h \in Handlers, job[h] # << >>,
         NEW w, w = Head(job[h])
  PROVE  /\ \/ Len(job[h]) = 1 /\ Tail(job[h]) = << >>
            \/ /\ Len(job[h]) = 2 /\ Tail(job[h]) = <<PayForPlan>>
               /\ SubStep(w) /\ w.row.status = "cancelled"
         /\ w.do = "charge" => w \in {PayForPlan, PayForCredits}
         /\ w.do = "call" => w.charge \in {PayForPlan, PayForCredits}
         /\ w.do = "record" => w.call.charge \in {PayForPlan, PayForCredits}
         /\ w.do \notin {"findExpired", "extend"}
<1> DEFINE l == job[h]
<1>1. Shape(l) /\ l # << >>
  BY DEF RequestsShaped
<1>2. ASSUME Len(l) = 1
      PROVE  Tail(l) = << >>
  <2>1. l \in Seq(Steps(h, Len(subs), Len(periods)))
    BY DEF Inductive, JobsRight, Processes
  <2>2. Tail(l) \in Seq(Steps(h, Len(subs), Len(periods))) /\ Len(Tail(l)) = 0
    BY <1>1, <1>2, <2>1, HeadTailProperties
  <2> QED
    BY <2>2, EmptySeq
<1>3. CASE Len(l) = 1 /\ (PlanStep(Head(l)) \/ CreditStep(Head(l)))
  BY <1>2, <1>3, TwoPurchases DEF PlanStep, CreditStep, Paying
<1>4. CASE Len(l) = 1 /\ SubStep(Head(l))
  BY <1>2, <1>4 DEF SubStep
<1>5. CASE /\ Len(l) = 2 /\ Tail(l) = <<PayForPlan>>
           /\ SubStep(Head(l)) /\ Head(l).row.status = "cancelled"
  BY <1>5 DEF SubStep
<1> QED
  BY <1>1, <1>3, <1>4, <1>5 DEF Shape

(* A request's list becomes l. *)
LEMMA ShapedIfList ==
  ASSUME Inductive, RequestsShaped, NEW p \in Processes, NEW l,
         job' = [job EXCEPT ![p] = l], p \in Handlers => Shape(l)
  PROVE  RequestsShaped'
BY OneList DEF RequestsShaped, Processes

LEMMA ShapeOfOne ==
  ASSUME NEW w, PlanStep(w) \/ CreditStep(w) \/ SubStep(w)
  PROVE  Shape(<<w>>)
BY OneStep DEF Shape

LEMMA ShapeOfNone == Shape(<< >>)
BY DEF Shape

(* The jobs take up lists of the shapes. *)
LEMMA RequestShaped ==
  ASSUME Inductive, RequestsShaped, NEW h \in Handlers, Request(h)
  PROVE  RequestsShaped'
<1>0. h \in Processes
  BY DEF Processes
<1>1. ASSUME NEW l, Begin(h, l), Shape(l)
      PROVE  RequestsShaped'
  BY <1>0, <1>1, ShapedIfList DEF Begin
<1>2. CASE Purchase(h)
  <2>1. Shape(<<PayForPlan>>)
    BY ShapeOfOne DEF PlanStep, Paying
  <2>2. ASSUME NEW s \in Active
        PROVE  Shape(<<SaveSub(s, [subs[s] EXCEPT !.status = "cancelled"], subs[s]), PayForPlan>>)
    <3> DEFINE row == [subs[s] EXCEPT !.status = "cancelled"]
               w == SaveSub(s, row, subs[s])
    <3>1. subs[s] \in Subscription
      BY ActiveRow DEF Active
    <3>2. row.status = "cancelled"
      BY <3>1 DEF Subscription
    <3> HIDE DEF row
    <3>3. w.do = "saveSub" /\ w.row = row
      BY DEF SaveSub
    <3> HIDE DEF w
    <3> QED
      BY <3>2, <3>3, OneStep DEF Shape, SubStep, w, row
  <2> QED
    BY <1>1, <1>2, <2>1, <2>2 DEF Purchase
<1>3. CASE CancelSubscription(h)
  <2>1. ASSUME NEW s, NEW row, NEW was
        PROVE  Shape(<<SaveSub(s, row, was)>>)
    BY ShapeOfOne DEF SaveSub, SubStep
  <2> QED
    BY <1>1, <1>3, <2>1 DEF CancelSubscription
<1>4. CASE BuyCredits(h)
  <2>1. Shape(<<PayForCredits>>)
    BY ShapeOfOne DEF CreditStep, Paying
  <2> QED
    BY <1>1, <1>4, <2>1 DEF BuyCredits, PayForCredits
<1>5. ASSUME NEW row, NEW was
      PROVE  Shape(<<SaveCredit(row, was)>>)
  BY ShapeOfOne DEF CreditStep, SaveCredit
<1>6. CASE Deduct(h)
  BY <1>1, <1>5, <1>6 DEF Deduct
<1>7. CASE Refund(h)
  BY <1>1, <1>5, <1>7 DEF Refund
<1> QED
  BY <1>2, <1>3, <1>4, <1>6, <1>7 DEF Request

LEMMA StepShaped ==
  ASSUME Inductive, RequestsShaped, NEW p \in Processes, Step(p)
  PROVE  RequestsShaped'
<1> DEFINE w == Head(job[p])
<1>0. job[p] # << >>
  BY DEF Step, Doing, DoSaveSub, DoUpdateSub, DoSubscribe, DoExtend, DoFindExpired, DoCharge, DoCall,
         DoRecord, DoAddCredits, DoSaveCredit, DoUpdateCredit
<1>1. ASSUME NEW more, Then(p, more), p \in Handlers => Shape(more \o Tail(job[p]))
      PROVE  RequestsShaped'
  BY <1>1, ShapedIfList DEF Then
<1>2. CASE p \notin Handlers
  BY <1>1, <1>2 DEF Step, DoSaveSub, DoUpdateSub, DoSubscribe, DoExtend, DoFindExpired, DoCharge,
         DoCall, DoRecord, DoAddCredits, DoSaveCredit, DoUpdateCredit, Advance
<1>3. CASE p \in Handlers
  <2> DEFINE rest == Tail(job[p])
  <2>1. /\ \/ rest = << >>
           \/ rest = <<PayForPlan>> /\ SubStep(w) /\ w.row.status = "cancelled"
        /\ w.do = "charge" => w \in {PayForPlan, PayForCredits}
        /\ w.do = "call" => w.charge \in {PayForPlan, PayForCredits}
        /\ w.do = "record" => w.call.charge \in {PayForPlan, PayForCredits}
        /\ w.do \notin {"findExpired", "extend"}
    BY <1>0, <1>3, RequestHeads
  <2>2. /\ << >> \o << >> = << >> /\ \A v : <<v>> \o << >> = <<v>>
        /\ \A v : << >> \o <<v>> = <<v>>
    OBVIOUS
  <2> HIDE DEF w, rest
  <2>3. ASSUME Advance(p)
        PROVE  RequestsShaped'
    <3>1. Shape(<<PayForPlan>>)
      BY ShapeOfOne DEF PlanStep, Paying
    <3>2. Shape(<< >> \o rest)
      BY <2>1, <2>2, <3>1, ShapeOfNone
    <3> QED
      BY <1>1, <2>3, <3>2 DEF Advance, rest
  <2>4. ASSUME NEW v, PlanStep(v) \/ CreditStep(v) \/ SubStep(v), ~SubStep(w),
               Then(p, <<v>>)
        PROVE  RequestsShaped'
    <3>1. <<v>> \o rest = <<v>>
      BY <2>1, <2>2, <2>4
    <3>2. Shape(<<v>> \o rest)
      BY <2>4, <3>1, ShapeOfOne
    <3> QED
      BY <1>1, <2>4, <3>2 DEF rest
  <2>5. CASE DoUpdateSub(p) \/ DoSubscribe(p) \/ DoUpdateCredit(p)
    BY <2>3, <2>5 DEF DoUpdateSub, DoSubscribe, DoUpdateCredit
  <2>6. CASE DoSaveSub(p)
    <3> DEFINE v == UpdateSub(w.s, w.row, w.was, subs[w.s])
    <3>1. Then(p, <<v>>)
      BY <2>6 DEF DoSaveSub, w
    <3>2. SubStep(v) /\ v.row = w.row
      BY DEF UpdateSub, SubStep
    <3> HIDE DEF v
    <3>3. Shape(<<v>> \o rest)
      <4>1. CASE rest = << >>
        BY <2>2, <3>2, <4>1, ShapeOfOne
      <4>2. CASE rest = <<PayForPlan>> /\ w.row.status = "cancelled"
        <5>1. PICK l : l = <<v>> \o rest
          OBVIOUS
        <5>2. Len(job[p]) = 2
          <6>1. <<PayForPlan>> # << >>
            BY OneStep
          <6> QED
            BY <1>0, <1>3, <4>2, <6>1, RequestHeads DEF rest
        <5>3. Len(l) = Len(job[p]) /\ Tail(l) = rest /\ Head(l) = v
          BY <1>0, <5>1, OneMore DEF rest
        <5>4. Len(l) = 2 /\ Tail(l) = <<PayForPlan>> /\ Head(l) = v
          BY <4>2, <5>2, <5>3
        <5>5. SubStep(Head(l)) /\ Head(l).row.status = "cancelled"
          BY <3>2, <4>2, <5>4
        <5> QED
          BY <5>1, <5>4, <5>5 DEF Shape
      <4> QED
        BY <2>1, <4>1, <4>2
    <3> QED
      BY <1>1, <3>1, <3>3 DEF rest
  <2>7. CASE DoSaveCredit(p)
    <3>1. /\ w.do = "saveCredit"
          /\ Then(p, <<UpdateCredit(w.row, w.was, credit)>>)
      BY <2>7 DEF DoSaveCredit, Doing, w
    <3>2. CreditStep(UpdateCredit(w.row, w.was, credit)) /\ ~SubStep(w)
      BY <3>1 DEF CreditStep, UpdateCredit, SubStep
    <3> QED
      BY <2>4, <3>1, <3>2
  <2>8. CASE DoCharge(p)
    <3>1. w.do = "charge" /\ (Advance(p) \/ Then(p, <<Call(w, Len(payments) + 1)>>))
      BY <2>8 DEF DoCharge, Doing, w
    <3>2. \A n : PlanStep(Call(w, n)) \/ CreditStep(Call(w, n))
      BY <2>1, <3>1 DEF PlanStep, CreditStep, Paying, Call
    <3> QED
      BY <2>3, <2>4, <3>1, <3>2 DEF SubStep
  <2>9. CASE DoCall(p)
    <3>1. w.do = "call" /\ \E answer : Then(p, <<Record(w, answer)>>)
      BY <2>9 DEF DoCall, Doing, w
    <3>2. \A answer : PlanStep(Record(w, answer)) \/ CreditStep(Record(w, answer))
      BY <2>1, <3>1 DEF PlanStep, CreditStep, Paying, Record
    <3> QED
      BY <2>4, <3>1, <3>2 DEF SubStep
  <2>10. CASE DoRecord(p)
    <3>1. /\ w.do = "record"
          /\ Then(p, IF w.answer = "success" THEN w.call.charge.yes ELSE w.call.charge.no)
      BY <2>10 DEF DoRecord, Doing, w
    <3>2. PlanStep(Subscribe) /\ CreditStep(AddCredits)
      BY DEF PlanStep, CreditStep
    <3>3. \/ Then(p, << >>) \/ Then(p, <<Subscribe>>) \/ Then(p, <<AddCredits>>)
      BY <2>1, <3>1, TwoPurchases
    <3> QED
      BY <2>3, <2>4, <3>1, <3>2, <3>3 DEF Advance, SubStep
  <2>11. CASE DoAddCredits(p)
    <3>1. w.do = "addCredits" /\ \E row : Then(p, <<SaveCredit(row, credit)>>)
      BY <2>11 DEF DoAddCredits, Doing, w
    <3>2. \A row : CreditStep(SaveCredit(row, credit))
      BY DEF CreditStep, SaveCredit
    <3> QED
      BY <2>4, <3>1, <3>2 DEF SubStep
  <2>12. CASE DoExtend(p) \/ DoFindExpired(p)
    BY <2>1, <2>12 DEF DoExtend, DoFindExpired, Doing, w
  <2> QED
    BY <2>5, <2>8, <2>9, <2>10, <2>11, <2>12, <2>6, <2>7 DEF Step
<1> QED
  BY <1>2, <1>3

LEMMA NextShaped ==
  ASSUME Inductive, RequestsShaped, [Next]_vars
  PROVE  RequestsShaped'
<1>1. ASSUME NEW h \in Handlers, Request(h) PROVE RequestsShaped'
  BY <1>1, RequestShaped
<1>2. ASSUME NEW k \in Crons, ProcessRenewals(k) PROVE RequestsShaped'
  BY <1>2, ShapedIfList, BillingAssumption DEF ProcessRenewals, Begin, Processes
<1>3. ASSUME NEW p \in Processes, Step(p) PROVE RequestsShaped'
  BY <1>3, StepShaped
<1>4. ASSUME NEW p \in Processes, Break(p) PROVE RequestsShaped'
  BY <1>4, ShapedIfList, ShapeOfNone DEF Break
<1>5. ASSUME NEW k \in Crons, Skip(k) PROVE RequestsShaped'
  BY <1>5, ShapedIfList, BillingAssumption DEF Skip, Processes
<1>6. ASSUME job' = job PROVE RequestsShaped'
  BY <1>6 DEF RequestsShaped
<1>7. (\E s \in DOMAIN subs : Elapse(s)) \/ DeleteCard \/ RegisterCard \/ UNCHANGED vars
        => job' = job
  BY DEF Elapse, DeleteCard, RegisterCard, CardIs, vars
<1> QED
  BY <1>1, <1>2, <1>3, <1>4, <1>6, <1>7, <1>5 DEF Next

-----------------------------------------------------------------------------
(* A payment is in the hands of the process that called for it, and of no  *)
(* other, from the call until its answer is recorded.                      *)

LEMMA WaitingHead ==
  ASSUME NEW S, NEW l \in Seq(S), l # << >>, Waits(l)
  PROVE  Head(l).do \notin {"call", "record"} /\ Waits(Tail(l))
<1>1. /\ Len(l) \in Nat \ {0} /\ DOMAIN l = 1 .. Len(l) /\ Head(l) = l[1]
      /\ Tail(l) \in Seq(S) /\ Len(Tail(l)) = Len(l) - 1
      /\ \A i \in 1 .. Len(Tail(l)) : Tail(l)[i] = l[i + 1]
  BY EmptySeq, LenProperties, HeadTailProperties
<1>2. DOMAIN Tail(l) = 1 .. Len(Tail(l))
  BY <1>1, LenProperties
<1>3. Head(l).do \notin {"call", "record"}
  BY <1>1 DEF Waits
<1>4. ASSUME NEW i \in DOMAIN Tail(l) PROVE Tail(l)[i].do \notin {"call", "record"}
  <2>1. Tail(l)[i] = l[i + 1] /\ i + 1 \in DOMAIN l
    BY <1>1, <1>2
  <2> QED
    BY <2>1 DEF Waits
<1> QED
  BY <1>3, <1>4 DEF Waits

LEMMA WaitsTogether ==
  ASSUME NEW S, NEW x \in Seq(S), NEW y \in Seq(S), Waits(x), Waits(y)
  PROVE  Waits(x \o y)
<1>1. /\ x \o y \in Seq(S) /\ Len(x \o y) = Len(x) + Len(y)
      /\ \A i \in 1 .. Len(x) + Len(y) : (x \o y)[i] = IF i <= Len(x) THEN x[i] ELSE y[i - Len(x)]
  BY ConcatProperties
<1>2. /\ Len(x) \in Nat /\ Len(y) \in Nat /\ DOMAIN x = 1 .. Len(x) /\ DOMAIN y = 1 .. Len(y)
      /\ DOMAIN (x \o y) = 1 .. Len(x \o y)
  BY <1>1, LenProperties
<1> SUFFICES ASSUME NEW i \in DOMAIN (x \o y) PROVE (x \o y)[i].do \notin {"call", "record"}
  BY DEF Waits
<1>3. CASE i <= Len(x)
  <2>1. (x \o y)[i] = x[i] /\ i \in DOMAIN x
    BY <1>1, <1>2, <1>3
  <2> QED
    BY <2>1 DEF Waits
<1>4. CASE ~(i <= Len(x))
  <2>1. (x \o y)[i] = y[i - Len(x)] /\ i - Len(x) \in DOMAIN y
    BY <1>1, <1>2, <1>4
  <2> QED
    BY <2>1 DEF Waits
<1> QED
  BY <1>3, <1>4

LEMMA WaitingLeaves ==
  ASSUME NEW p, NEW n, NEW e, NEW l \in Seq(Leaves(p, n, e))
  PROVE  Waits(l)
<1>1. \A w \in Leaves(p, n, e) : w.do \notin {"call", "record"}
  <2>1. \A w \in Plain(p) : w.do \notin {"call", "record"}
    <3>1. \A w \in CreditSaves : w.do = "saveCredit"
      BY DEF CreditSaves
    <3>2. \A w \in CreditUpdates : w.do = "updateCredit"
      BY DEF CreditUpdates
    <3> QED
      BY <3>1, <3>2, TwoPurchases DEF Plain
  <2> QED
    BY <2>1 DEF Leaves, Saves, Updates, Extensions
<1>2. \A i \in DOMAIN l : l[i] \in Leaves(p, n, e)
  BY LenProperties, ElementOfSeq
<1> QED
  BY <1>1, <1>2 DEF Waits

LEMMA WaitingOne ==
  ASSUME NEW w, w.do \notin {"call", "record"}
  PROVE  Waits(<<w>>)
BY DEF Waits

(* One list changes, and no payment but the one in hand. *)
LEMMA Hands ==
  ASSUME Inductive, PaymentsInHand, NEW p \in Processes, NEW l, job' = [job EXCEPT ![p] = l],
         l # << >> => Waits(Tail(l)) /\ HeldRight(Head(l))',
         l # << >> /\ Head(l).do \in {"call", "record"} =>
           \/ Held(Head(l)) \notin DOMAIN payments
           \/ InHand(p) /\ Held(Head(l)) = Held(Head(job[p])),
         DOMAIN payments \subseteq DOMAIN payments',
         \A n \in DOMAIN payments :
           payments'[n] = payments[n] \/ (InHand(p) /\ n = Held(Head(job[p]))),
         \A n \in DOMAIN payments' : payments'[n].status = "success" => payments'[n].charged,
         disturbed => disturbed'
  PROVE  PaymentsInHand'
<1>1. job'[p] = l /\ \A q \in Processes : q # p => job'[q] = job[q]
  BY OneList
<1>2. ASSUME NEW q \in Processes, q # p, job[q] # << >>,
             Head(job[q]).do \in {"call", "record"}
      PROVE  /\ Held(Head(job[q])) \in DOMAIN payments
             /\ payments'[Held(Head(job[q]))] = payments[Held(Head(job[q]))]
  <2>1. InHand(q) /\ HeldRight(Head(job[q]))
    BY <1>2 DEF InHand, PaymentsInHand
  <2>2. Held(Head(job[q])) \in DOMAIN payments
    BY <1>2, <2>1 DEF HeldRight, Held
  <2>3. ~(InHand(p) /\ Held(Head(job[q])) = Held(Head(job[p])))
    BY <1>2, <2>1 DEF PaymentsInHand
  <2> QED
    BY <2>2, <2>3
<1>3. ASSUME NEW q \in Processes, job'[q] # << >>
      PROVE  Waits(Tail(job'[q])) /\ HeldRight(Head(job[q]))' 
  <2>1. CASE q = p
    BY <1>1, <1>3, <2>1
  <2>2. CASE q # p
    <3> DEFINE w == Head(job[q])
    <3>1. job'[q] = job[q] /\ job[q] # << >>
      BY <1>1, <1>3, <2>2
    <3>2. Waits(Tail(job[q])) /\ HeldRight(w)
      BY <3>1 DEF PaymentsInHand
    <3>3. w.do \in {"call", "record"} =>
            Held(w) \in DOMAIN payments /\ payments'[Held(w)] = payments[Held(w)]
      BY <1>2, <2>2, <3>1
    <3>4. Head(job[q])' = w
      BY <3>1
    <3> HIDE DEF w
    <3>5. ASSUME NEW v, v = w
          PROVE  HeldRight(v)'
      BY <3>2, <3>3, <3>5 DEF HeldRight, Held
    <3>6. HeldRight(Head(job[q]))'
      BY <3>4, <3>5 DEF HeldRight
    <3> QED
      BY <3>1, <3>2, <3>6
  <2> QED
    BY <2>1, <2>2
<1>4. ASSUME NEW q \in Processes, NEW r \in Processes, InHand(q)', InHand(r)',
             Held(Head(job[q]))' = Held(Head(job[r]))'
      PROVE  q = r
  <2>1. ASSUME NEW x \in Processes, x # p, InHand(x)'
        PROVE  /\ InHand(x) /\ Held(Head(job[x]))' = Held(Head(job[x]))
               /\ Held(Head(job[x])) \in DOMAIN payments
    <3>1. job'[x] = job[x]
      BY <1>1, <2>1
    <3>2. job[x] # << >> /\ Head(job[x]).do \in {"call", "record"}
      BY <2>1, <3>1 DEF InHand
    <3> QED
      BY <1>2, <2>1, <3>1, <3>2 DEF InHand, Held
  <2>2. ASSUME InHand(p)', NEW x \in Processes, x # p, InHand(x)',
               Held(Head(job[p]))' = Held(Head(job[x]))'
        PROVE  FALSE
    <3>1. l # << >> /\ Head(l).do \in {"call", "record"} /\ Held(Head(job[p]))' = Held(Head(l))
      BY <1>1, <2>2 DEF InHand, Held
    <3>2. /\ InHand(x) /\ Held(Head(l)) = Held(Head(job[x]))
          /\ Held(Head(job[x])) \in DOMAIN payments
      BY <2>1, <2>2, <3>1
    <3>3. InHand(p) /\ Held(Head(l)) = Held(Head(job[p]))
      BY <3>1, <3>2
    <3> QED
      BY <2>2, <3>2, <3>3 DEF PaymentsInHand
  <2>3. CASE q # p /\ r # p
    <3>1. InHand(q) /\ InHand(r) /\ Held(Head(job[q])) = Held(Head(job[r]))
      BY <1>4, <2>1, <2>3
    <3> QED
      BY <3>1 DEF PaymentsInHand
  <2> QED
    BY <1>4, <2>2, <2>3
<1> QED
  BY <1>3, <1>4 DEF PaymentsInHand

LEMMA PaymentsAre ==
  ASSUME Inductive
  PROVE  /\ Len(payments) \in Nat /\ DOMAIN payments = 1 .. Len(payments)
         /\ \A n \in DOMAIN payments : payments[n] \in Payment
BY LenProperties, ElementOfSeq DEF Inductive, Typed

(* A list of steps that have called nobody, and payments left alone. *)
LEMMA HandsIfWaiting ==
  ASSUME Inductive, PaymentsInHand, NEW p \in Processes, NEW S, NEW l \in Seq(S), Waits(l),
         job' = [job EXCEPT ![p] = l], payments' = payments, disturbed => disturbed'
  PROVE  PaymentsInHand'
<1>1. l # << >> => Waits(Tail(l)) /\ Head(l).do \notin {"call", "record"}
  BY WaitingHead
<1>2. l # << >> => HeldRight(Head(l))'
  BY <1>1 DEF HeldRight
<1>3. \A n \in DOMAIN payments' : payments'[n].status = "success" => payments'[n].charged
  BY DEF PaymentsInHand
<1> QED
  BY <1>1, <1>2, <1>3, Hands

(* What is left of a list. *)
LEMMA RestWaits ==
  ASSUME Inductive, PaymentsInHand, NEW p \in Processes, job[p] # << >>
  PROVE  /\ Tail(job[p]) \in Seq(Steps(p, Len(subs), Len(periods))) /\ Waits(Tail(job[p]))
         /\ HeldRight(Head(job[p]))
BY NextStep DEF PaymentsInHand

LEMMA HandsIfOnward ==
  ASSUME Inductive, PaymentsInHand, NEW p \in Processes, job[p] # << >>,
         NEW more \in Seq(Steps(p, Len(subs), Len(periods))), Waits(more), Then(p, more),
         payments' = payments, disturbed => disturbed'
  PROVE  PaymentsInHand'
<1>1. more \o Tail(job[p]) \in Seq(Steps(p, Len(subs), Len(periods)))
  BY RestWaits, ConcatProperties
<1>2. Waits(more \o Tail(job[p]))
  BY RestWaits, WaitsTogether
<1> QED
  BY <1>1, <1>2, HandsIfWaiting DEF Then

LEMMA ChargeHands ==
  ASSUME Inductive, PaymentsInHand, NEW p \in Processes, DoCharge(p)
  PROVE  PaymentsInHand'
<1> DEFINE w == Head(job[p])
           m == Len(payments) + 1
           pay == [for |-> w.for, status |-> "pending", charged |-> FALSE]
<1>1. job[p] # << >> /\ w.do = "charge" /\ disturbed' = disturbed
  BY DEF DoCharge, Doing, history
<1>2. CASE ~card
  <2>1. Then(p, << >>) /\ payments' = payments
    BY <1>2 DEF DoCharge, Advance
  <2>2. Waits(<< >>) /\ << >> \in Seq(Steps(p, Len(subs), Len(periods)))
    BY EmptySeq DEF Waits
  <2> QED
    BY <1>1, <2>1, <2>2, HandsIfOnward
<1>3. CASE card
  <2>0. PICK l : l = <<Call(w, m)>> \o Tail(job[p])
    OBVIOUS
  <2>1. job' = [job EXCEPT ![p] = l] /\ payments' = Append(payments, pay)
    BY <1>3, <2>0 DEF DoCharge, Then
  <2>2. l # << >> /\ Head(l) = Call(w, m) /\ Tail(l) = Tail(job[p])
    BY <1>1, <2>0, OneMore
  <2>3. /\ m = Len(payments) + 1 /\ Len(payments) \in Nat /\ DOMAIN payments = 1 .. Len(payments)
        /\ payments \in Seq(Payment)
    BY PaymentsAre DEF Inductive, Typed
  <2>4. pay \in Payment
    <3>1. w.for \in {"subscription", "credits", "renewal"}
      BY <1>1, NextStep, Kinds DEF Charges
    <3> QED
      BY <3>1 DEF Payment
  <2>5. pay.for = w.for /\ pay.status = "pending" /\ pay.charged = FALSE
    OBVIOUS
  <2> HIDE DEF pay, m
  <2>6. /\ DOMAIN payments' = 1 .. m /\ payments'[m] = pay
        /\ \A n \in DOMAIN payments : payments'[n] = payments[n]
    <3>1. /\ Append(payments, pay) \in Seq(Payment) /\ Len(Append(payments, pay)) = m
          /\ \A n \in 1 .. Len(payments) : Append(payments, pay)[n] = payments[n]
          /\ Append(payments, pay)[m] = pay
      BY <2>3, <2>4, AppendProperties
    <3> QED
      BY <2>1, <2>3, <3>1, LenProperties
  <2>7. Call(w, m).do = "call" /\ Call(w, m).n = m /\ Call(w, m).charge = w
    BY DEF Call
  <2>8. m \notin DOMAIN payments /\ m \in DOMAIN payments' /\ DOMAIN payments \subseteq DOMAIN payments'
    BY <2>3, <2>6
  <2>9. HeldRight(Head(l))'
    <3> SUFFICES ASSUME NEW v, v = Call(w, m) PROVE HeldRight(v)'
      BY <2>2
    <3> QED
      BY <2>5, <2>6, <2>7, <2>8 DEF HeldRight
  <2>10. \A n \in DOMAIN payments' : payments'[n].status = "success" => payments'[n].charged
    BY <2>3, <2>5, <2>6 DEF PaymentsInHand
  <2>11. Held(Head(l)) = m
    BY <2>2, <2>7 DEF Held
  <2>12. Waits(Tail(l))
    BY <1>1, <2>2, RestWaits
  <2> QED
    BY <1>1, <2>1, <2>6, <2>8, <2>9, <2>10, <2>11, <2>12, Hands
<1> QED
  BY <1>2, <1>3

(* The payment in hand changes. *)
LEMMA HeldPaymentChanges ==
  ASSUME Inductive, NEW n \in DOMAIN payments, NEW pay, payments' = [payments EXCEPT ![n] = pay]
  PROVE  /\ DOMAIN payments' = DOMAIN payments /\ payments'[n] = pay
         /\ \A m \in DOMAIN payments : m # n => payments'[m] = payments[m]
<1>1. payments = [m \in DOMAIN payments |-> payments[m]]
  BY LenProperties DEF Inductive, Typed
<1> QED
  BY <1>1

LEMMA CallHands ==
  ASSUME Inductive, PaymentsInHand, NEW p \in Processes, DoCall(p)
  PROVE  PaymentsInHand'
<1> DEFINE w == Head(job[p])
<1>1. job[p] # << >> /\ w.do = "call"
  BY DEF DoCall, Doing
<1>2. PICK charged \in BOOLEAN, answer \in {"success", "failed"} :
        /\ answer = "success" => charged
        /\ payments' = [payments EXCEPT ![w.n].charged = charged]
        /\ Then(p, <<Record(w, answer)>>)
        /\ Disturb(charged /\ answer = "failed")
  BY DEF DoCall
<1> DEFINE pay == [payments[w.n] EXCEPT !.charged = charged]
<1>3. /\ w.n \in DOMAIN payments /\ payments[w.n].for = w.charge.for
      /\ payments[w.n].status = "pending" /\ payments[w.n] \in Payment
  BY <1>1, RestWaits, PaymentsAre DEF HeldRight
<1>4. /\ pay.for = w.charge.for /\ pay.status = "pending" /\ pay.charged = charged
  BY <1>3 DEF Payment
<1>5. payments' = [payments EXCEPT ![w.n] = pay]
  BY <1>2
<1> HIDE DEF pay
<1>6. /\ DOMAIN payments' = DOMAIN payments /\ payments'[w.n] = pay
      /\ \A n \in DOMAIN payments : n # w.n => payments'[n] = payments[n]
  BY <1>3, <1>5, HeldPaymentChanges
<1>0. PICK l : l = <<Record(w, answer)>> \o Tail(job[p])
  OBVIOUS
<1>7. /\ l # << >> /\ Head(l) = Record(w, answer)
      /\ Tail(l) = Tail(job[p]) /\ job' = [job EXCEPT ![p] = l]
  BY <1>0, <1>1, <1>2, OneMore DEF Then
<1>8. /\ Record(w, answer).do = "record" /\ Record(w, answer).call = w
      /\ Record(w, answer).answer = answer
  BY DEF Record
<1>9. HeldRight(Head(l))'
  <2> SUFFICES ASSUME NEW v, v = Record(w, answer) PROVE HeldRight(v)'
    BY <1>7
  <2>1. pay.charged => answer = "success" \/ disturbed'
    BY <1>2, <1>4 DEF Disturb
  <2> QED
    BY <1>2, <1>3, <1>4, <1>6, <1>8, <2>1 DEF HeldRight
<1>10. Held(Head(l)) = Held(w) /\ Held(w) = w.n /\ InHand(p)
  BY <1>1, <1>7, <1>8 DEF Held, InHand
<1>11. \A n \in DOMAIN payments' : payments'[n].status = "success" => payments'[n].charged
  BY <1>4, <1>6 DEF PaymentsInHand
<1>12. Waits(Tail(l)) /\ (disturbed => disturbed')
  BY <1>1, <1>2, <1>7, RestWaits DEF Disturb
<1> QED
  BY <1>6, <1>7, <1>9, <1>10, <1>11, <1>12, Hands

LEMMA RecordHands ==
  ASSUME Inductive, PaymentsInHand, NEW p \in Processes, DoRecord(p)
  PROVE  PaymentsInHand'
<1> DEFINE w == Head(job[p])
           n == w.call.n
           S == Steps(p, Len(subs), Len(periods))
           more == IF w.answer = "success" THEN w.call.charge.yes ELSE w.call.charge.no
           pay == [payments[n] EXCEPT !.status = w.answer]
<1>0. PICK l : l = more \o Tail(job[p])
  OBVIOUS
<1>1. /\ job[p] # << >> /\ w.do = "record" /\ disturbed' = disturbed
      /\ payments' = [payments EXCEPT ![n] = pay]
      /\ job' = [job EXCEPT ![p] = l]
  BY <1>0 DEF DoRecord, Doing, Then, history
<1>2. /\ n \in DOMAIN payments /\ payments[n] \in Payment
      /\ w.answer = "success" => payments[n].charged
  BY <1>1, RestWaits, PaymentsAre DEF HeldRight
<1>3. pay.status = "success" => pay.charged
  BY <1>2 DEF Payment
<1> HIDE DEF pay
<1>4. /\ DOMAIN payments' = DOMAIN payments /\ payments'[n] = pay
      /\ \A m \in DOMAIN payments : m # n => payments'[m] = payments[m]
  BY <1>1, <1>2, HeldPaymentChanges
<1>5. l \in Seq(S) /\ Waits(l)
  <2>1. more \in Seq(Leaves(p, Len(subs), Len(periods)))
    BY <1>1, NextStep, Kinds DEF Records, Calls, Charges
  <2>2. more \in Seq(S) /\ Waits(more)
    <3>1. Leaves(p, Len(subs), Len(periods)) \subseteq S
      BY DEF Steps
    <3> HIDE DEF more, S
    <3> QED
      BY <2>1, <3>1, SeqGrows, WaitingLeaves
  <2> QED
    BY <1>0, <1>1, <2>2, RestWaits, WaitsTogether, ConcatProperties
<1> HIDE DEF S
<1>6. l # << >> => Waits(Tail(l)) /\ Head(l).do \notin {"call", "record"}
  BY <1>5, WaitingHead
<1>7. l # << >> => HeldRight(Head(l))'
  BY <1>6 DEF HeldRight
<1>8. InHand(p) /\ n = Held(w)
  BY <1>1 DEF InHand, Held
<1>9. \A m \in DOMAIN payments' : payments'[m].status = "success" => payments'[m].charged
  BY <1>3, <1>4 DEF PaymentsInHand
<1> QED
  BY <1>1, <1>4, <1>6, <1>7, <1>8, <1>9, Hands

LEMMA RequestHands ==
  ASSUME Inductive, PaymentsInHand, NEW h \in Handlers, Request(h)
  PROVE  PaymentsInHand'
<1>0. h \in Processes
  BY DEF Processes
<1>1. ASSUME NEW w, w.do \notin {"call", "record"}, Begin(h, <<w>>)
      PROVE  PaymentsInHand'
  <2>1. Waits(<<w>>) /\ <<w>> \in Seq({w})
    BY <1>1, WaitingOne
  <2> QED
    BY <1>0, <1>1, <2>1, HandsIfWaiting DEF Begin
<1>2. ASSUME NEW w, NEW v, w.do \notin {"call", "record"}, v.do \notin {"call", "record"},
             Begin(h, <<w, v>>)
      PROVE  PaymentsInHand'
  <2>1. Waits(<<w, v>>) /\ <<w, v>> \in Seq({w, v})
    BY <1>2 DEF Waits
  <2> QED
    BY <1>0, <1>2, <2>1, HandsIfWaiting DEF Begin
<1>3. /\ \A s, row, was : SaveSub(s, row, was).do = "saveSub"
      /\ \A row, was : SaveCredit(row, was).do = "saveCredit"
      /\ PayForPlan.do = "charge" /\ Charge("credits", <<AddCredits>>, << >>).do = "charge"
  BY DEF SaveSub, SaveCredit, PayForPlan, Charge
<1>4. CASE Purchase(h)
  BY <1>1, <1>2, <1>3, <1>4 DEF Purchase
<1>5. CASE CancelSubscription(h)
  BY <1>1, <1>3, <1>5 DEF CancelSubscription
<1>6. CASE BuyCredits(h)
  BY <1>1, <1>3, <1>6 DEF BuyCredits
<1>7. CASE Deduct(h) \/ Refund(h)
  BY <1>1, <1>3, <1>7 DEF Deduct, Refund
<1> QED
  BY <1>4, <1>5, <1>6, <1>7 DEF Request

LEMMA RenewalHands ==
  ASSUME Inductive, PaymentsInHand, NEW k \in Crons, ProcessRenewals(k)
  PROVE  PaymentsInHand'
<1>1. PICK due \in Orders(Due) :
        Begin(k, [i \in DOMAIN due |-> RenewalOf(due[i])] \o <<FindExpired>>)
  BY DEF ProcessRenewals
<1> DEFINE c == Cardinality(Due)
           S == Steps(k, Len(subs), Len(periods))
           first == [i \in DOMAIN due |-> RenewalOf(due[i])]
<1>2. Due \subseteq DOMAIN subs /\ c \in Nat /\ due \in [1 .. c -> Due]
  BY OrdersAreLists DEF Due, Active
<1> HIDE DEF c
<1>3. \A i \in 1 .. c : RenewalOf(due[i]) \in S
  BY <1>2, RenewalIsStep
<1>4. first \in [1 .. c -> S] /\ \A i \in DOMAIN first : first[i].do = "charge"
  <2>1. \A s : RenewalOf(s).do = "charge"
    BY DEF RenewalOf, Charge
  <2> QED
    BY <1>2, <1>3, <2>1
<1>5. first \in Seq(S) /\ Waits(first)
  BY <1>2, <1>4, ListOf DEF Waits
<1>6. <<FindExpired>> \in Seq(S) /\ Waits(<<FindExpired>>)
  BY MakeSteps, WaitingOne, TwoPurchases
<1> HIDE DEF first, S
<1>7. first \o <<FindExpired>> \in Seq(S) /\ Waits(first \o <<FindExpired>>)
  BY <1>5, <1>6, ConcatProperties, WaitsTogether
<1>8. /\ job' = [job EXCEPT ![k] = first \o <<FindExpired>>] /\ payments' = payments
      /\ disturbed' = disturbed /\ k \in Processes
  BY <1>1 DEF Begin, first, Processes
<1> QED
  BY <1>7, <1>8, HandsIfWaiting

LEMMA StepHands ==
  ASSUME Inductive, PaymentsInHand, NEW p \in Processes, Step(p)
  PROVE  PaymentsInHand'
<1> DEFINE S == Steps(p, Len(subs), Len(periods))
<1>1. ASSUME job[p] # << >>, Advance(p), payments' = payments, disturbed => disturbed'
      PROVE  PaymentsInHand'
  <2>1. Waits(<< >>) /\ << >> \in Seq(S)
    BY EmptySeq DEF Waits
  <2> QED
    BY <1>1, <2>1, HandsIfOnward DEF Advance
<1>2. CASE DoUpdateSub(p) \/ DoSubscribe(p)
  BY <1>1, <1>2 DEF DoUpdateSub, DoSubscribe, Doing, history
<1>3. CASE DoUpdateCredit(p)
  BY <1>1, <1>3 DEF DoUpdateCredit, Doing, Disturb
<1>4. ASSUME NEW w, w.do \notin {"call", "record"}, job[p] # << >>, Then(p, <<w>>),
             payments' = payments, disturbed' = disturbed
      PROVE  PaymentsInHand'
  <2> DEFINE l == <<w>> \o Tail(job[p])
  <2>1. l # << >> /\ Head(l) = w /\ Tail(l) = Tail(job[p])
    BY <1>4, OneMore
  <2>2. PICK k : k = l
    OBVIOUS
  <2>3. HeldRight(Head(k))'
    <3>1. Head(k).do \notin {"call", "record"}
      BY <1>4, <2>1, <2>2
    <3> QED
      BY <3>1 DEF HeldRight
  <2>4. job' = [job EXCEPT ![p] = k]
    BY <1>4, <2>2 DEF Then
  <2> HIDE DEF l
  <2>5. Waits(Tail(k)) /\ Head(k).do \notin {"call", "record"}
    BY <1>4, <2>1, <2>2, RestWaits
  <2>6. \A n \in DOMAIN payments' : payments'[n].status = "success" => payments'[n].charged
    BY <1>4 DEF PaymentsInHand
  <2> QED
    BY <1>4, <2>3, <2>4, <2>5, <2>6, Hands
<1>5. /\ \A s, row, was : SaveSub(s, row, was).do = "saveSub"
      /\ \A s, row, was, saw : UpdateSub(s, row, was, saw).do = "updateSub"
      /\ \A row, was : SaveCredit(row, was).do = "saveCredit"
      /\ \A row, was, saw : UpdateCredit(row, was, saw).do = "updateCredit"
  BY DEF SaveSub, UpdateSub, SaveCredit, UpdateCredit
<1>6. CASE DoSaveSub(p) \/ DoExtend(p)
  BY <1>4, <1>5, <1>6 DEF DoSaveSub, DoExtend, Doing, history
<1>7. CASE DoAddCredits(p) \/ DoSaveCredit(p)
  BY <1>4, <1>5, <1>7 DEF DoAddCredits, DoSaveCredit, Doing, history
<1>8. CASE DoFindExpired(p)
  <2>1. PICK found \in Orders(Overdue) :
          Then(p, [i \in DOMAIN found |->
                     SaveSub(found[i], [subs[found[i]] EXCEPT !.status = "expired"],
                             subs[found[i]])])
    BY <1>8 DEF DoFindExpired
  <2> DEFINE c == Cardinality(Overdue)
             more == [i \in DOMAIN found |->
                        SaveSub(found[i], [subs[found[i]] EXCEPT !.status = "expired"],
                                subs[found[i]])]
  <2>2. c \in Nat /\ found \in [1 .. c -> Overdue]
    BY OrdersAreLists DEF Overdue
  <2> HIDE DEF c
  <2>3. \A i \in DOMAIN more : more[i].do = "saveSub"
    BY DEF SaveSub
  <2>4. Waits(more)
    BY <2>3 DEF Waits
  <2>5. DOMAIN more = 1 .. c
    BY <2>2
  <2> DEFINE T == {more[i] : i \in 1 .. c}
  <2>6. more \in Seq(T)
    <3>1. more \in [1 .. c -> T]
      BY <2>5
    <3> QED
      BY <2>2, <3>1, ListOf
  <2> HIDE DEF more, T
  <2>7. /\ job[p] # << >> /\ payments' = payments /\ disturbed' = disturbed
        /\ job' = [job EXCEPT ![p] = more \o Tail(job[p])]
    BY <1>8, <2>1 DEF DoFindExpired, Doing, history, Then, more
  <2>8. Tail(job[p]) \in Seq(S \cup T) /\ more \in Seq(S \cup T) /\ Waits(Tail(job[p]))
    <3>1. Seq(T) \subseteq Seq(S \cup T) /\ Seq(S) \subseteq Seq(S \cup T)
      BY SeqGrows
    <3> QED
      BY <2>6, <2>7, <3>1, RestWaits
  <2> HIDE DEF S
  <2>9. more \o Tail(job[p]) \in Seq(S \cup T) /\ Waits(more \o Tail(job[p]))
    BY <2>4, <2>8, ConcatProperties, WaitsTogether
  <2> QED
    BY <2>7, <2>9, HandsIfWaiting
<1> QED
  BY <1>2, <1>3, <1>8, <1>6, <1>7, ChargeHands, CallHands, RecordHands DEF Step

LEMMA NextHands ==
  ASSUME Inductive, PaymentsInHand, [Next]_vars
  PROVE  PaymentsInHand'
<1>1. ASSUME NEW h \in Handlers, Request(h) PROVE PaymentsInHand'
  BY <1>1, RequestHands
<1>2. ASSUME NEW k \in Crons, ProcessRenewals(k) PROVE PaymentsInHand'
  BY <1>2, RenewalHands
<1>3. ASSUME NEW p \in Processes, Step(p) PROVE PaymentsInHand'
  BY <1>3, StepHands
<1>4. ASSUME NEW p \in Processes, Break(p) PROVE PaymentsInHand'
  <2>1. job' = [job EXCEPT ![p] = << >>] /\ payments' = payments /\ (disturbed => disturbed')
    BY <1>4 DEF Break, Disturb
  <2>2. << >> \in Seq({}) /\ Waits(<< >>)
    BY EmptySeq DEF Waits
  <2> QED
    BY <2>1, <2>2, HandsIfWaiting
<1>5. ASSUME NEW k \in Crons, Skip(k) PROVE PaymentsInHand'
  <2>1. /\ k \in Processes /\ job[k] # << >> /\ job' = [job EXCEPT ![k] = Tail(job[k])]
        /\ payments' = payments /\ disturbed' = disturbed
    BY <1>5, EmptySeq DEF Skip, history, Processes
  <2> QED
    BY <2>1, RestWaits, HandsIfWaiting
<1>6. ASSUME job' = job, payments' = payments, disturbed' = disturbed PROVE PaymentsInHand'
  BY <1>6 DEF PaymentsInHand, InHand, HeldRight
<1>7. (\E s \in DOMAIN subs : Elapse(s)) \/ DeleteCard \/ RegisterCard \/ UNCHANGED vars
        => job' = job /\ payments' = payments /\ disturbed' = disturbed
  BY DEF Elapse, DeleteCard, RegisterCard, CardIs, vars, history
<1> QED
  BY <1>1, <1>2, <1>3, <1>4, <1>6, <1>7, <1>5 DEF Next

-----------------------------------------------------------------------------
(* Marks and bounds. *)

Marks == card \in BOOLEAN /\ ops \in 0 .. MaxOps /\ raced \in BOOLEAN /\ disturbed \in BOOLEAN

LEMMA NextMarks ==
  ASSUME Marks, [Next]_vars
  PROVE  Marks'
<1> USE DEF Marks, history
<1>0. ops < MaxOps /\ ops' = ops + 1 => ops' \in 0 .. MaxOps
  BY BillingAssumption
<1>1. ASSUME NEW h \in Handlers, Request(h) PROVE Marks'
  <2>1. \E l : Begin(h, l)
    BY <1>1 DEF Request, Purchase, CancelSubscription, BuyCredits, Deduct, Refund
  <2>2. card' = card /\ disturbed' = disturbed /\ ops < MaxOps /\ ops' = ops + 1
    BY <2>1 DEF Begin
  <2>3. Race \/ raced' = raced
    BY <1>1 DEF Request, Purchase, CancelSubscription, BuyCredits, Deduct, Refund
  <2>4. Race => raced' \in BOOLEAN
    BY DEF Race
  <2> QED
    BY <1>0, <2>2, <2>3, <2>4
<1>2. ASSUME NEW k \in Crons, ProcessRenewals(k) PROVE Marks'
  BY <1>0, <1>2 DEF ProcessRenewals, Begin
<1>3. ASSUME NEW p \in Processes, Step(p) PROVE Marks'
  BY <1>3 DEF Step, DoSaveSub, DoUpdateSub, DoSubscribe, DoExtend, DoFindExpired, DoCharge, DoCall,
         DoRecord, DoAddCredits, DoSaveCredit, DoUpdateCredit, Advance, Then, Disturb
<1>4. ASSUME NEW k \in Crons, Skip(k) PROVE Marks'
  BY <1>0, <1>4 DEF Skip
<1>5. ASSUME NEW p \in Processes, Break(p) PROVE Marks'
  <2>1. disturbed' \in BOOLEAN
    BY <1>5 DEF Break, Disturb
  <2>2. ops < MaxOps /\ ops' = ops + 1 /\ card' = card /\ raced' = raced
    BY <1>5 DEF Break
  <2> QED
    BY <1>0, <2>1, <2>2
<1>6. CASE DeleteCard \/ RegisterCard
  <2>1. card' \in BOOLEAN
    BY <1>6 DEF DeleteCard, RegisterCard, CardIs
  <2>2. ops < MaxOps /\ ops' = ops + 1 /\ raced' = raced /\ disturbed' = disturbed
    BY <1>6 DEF DeleteCard, RegisterCard, CardIs
  <2> QED
    BY <1>0, <2>1, <2>2
<1>7. CASE (\E s \in DOMAIN subs : Elapse(s)) \/ UNCHANGED vars
  BY <1>7 DEF Elapse, vars
<1> QED
  BY <1>1, <1>2, <1>3, <1>5, <1>6, <1>7, <1>4 DEF Next

-----------------------------------------------------------------------------
(* One buyer, and one active subscription.                                 *)

(* A request buys a plan as long as the last step of its list is one of    *)
(* the purchase.                                                           *)
LEMMA BuyingIsBuys ==
  ASSUME Inductive, RequestsShaped, NEW h \in Handlers, Buys(job[h])
  PROVE  Buying(h)
<1> DEFINE l == job[h]
<1>1. l # << >> /\ (Len(l) = 2 \/ PlanStep(Head(l)))
  BY DEF Buys
<1>2. \/ Len(l) = 1
      \/ Len(l) = 2 /\ Tail(l) = <<PayForPlan>>
  BY <1>1, RequestHeads
<1>3. l \in Seq(Steps(h, Len(subs), Len(periods)))
  BY DEF Inductive, JobsRight, Processes
<1>4. CASE Len(l) = 1
  <2>1. l[Len(l)] = Head(l) /\ PlanStep(Head(l))
    BY <1>1, <1>3, <1>4
  <2> QED
    BY <1>1, <2>1 DEF Buying, PlanStep, Paying
<1>5. CASE Len(l) = 2 /\ Tail(l) = <<PayForPlan>>
  <2>1. Tail(l)[1] = l[2]
    <3>1. Len(Tail(l)) = 1
      BY <1>5
    <3> QED
      BY <1>1, <1>3, <3>1, HeadTailProperties
  <2>2. l[Len(l)] = PayForPlan
    <3>1. \A x : <<x>>[1] = x
      OBVIOUS
    <3>2. Tail(l)[1] = PayForPlan /\ Len(l) = 2
      BY <1>5, <3>1
    <3> HIDE DEF l
    <3> QED
      BY <2>1, <3>2
  <2> QED
    BY <1>1, <2>2 DEF Buying
<1> QED
  BY <1>2, <1>4, <1>5

LEMMA BuysOne ==
  ASSUME NEW w
  PROVE  (Buys(<<w>>) <=> PlanStep(w)) /\ ~Buys(<< >>)
BY OneStep DEF Buys

(* Which steps are of a purchase of a plan. *)
LEMMA PlanSteps ==
  /\ PlanStep(PayForPlan) /\ PlanStep(Subscribe) /\ ~PlanStep(PayForCredits) /\ ~PlanStep(AddCredits)
  /\ \A w, n : PlanStep(Call(w, n)) <=> w = PayForPlan
  /\ \A w, answer : PlanStep(Record(w, answer)) <=> w.charge = PayForPlan
  /\ \A s, row, was : ~PlanStep(SaveSub(s, row, was))
  /\ \A s, row, was, saw : ~PlanStep(UpdateSub(s, row, was, saw))
  /\ \A row, was : ~PlanStep(SaveCredit(row, was))
  /\ \A row, was, saw : ~PlanStep(UpdateCredit(row, was, saw))
<1>1. ASSUME NEW w, NEW n
      PROVE  PlanStep(Call(w, n)) <=> w = PayForPlan
  <2>1. Call(w, n).do = "call" /\ Call(w, n).charge = w
    BY DEF Call
  <2> QED
    BY <2>1, TwoPurchases DEF PlanStep, Paying
<1>2. ASSUME NEW w, NEW answer
      PROVE  PlanStep(Record(w, answer)) <=> w.charge = PayForPlan
  <2>1. Record(w, answer).do = "record" /\ Record(w, answer).call = w
    BY DEF Record
  <2> QED
    BY <2>1, TwoPurchases DEF PlanStep, Paying
<1>3. ASSUME NEW w, w.do \in {"saveSub", "updateSub", "saveCredit", "updateCredit", "addCredits"}
      PROVE  ~PlanStep(w)
  BY <1>3, TwoPurchases DEF PlanStep, Paying
<1>4. /\ \A s, row, was : SaveSub(s, row, was).do = "saveSub"
      /\ \A s, row, was, saw : UpdateSub(s, row, was, saw).do = "updateSub"
      /\ \A row, was : SaveCredit(row, was).do = "saveCredit"
      /\ \A row, was, saw : UpdateCredit(row, was, saw).do = "updateCredit"
  BY DEF SaveSub, UpdateSub, SaveCredit, UpdateCredit
<1>5. PlanStep(PayForPlan) /\ PlanStep(Subscribe) /\ ~PlanStep(PayForCredits)
  BY TwoPurchases DEF PlanStep, Paying
<1> QED
  BY <1>1, <1>2, <1>3, <1>4, <1>5, TwoPurchases

(* One list changes, no subscription becomes active, and nobody new buys.  *)
LEMMA SameBuyer ==
  ASSUME Inductive, OneBuyer, NEW p \in Processes, NEW l, job' = [job EXCEPT ![p] = l],
         Active' \subseteq Active,
         p \in Handlers /\ Buys(l) =>
           Buys(job[p]) /\ \A s \in Active' : Len(l) = 2 /\ s = Head(l).s
  PROVE  OneBuyer'
<1>1. job'[p] = l /\ \A q \in Processes : q # p => job'[q] = job[q]
  BY OneList
<1>2. ASSUME NEW h \in Handlers, Buys(job'[h])
      PROVE  Buys(job[h]) /\ \A s \in Active' : Len(job'[h]) = 2 /\ s = Head(job'[h]).s
  <2>1. CASE h = p
    BY <1>1, <1>2, <2>1
  <2>2. CASE h # p
    <3>1. job'[h] = job[h]
      BY <1>1, <2>2 DEF Processes
    <3> QED
      BY <1>2, <3>1 DEF OneBuyer
  <2> QED
    BY <2>1, <2>2
<1>3. \A s, t \in Active' : s = t
  BY DEF OneBuyer
<1>4. \A h, g \in Handlers : Buys(job'[h]) /\ Buys(job'[g]) => h = g
  BY <1>2 DEF OneBuyer
<1> QED
  BY <1>2, <1>3, <1>4 DEF OneBuyer, Buys, PlanStep, Paying

LEMMA RequestBuyer ==
  ASSUME Inductive, RequestsShaped, OneBuyer, NEW h \in Handlers, Request(h), ~raced'
  PROVE  OneBuyer'
<1>0. h \in Processes
  BY DEF Processes
<1>1. ASSUME NEW l, Begin(h, l)
      PROVE  job' = [job EXCEPT ![h] = l] /\ Active' = Active
  BY <1>1 DEF Begin, Active
<1>2. ASSUME NEW w, ~PlanStep(w), Begin(h, <<w>>)
      PROVE  OneBuyer'
  BY <1>0, <1>1, <1>2, BuysOne, SameBuyer
<1>3. CASE Purchase(h)
  <2>1. \A g \in Handlers : ~Buys(job[g])
    BY <1>3, BuyingIsBuys DEF Purchase, Race
  <2>2. PICK l : /\ Begin(h, l)
                 /\ \A s \in Active : Len(l) = 2 /\ s = Head(l).s
    <3>1. CASE Active = {} /\ Begin(h, <<PayForPlan>>)
      BY <3>1
    <3>2. CASE \E s \in Active :
                 Begin(h, <<SaveSub(s, [subs[s] EXCEPT !.status = "cancelled"], subs[s]), PayForPlan>>)
      <4>1. PICK s \in Active :
              Begin(h, <<SaveSub(s, [subs[s] EXCEPT !.status = "cancelled"], subs[s]), PayForPlan>>)
        BY <3>2
      <4> DEFINE w == SaveSub(s, [subs[s] EXCEPT !.status = "cancelled"], subs[s])
      <4>2. w.s = s
        BY DEF SaveSub
      <4> HIDE DEF w
      <4>3. Len(<<w, PayForPlan>>) = 2 /\ Head(<<w, PayForPlan>>).s = s
        BY <4>2, OneStep
      <4>4. \A t \in Active : t = s
        BY DEF OneBuyer
      <4> QED
        BY <4>1, <4>3, <4>4 DEF w
    <3> QED
      BY <1>3, <3>1, <3>2 DEF Purchase
  <2>3. job' = [job EXCEPT ![h] = l] /\ Active' = Active
    BY <1>1, <2>2
  <2>4. job'[h] = l /\ \A q \in Processes : q # h => job'[q] = job[q]
    BY <1>0, <2>3, OneList
  <2>5. \A g \in Handlers : Buys(job'[g]) => g = h
    BY <2>1, <2>4 DEF Processes
  <2>6. \A g \in Handlers : Buys(job'[g]) =>
          \A s \in Active' : Len(job'[g]) = 2 /\ s = Head(job'[g]).s
    BY <2>2, <2>3, <2>4, <2>5
  <2>7. \A s, t \in Active' : s = t
    BY <2>3 DEF OneBuyer
  <2> QED
    BY <2>5, <2>6, <2>7 DEF OneBuyer, Buys, PlanStep, Paying
<1>4. CASE CancelSubscription(h)
  BY <1>2, <1>4, PlanSteps DEF CancelSubscription
<1>5. CASE BuyCredits(h)
  BY <1>2, <1>5, PlanSteps DEF BuyCredits, PayForCredits
<1>6. CASE Deduct(h) \/ Refund(h)
  BY <1>2, <1>6, PlanSteps DEF Deduct, Refund
<1> QED
  BY <1>3, <1>4, <1>5, <1>6 DEF Request

(* An update over what was read makes nothing active that was not.         *)
LEMMA UpdateBuyer ==
  ASSUME Inductive, RequestsShaped, OneBuyer, NEW p \in Processes, DoUpdateSub(p),
         overwritten' = {}
  PROVE  OneBuyer'
<1>0. PICK s, row, was : s = Head(job[p]).s /\ row = Head(job[p]).row /\ was = Head(job[p]).was
  OBVIOUS
<1>1. job[p] # << >> /\ Head(job[p]).do = "updateSub"
  BY DEF DoUpdateSub, Doing
<1>2. s \in DOMAIN subs /\ Follows(row, was)
  <2>1. Head(job[p]) \in Updates(p, Len(subs), Len(periods))
    BY <1>1, NextStep, Kinds
  <2> QED
    BY <1>0, <2>1, LenProperties DEF Updates, Inductive, Typed
<1>3. /\ subs' = [subs EXCEPT ![s] = row] /\ subs[s] = was
      /\ job' = [job EXCEPT ![p] = << >> \o Tail(job[p])]
  BY <1>0 DEF DoUpdateSub, Advance, Then
<1>4. << >> \o Tail(job[p]) = Tail(job[p])
  BY <1>1, NothingMore
<1>5. /\ DOMAIN subs' = DOMAIN subs /\ subs'[s] = row
      /\ \A t \in DOMAIN subs : t # s => subs'[t] = subs[t]
  <2>1. subs = [t \in DOMAIN subs |-> subs[t]]
    BY LenProperties DEF Inductive, Typed
  <2> QED
    BY <1>3, <1>2, <2>1
<1>6. Active' \subseteq Active
  BY <1>3, <1>5, <1>2 DEF Active, Follows
<1>7. ASSUME p \in Handlers, Buys(Tail(job[p]))
      PROVE  Buys(job[p]) /\ Active' = {}
  <2>1. /\ Len(job[p]) = 2 /\ Tail(job[p]) = <<PayForPlan>>
        /\ Head(job[p]).row.status = "cancelled"
    BY <1>7, <1>1, RequestHeads, BuysOne
  <2>2. Buys(job[p])
    BY <1>1, <2>1 DEF Buys
  <2>3. \A t \in Active : t = s
    BY <1>0, <1>7, <2>2 DEF OneBuyer
  <2>4. s \notin Active'
    BY <1>0, <1>5, <1>7, <1>2, <2>1 DEF Active
  <2> QED
    BY <1>6, <2>2, <2>3, <2>4
<1> QED
  BY <1>3, <1>4, <1>6, <1>7, SameBuyer

LEMMA SubscribeBuyer ==
  ASSUME Inductive, RequestsShaped, OneBuyer, NEW p \in Processes, DoSubscribe(p)
  PROVE  OneBuyer'
<1> DEFINE n == Len(subs)
           new == [status |-> "active", autoRenew |-> TRUE, fails |-> 0, period |-> Len(periods) + 1]
<1>1. /\ job[p] # << >> /\ Head(job[p]).do = "subscribe" /\ subs' = Append(subs, new)
      /\ job' = [job EXCEPT ![p] = << >> \o Tail(job[p])]
  BY DEF DoSubscribe, Doing, Advance, Then
<1>2. p \in Handlers /\ Head(job[p]) = Subscribe
  BY <1>1, NextStep, Kinds
<1>3. Len(job[p]) = 1 /\ Tail(job[p]) = << >> /\ << >> \o << >> = << >>
  BY <1>1, <1>2, RequestHeads DEF SubStep
<1>4. Buys(job[p])
  BY <1>1, <1>2, PlanSteps DEF Buys
<1>5. Active = {} /\ \A h \in Handlers : Buys(job[h]) => h = p
  <2>1. \A s \in Active : Len(job[p]) = 2
    BY <1>2, <1>4 DEF OneBuyer
  <2>2. \A h \in Handlers : Buys(job[h]) => h = p
    BY <1>2, <1>4 DEF OneBuyer
  <2>3. ~(Len(job[p]) = 2)
    BY <1>3
  <2> QED
    BY <2>1, <2>2, <2>3
<1>6. subs \in Seq(Rows(Len(periods)))
  BY DEF Inductive, Typed
<1> HIDE DEF new
<1>7. /\ DOMAIN subs = 1 .. n /\ n \in Nat /\ DOMAIN subs' = 1 .. n + 1
      /\ \A s \in 1 .. n : subs'[s] = subs[s]
  <2>1. subs \in Seq(Rows(Len(periods)) \cup {new}) /\ new \in Rows(Len(periods)) \cup {new}
    BY <1>6, SeqGrows
  <2>2. /\ Append(subs, new) \in Seq(Rows(Len(periods)) \cup {new})
        /\ Len(Append(subs, new)) = n + 1
        /\ \A s \in 1 .. n : Append(subs, new)[s] = subs[s]
    BY <2>1, AppendProperties
  <2> QED
    BY <1>1, <1>6, <2>2, LenProperties
<1>8. Active' \subseteq {n + 1}
  <2> SUFFICES ASSUME NEW s \in 1 .. n + 1, subs'[s].status = "active", s # n + 1 PROVE FALSE
    BY <1>7 DEF Active
  <2>1. s \in 1 .. n
    BY <1>7
  <2> QED
    BY <1>5, <1>7, <2>1 DEF Active
<1>9. job'[p] = << >> /\ \A q \in Processes : q # p => job'[q] = job[q]
  BY <1>1, <1>3, OneList
<1>10. \A h \in Handlers : ~Buys(job'[h])
  BY <1>5, <1>9, BuysOne DEF Processes
<1> QED
  BY <1>8, <1>10 DEF OneBuyer, Buys, PlanStep, Paying

LEMMA StepBuyer ==
  ASSUME Inductive, RequestsShaped, OneBuyer, NEW p \in Processes, Step(p), overwritten' = {}
  PROVE  OneBuyer'
<1> DEFINE w == Head(job[p])
<1>0. job[p] # << >>
  BY DEF Step, Doing, DoSaveSub, DoUpdateSub, DoSubscribe, DoExtend, DoFindExpired, DoCharge, DoCall,
         DoRecord, DoAddCredits, DoSaveCredit, DoUpdateCredit
<1>1. ASSUME NEW more, Then(p, more), subs' = subs,
             p \in Handlers => /\ ~SubStep(w)
                               /\ \/ more = << >>
                                  \/ \E v : more = <<v>> /\ (PlanStep(v) => PlanStep(w))
      PROVE  OneBuyer'
  <2>1. job' = [job EXCEPT ![p] = more \o Tail(job[p])] /\ Active' = Active
    BY <1>1 DEF Then, Active
  <2>2. ASSUME p \in Handlers, Buys(more \o Tail(job[p]))
        PROVE  Buys(job[p]) /\ Active = {}
    <3>1. Tail(job[p]) = << >> /\ Len(job[p]) = 1
      BY <1>0, <1>1, <2>2, RequestHeads
    <3>2. << >> \o << >> = << >> /\ \A v : <<v>> \o << >> = <<v>>
      OBVIOUS
    <3>3. PlanStep(w)
      BY <1>1, <2>2, <3>1, <3>2, BuysOne
    <3>4. Buys(job[p])
      BY <1>0, <3>3 DEF Buys
    <3> QED
      BY <2>2, <3>1, <3>4 DEF OneBuyer
  <2> QED
    BY <2>1, <2>2, SameBuyer
<1>2. CASE DoSaveSub(p)
  <2> DEFINE v == UpdateSub(w.s, w.row, w.was, subs[w.s])
  <2>1. /\ w.do = "saveSub" /\ subs' = subs /\ Then(p, <<v>>)
    BY <1>2 DEF DoSaveSub, Doing
  <2>2. ~PlanStep(v) /\ v.s = w.s /\ v.row = w.row
    BY PlanSteps DEF UpdateSub
  <2> HIDE DEF v
  <2>3. PICK l : l = <<v>> \o Tail(job[p])
    OBVIOUS
  <2>4. Len(l) = Len(job[p]) /\ Head(l) = v /\ Head(l).s = w.s /\ l # << >>
    BY <1>0, <2>2, <2>3, OneMore
  <2>5. job' = [job EXCEPT ![p] = l] /\ Active' = Active
    BY <2>1, <2>3 DEF Then, Active
  <2>6. ASSUME p \in Handlers, Buys(l)
        PROVE  Buys(job[p]) /\ \A s \in Active : Len(l) = 2 /\ s = Head(l).s
    <3>1. Buys(job[p])
      BY <1>0, <2>2, <2>4, <2>6 DEF Buys
    <3> QED
      BY <2>4, <2>6, <3>1 DEF OneBuyer
  <2> QED
    BY <2>5, <2>6, SameBuyer
<1>3. CASE DoExtend(p)
  <2>1. w.do = "extend" /\ subs' = subs /\ \E more : Then(p, more)
    BY <1>3 DEF DoExtend, Doing
  <2>2. p \notin Handlers
    BY <1>0, <2>1, RequestHeads
  <2> QED
    BY <1>1, <2>1, <2>2
<1>4. CASE DoFindExpired(p)
  <2>1. w.do = "findExpired" /\ subs' = subs /\ \E more : Then(p, more)
    BY <1>4 DEF DoFindExpired, Doing
  <2>2. p \notin Handlers
    BY <1>0, <2>1, RequestHeads
  <2> QED
    BY <1>1, <2>1, <2>2
<1>5. CASE DoCharge(p)
  <2>1. /\ w.do = "charge" /\ subs' = subs
        /\ Then(p, << >>) \/ Then(p, <<Call(w, Len(payments) + 1)>>)
    BY <1>5 DEF DoCharge, Doing, Advance
  <2> QED
    BY <1>1, <2>1, PlanSteps DEF SubStep
<1>6. CASE DoCall(p)
  <2>1. w.do = "call" /\ subs' = subs /\ \E answer : Then(p, <<Record(w, answer)>>)
    BY <1>6 DEF DoCall, Doing
  <2>2. \A answer : PlanStep(Record(w, answer)) => PlanStep(w)
    BY <2>1, PlanSteps DEF PlanStep, Paying
  <2> QED
    BY <1>1, <2>1, <2>2 DEF SubStep
<1>7. CASE DoRecord(p)
  <2>1. /\ w.do = "record" /\ subs' = subs
        /\ Then(p, IF w.answer = "success" THEN w.call.charge.yes ELSE w.call.charge.no)
    BY <1>7 DEF DoRecord, Doing
  <2>2. w.call.charge = PayForPlan => PlanStep(w)
    BY <2>1 DEF PlanStep, Paying
  <2>3. p \in Handlers => w.call.charge \in {PayForPlan, PayForCredits}
    BY <1>0, <2>1, RequestHeads
  <2> QED
    BY <1>1, <2>1, <2>2, <2>3, TwoPurchases, PlanSteps DEF SubStep
<1>8. CASE DoAddCredits(p)
  <2>1. w.do = "addCredits" /\ subs' = subs /\ \E row : Then(p, <<SaveCredit(row, credit)>>)
    BY <1>8 DEF DoAddCredits, Doing
  <2> QED
    BY <1>1, <2>1, PlanSteps DEF SubStep
<1>9. CASE DoSaveCredit(p)
  <2>1. /\ w.do = "saveCredit" /\ subs' = subs
        /\ Then(p, <<UpdateCredit(w.row, w.was, credit)>>)
    BY <1>9 DEF DoSaveCredit, Doing
  <2> QED
    BY <1>1, <2>1, PlanSteps DEF SubStep
<1>10. CASE DoUpdateCredit(p)
  <2>1. w.do = "updateCredit" /\ subs' = subs /\ Then(p, << >>)
    BY <1>10 DEF DoUpdateCredit, Doing, Advance
  <2> QED
    BY <1>1, <2>1 DEF SubStep
<1> QED
  BY <1>2, <1>3, <1>4, <1>5, <1>6, <1>7, <1>8, <1>9, <1>10, UpdateBuyer, SubscribeBuyer DEF Step

LEMMA NextBuyer ==
  ASSUME Inductive, RequestsShaped, OneBuyerUnlessRaced, [Next]_vars
  PROVE  OneBuyerUnlessRaced'
<1>1. (raced => raced') /\ (overwritten # {} => overwritten' # {})
  <2>1. ASSUME NEW h \in Handlers, Request(h)
        PROVE  (raced => raced') /\ overwritten' = overwritten
    <3>1. \E l : Begin(h, l)
      BY <2>1 DEF Request, Purchase, CancelSubscription, BuyCredits, Deduct, Refund
    <3>2. Race \/ raced' = raced
      BY <2>1 DEF Request, Purchase, CancelSubscription, BuyCredits, Deduct, Refund
    <3>3. overwritten' = overwritten
      BY <3>1 DEF Begin
    <3>4. Race => (raced => raced')
      BY DEF Race
    <3> QED
      BY <3>2, <3>3, <3>4
  <2>2. ASSUME NEW k \in Crons, ProcessRenewals(k)
        PROVE  raced' = raced /\ overwritten' = overwritten
    BY <2>2 DEF ProcessRenewals, Begin
  <2>3. ASSUME NEW p \in Processes, Step(p)
        PROVE  raced' = raced /\ (overwritten # {} => overwritten' # {})
    BY <2>3 DEF Step, DoSaveSub, DoUpdateSub, DoSubscribe, DoExtend, DoFindExpired, DoCharge, DoCall,
           DoRecord, DoAddCredits, DoSaveCredit, DoUpdateCredit, history
  <2>4. (\E p \in Processes : Break(p)) \/ (\E k \in Crons : Skip(k))
          \/ (\E s \in DOMAIN subs : Elapse(s)) \/ DeleteCard \/ RegisterCard \/ UNCHANGED vars
          => raced' = raced /\ overwritten' = overwritten
    BY DEF Break, Skip, Elapse, DeleteCard, RegisterCard, CardIs, vars, history
  <2> QED
    BY <2>1, <2>2, <2>3, <2>4 DEF Next
<1> SUFFICES ASSUME ~raced', overwritten' = {} PROVE OneBuyer'
  BY DEF OneBuyerUnlessRaced
<1>2. OneBuyer
  BY <1>1 DEF OneBuyerUnlessRaced
<1>3. ASSUME NEW h \in Handlers, Request(h) PROVE OneBuyer'
  BY <1>2, <1>3, RequestBuyer
<1>4. ASSUME NEW k \in Crons, ProcessRenewals(k) PROVE OneBuyer'
  <2>1. \E l : Begin(k, l)
    BY <1>4 DEF ProcessRenewals
  <2>2. PICK l : Begin(k, l)
    BY <2>1
  <2>3. job' = [job EXCEPT ![k] = l] /\ Active' = Active /\ k \in Processes /\ k \notin Handlers
    BY <2>2, BillingAssumption DEF Begin, Active, Processes
  <2> QED
    BY <1>2, <2>3, SameBuyer
<1>5. ASSUME NEW p \in Processes, Step(p) PROVE OneBuyer'
  BY <1>2, <1>5, StepBuyer
<1>6. ASSUME NEW p \in Processes, Break(p) PROVE OneBuyer'
  <2>1. job' = [job EXCEPT ![p] = << >>] /\ Active' = Active /\ ~Buys(<< >>)
    BY <1>6 DEF Break, Active, Buys
  <2> QED
    BY <1>2, <2>1, SameBuyer
<1>7. ASSUME NEW k \in Crons, Skip(k) PROVE OneBuyer'
  <2>1. /\ job' = [job EXCEPT ![k] = Tail(job[k])] /\ Active' = Active
        /\ k \in Processes /\ k \notin Handlers
    BY <1>7, BillingAssumption DEF Skip, Active, Processes
  <2> QED
    BY <1>2, <2>1, SameBuyer
<1>8. ASSUME job' = job, subs' = subs PROVE OneBuyer'
  BY <1>2, <1>8 DEF OneBuyer, Active, Buys, PlanStep, Paying
<1>9. (\E s \in DOMAIN subs : Elapse(s)) \/ DeleteCard \/ RegisterCard \/ UNCHANGED vars
        => job' = job /\ subs' = subs
  BY DEF Elapse, DeleteCard, RegisterCard, CardIs, vars
<1> QED
  BY <1>3, <1>4, <1>5, <1>6, <1>8, <1>9, <1>7 DEF Next

(* At most one active subscription, counted. *)
LEMMA OneIsEnough ==
  ASSUME Inductive, OneBuyerUnlessRaced
  PROVE  OneActiveSubscription
<1> SUFFICES ASSUME OneBuyer PROVE ~(Cardinality(Active) > 1)
  BY DEF OneBuyerUnlessRaced, OneActiveSubscription
<1>1. CASE Active = {}
  BY <1>1, FS_EmptySet
<1>2. CASE Active # {}
  <2>1. PICK s : s \in Active
    BY <1>2
  <2>2. Active = {s}
    BY <2>1 DEF OneBuyer
  <2>3. Cardinality(Active) = 1
    BY <2>2, FS_Singleton
  <2> QED
    BY <2>3
<1> QED
  BY <1>1, <1>2

-----------------------------------------------------------------------------
(* Every charge for credits is added to them, or is owed by the request    *)
(* that has paid.                                                          *)

LEMMA TimesMore ==
  ASSUME NEW x \in Nat
  PROVE  Pack * (x + 1) = Pack * x + Pack
<1>1. Pack \in Nat
  BY BillingAssumption
<1> QED
  BY <1>1

LEMMA PaidIsFinite ==
  ASSUME Inductive
  PROVE  IsFiniteSet(PaidForCredits) /\ Cardinality(PaidForCredits) \in Nat
<1>1. IsFiniteSet(1 .. Len(payments))
  BY PaymentsAre, FS_Interval
<1>2. PaidForCredits \subseteq 1 .. Len(payments)
  BY PaymentsAre DEF PaidForCredits
<1>3. IsFiniteSet(PaidForCredits)
  BY <1>1, <1>2, FS_Subset
<1> QED
  BY <1>3, FS_CardinalityType

(* One list changes: the others owe what they owed. *)
LEMMA OwedAfter ==
  ASSUME Inductive, NEW p \in Processes, NEW l, job' = [job EXCEPT ![p] = l]
  PROVE  /\ p \in Handlers /\ Owes(l) => Owed' = Owed \cup {p}
         /\ p \in Handlers /\ ~Owes(l) => Owed' = Owed \ {p}
         /\ p \notin Handlers => Owed' = Owed
         /\ IsFiniteSet(Owed) => IsFiniteSet(Owed')
<1>1. job'[p] = l /\ \A q \in Processes : q # p => job'[q] = job[q]
  BY OneList
<1>2. Owed' = {h \in Handlers : Owes(job'[h])}
  BY DEF Owed, Owes
<1>3. \A h \in Handlers : h # p => (h \in Owed' <=> h \in Owed)
  BY <1>1, <1>2 DEF Owed, Processes
<1>4. p \in Handlers => (p \in Owed' <=> Owes(l))
  BY <1>1, <1>2
<1>5. Owed \subseteq Handlers /\ Owed' \subseteq Handlers
  BY <1>2 DEF Owed
<1>6. Owed' \subseteq Owed \cup {p}
  BY <1>3, <1>5
<1>7. IsFiniteSet(Owed) => IsFiniteSet(Owed')
  BY <1>6, FS_AddElement, FS_Subset
<1> QED
  BY <1>3, <1>4, <1>5, <1>7

LEMMA SameSums ==
  ASSUME Inductive, PurchasesAddUp, NEW p \in Processes, NEW l, job' = [job EXCEPT ![p] = l],
         p \in Handlers => (Owes(l) <=> Owes(job[p])),
         disturbed' \/ PaidForCredits' = PaidForCredits,
         disturbed' \/ credit'.totalPurchased = credit.totalPurchased,
         disturbed => disturbed'
  PROVE  PurchasesAddUp'
<1>1. Owed' = Owed
  <2>1. CASE p \notin Handlers
    BY <2>1, OwedAfter
  <2>2. CASE p \in Handlers /\ Owes(job[p])
    <3>1. p \in Owed /\ Owed' = Owed \cup {p}
      BY <2>2, OwedAfter DEF Owed
    <3> QED
      BY <3>1
  <2>3. CASE p \in Handlers /\ ~Owes(job[p])
    <3>1. p \notin Owed /\ Owed' = Owed \ {p}
      BY <2>3, OwedAfter DEF Owed
    <3> QED
      BY <3>1
  <2> QED
    BY <2>1, <2>2, <2>3
<1> QED
  BY <1>1 DEF PurchasesAddUp

(* What of the steps of a request owes anything. *)
LEMMA OwingSteps ==
  /\ ~Owes(<< >>) /\ \A w : Owes(<<w>>) <=> Owes(<<w, PayForPlan>>)
  /\ Owes(<<AddCredits>>) /\ ~Owes(<<Subscribe>>) /\ ~Owes(<<PayForPlan>>) /\ ~Owes(<<PayForCredits>>)
  /\ \A s, row, was : ~Owes(<<SaveSub(s, row, was)>>)
  /\ \A w, n : ~Owes(<<Call(w, n)>>)
  /\ \A w, answer : Owes(<<Record(w, answer)>>) <=>
                      w.charge = PayForCredits /\ answer = "success"
  /\ \A s, row, was, saw : ~Owes(<<UpdateSub(s, row, was, saw)>>)
  /\ \A row, was : Owes(<<SaveCredit(row, was)>>) <=> row.totalPurchased # was.totalPurchased
  /\ \A row, was, saw : Owes(<<UpdateCredit(row, was, saw)>>) <=>
                           row.totalPurchased # was.totalPurchased
<1>1. ASSUME NEW w
      PROVE  /\ Owes(<<w>>) <=>
                  \/ w.do = "record" /\ w.call.charge = PayForCredits /\ w.answer = "success"
                  \/ w = AddCredits
                  \/ /\ w.do \in {"saveCredit", "updateCredit"}
                     /\ w.row.totalPurchased # w.was.totalPurchased
             /\ Owes(<<w>>) <=> Owes(<<w, PayForPlan>>)
  BY OneStep DEF Owes
<1>2. ASSUME NEW w, w.do \in {"subscribe", "charge", "saveSub", "updateSub", "call"}
      PROVE  ~Owes(<<w>>)
  BY <1>1, <1>2, TwoPurchases
<1>3. /\ \A s, row, was : SaveSub(s, row, was).do = "saveSub"
      /\ \A s, row, was, saw : UpdateSub(s, row, was, saw).do = "updateSub"
      /\ \A w, n : Call(w, n).do = "call"
  BY DEF SaveSub, UpdateSub, Call
<1>4. ASSUME NEW w, NEW answer
      PROVE  Owes(<<Record(w, answer)>>) <=> w.charge = PayForCredits /\ answer = "success"
  <2>1. /\ Record(w, answer).do = "record" /\ Record(w, answer).call = w
        /\ Record(w, answer).answer = answer
    BY DEF Record
  <2> QED
    BY <1>1, <2>1, TwoPurchases
<1>5. ASSUME NEW row, NEW was
      PROVE  Owes(<<SaveCredit(row, was)>>) <=> row.totalPurchased # was.totalPurchased
  <2>1. /\ SaveCredit(row, was).do = "saveCredit" /\ SaveCredit(row, was).row = row
        /\ SaveCredit(row, was).was = was
    BY DEF SaveCredit
  <2> QED
    BY <1>1, <2>1, TwoPurchases
<1>6. ASSUME NEW row, NEW was, NEW saw
      PROVE  Owes(<<UpdateCredit(row, was, saw)>>) <=> row.totalPurchased # was.totalPurchased
  <2>1. /\ UpdateCredit(row, was, saw).do = "updateCredit"
        /\ UpdateCredit(row, was, saw).row = row /\ UpdateCredit(row, was, saw).was = was
    BY DEF UpdateCredit
  <2> QED
    BY <1>1, <2>1, TwoPurchases
<1>7. ~Owes(<< >>)
  BY DEF Owes
<1>8. Owes(<<AddCredits>>)
  BY <1>1
<1> QED
  BY <1>1, <1>2, <1>3, <1>4, <1>5, <1>7, <1>8, <1>6, TwoPurchases

LEMMA RequestSums ==
  ASSUME Inductive, PurchasesAddUp, NEW h \in Handlers, Request(h)
  PROVE  PurchasesAddUp'
<1>0. h \in Processes
  BY DEF Processes
<1>1. ASSUME NEW l, Begin(h, l), ~Owes(l)
      PROVE  PurchasesAddUp'
  <2>1. /\ job[h] = << >> /\ job' = [job EXCEPT ![h] = l] /\ credit' = credit
        /\ payments' = payments /\ disturbed' = disturbed
    BY <1>1 DEF Begin
  <2>2. ~Owes(job[h]) /\ PaidForCredits' = PaidForCredits
    BY <2>1 DEF Owes, PaidForCredits
  <2> QED
    BY <1>0, <1>1, <2>1, <2>2, SameSums
<1>2. CASE Purchase(h)
  <2>1. \A s, row, was : ~Owes(<<SaveSub(s, row, was), PayForPlan>>)
    BY OwingSteps
  <2> QED
    BY <1>1, <1>2, <2>1, OwingSteps DEF Purchase
<1>3. CASE CancelSubscription(h)
  BY <1>1, <1>3, OwingSteps DEF CancelSubscription
<1>4. CASE BuyCredits(h)
  BY <1>1, <1>4, OwingSteps DEF BuyCredits, PayForCredits
<1>5. \A n : Used(n).totalPurchased = credit.totalPurchased
  <2>1. credit \in UserCredit
    BY DEF Inductive, Typed, Credits
  <2> QED
    BY <2>1 DEF Used, UserCredit
<1>6. \A n : ~Owes(<<SaveCredit(Used(n), credit)>>)
  BY <1>5, OwingSteps
<1>7. CASE Deduct(h) \/ Refund(h)
  BY <1>1, <1>6, <1>7 DEF Deduct, Refund
<1> QED
  BY <1>2, <1>3, <1>4, <1>7 DEF Request

(* What the provider charged for credits. *)
LEMMA PaidAfterCharge ==
  ASSUME Inductive, NEW p \in Processes, DoCharge(p)
  PROVE  PaidForCredits' = PaidForCredits
<1> DEFINE w == Head(job[p])
           pay == [for |-> w.for, status |-> "pending", charged |-> FALSE]
<1>1. \/ payments' = payments
      \/ payments' = Append(payments, pay)
  BY DEF DoCharge
<1>2. CASE payments' = payments
  BY <1>2 DEF PaidForCredits
<1>3. CASE payments' = Append(payments, pay)
  <2>1. pay.charged = FALSE
    OBVIOUS
  <2>2. payments \in Seq(Payment \cup {pay}) /\ pay \in Payment \cup {pay}
    BY SeqGrows DEF Inductive, Typed
  <2> HIDE DEF pay
  <2>3. /\ payments' \in Seq(Payment \cup {pay}) /\ Len(payments') = Len(payments) + 1
        /\ \A n \in 1 .. Len(payments) : payments'[n] = payments[n]
        /\ payments'[Len(payments) + 1] = pay
    BY <1>3, <2>2, AppendProperties
  <2>4. DOMAIN payments = 1 .. Len(payments) /\ DOMAIN payments' = 1 .. Len(payments) + 1
        /\ Len(payments) \in Nat
    BY <2>3, LenProperties, PaymentsAre
  <2> QED
    BY <2>1, <2>3, <2>4 DEF PaidForCredits
<1> QED
  BY <1>1, <1>2, <1>3

LEMMA PaidAfterRecord ==
  ASSUME Inductive, PaymentsInHand, NEW p \in Processes, DoRecord(p)
  PROVE  PaidForCredits' = PaidForCredits
<1> DEFINE w == Head(job[p])
           n == w.call.n
           pay == [payments[n] EXCEPT !.status = w.answer]
<1>1. job[p] # << >> /\ w.do = "record" /\ payments' = [payments EXCEPT ![n] = pay]
  BY DEF DoRecord, Doing
<1>2. n \in DOMAIN payments /\ payments[n] \in Payment
  BY <1>1, RestWaits, PaymentsAre DEF HeldRight
<1>3. pay.for = payments[n].for /\ pay.charged = payments[n].charged
  BY <1>2 DEF Payment
<1> HIDE DEF pay, n
<1>4. /\ DOMAIN payments' = DOMAIN payments /\ payments'[n] = pay
      /\ \A m \in DOMAIN payments : m # n => payments'[m] = payments[m]
  BY <1>1, <1>2, HeldPaymentChanges
<1> QED
  BY <1>3, <1>4 DEF PaidForCredits

LEMMA PaidAfterCall ==
  ASSUME Inductive, PaymentsInHand, NEW p \in Processes, DoCall(p),
         NEW w, w = Head(job[p]), NEW charged \in BOOLEAN,
         payments' = [payments EXCEPT ![w.n].charged = charged]
  PROVE  /\ w.n \notin PaidForCredits
         /\ PaidForCredits' = IF w.charge.for = "credits" /\ charged
                              THEN PaidForCredits \cup {w.n} ELSE PaidForCredits
<1> DEFINE pay == [payments[w.n] EXCEPT !.charged = charged]
<1>1. job[p] # << >> /\ w.do = "call" /\ payments' = [payments EXCEPT ![w.n] = pay]
  BY DEF DoCall, Doing
<1>2. /\ w.n \in DOMAIN payments /\ payments[w.n] \in Payment
      /\ payments[w.n].for = w.charge.for /\ ~payments[w.n].charged
  BY <1>1, RestWaits, PaymentsAre DEF HeldRight
<1>3. pay.for = w.charge.for /\ pay.charged = charged
  BY <1>2 DEF Payment
<1> HIDE DEF pay
<1>4. /\ DOMAIN payments' = DOMAIN payments /\ payments'[w.n] = pay
      /\ \A m \in DOMAIN payments : m # w.n => payments'[m] = payments[m]
  BY <1>1, <1>2, HeldPaymentChanges
<1>5. w.n \notin PaidForCredits
  BY <1>2 DEF PaidForCredits
<1>6. \A m \in DOMAIN payments : m # w.n => (m \in PaidForCredits' <=> m \in PaidForCredits)
  BY <1>4 DEF PaidForCredits
<1>7. w.n \in PaidForCredits' <=> w.charge.for = "credits" /\ charged
  BY <1>2, <1>3, <1>4 DEF PaidForCredits
<1>8. PaidForCredits \subseteq DOMAIN payments /\ PaidForCredits' \subseteq DOMAIN payments
  BY <1>4 DEF PaidForCredits
<1> QED
  BY <1>2, <1>5, <1>6, <1>7, <1>8

(* The answer of the provider: who has paid for credits owes them. *)
LEMMA CallSums ==
  ASSUME Inductive, RequestsShaped, PaymentsInHand, PurchasesAddUp,
         NEW p \in Processes, DoCall(p)
  PROVE  PurchasesAddUp'
<1>0. PICK w : w = Head(job[p])
  OBVIOUS
<1>1. /\ job[p] # << >> /\ w.do = "call" /\ credit' = credit
  BY <1>0 DEF DoCall, Doing
<1>2. PICK charged \in BOOLEAN, answer \in {"success", "failed"} :
        /\ answer = "success" => charged
        /\ payments' = [payments EXCEPT ![w.n].charged = charged]
        /\ Then(p, <<Record(w, answer)>>)
        /\ Disturb(charged /\ answer = "failed")
  BY <1>0 DEF DoCall
<1>3. /\ w.n \notin PaidForCredits
      /\ PaidForCredits' = IF w.charge.for = "credits" /\ charged
                           THEN PaidForCredits \cup {w.n} ELSE PaidForCredits
  BY <1>0, <1>2, PaidAfterCall
<1>4. PICK l : l = <<Record(w, answer)>> \o Tail(job[p])
  OBVIOUS
<1>5. job' = [job EXCEPT ![p] = l]
  BY <1>2, <1>4 DEF Then
<1>6. (disturbed => disturbed') /\ (disturbed' \/ (charged <=> answer = "success"))
  BY <1>2 DEF Disturb
<1>7. CASE p \notin Handlers
  <2>1. w.charge.for = "renewal"
    BY <1>0, <1>1, <1>7, NextStep, Kinds DEF Calls, Charges
  <2> QED
    BY <1>1, <1>3, <1>5, <1>6, <1>7, <2>1, SameSums
<1>8. CASE p \in Handlers
  <2>1. Tail(job[p]) = << >> /\ w.charge \in {PayForPlan, PayForCredits}
    BY <1>0, <1>1, <1>8, RequestHeads DEF SubStep
  <2>2. l = <<Record(w, answer)>>
    <3>1. \A v : <<v>> \o << >> = <<v>>
      OBVIOUS
    <3> QED
      BY <1>4, <2>1, <3>1
  <2>3. Owes(l) <=> w.charge = PayForCredits /\ answer = "success"
    BY <2>2, OwingSteps
  <2>4. w.charge = PayForCredits <=> w.charge.for = "credits"
    BY <2>1, TwoPurchases
  <2>5. ~Owes(job[p])
    BY <1>0, <1>1, TwoPurchases DEF Owes
  <2>6. CASE w.charge = PayForCredits /\ answer = "success" /\ ~disturbed'
    <3>1. Owed' = Owed \cup {p} /\ IsFiniteSet(Owed) /\ p \notin Owed
      BY <1>5, <1>8, <2>3, <2>5, <2>6, OwedAfter DEF PurchasesAddUp, Owed
    <3>2. Cardinality(Owed') = Cardinality(Owed) + 1 /\ IsFiniteSet(Owed')
      BY <3>1, FS_AddElement
    <3>3. PaidForCredits' = PaidForCredits \cup {w.n}
      BY <1>2, <1>3, <2>4, <2>6
    <3>4. Cardinality(PaidForCredits') = Cardinality(PaidForCredits) + 1
      BY <1>3, <3>3, PaidIsFinite, FS_AddElement
    <3>5. /\ Cardinality(Owed) \in Nat /\ Cardinality(PaidForCredits) \in Nat
          /\ credit.totalPurchased + Pack * Cardinality(Owed) = Pack * Cardinality(PaidForCredits)
      BY <1>6, <2>6, <3>1, PaidIsFinite, FS_CardinalityType DEF PurchasesAddUp
    <3>6. /\ Pack * Cardinality(Owed') = Pack * Cardinality(Owed) + Pack
          /\ Pack * Cardinality(PaidForCredits') = Pack * Cardinality(PaidForCredits) + Pack
      BY <3>2, <3>4, <3>5, TimesMore
    <3> DEFINE a == Pack * Cardinality(Owed)
               b == Pack * Cardinality(PaidForCredits)
    <3>7. a \in Int /\ b \in Int
      BY <3>5, BillingAssumption
    <3>8. Pack \in Int /\ credit.totalPurchased \in Int
      BY BillingAssumption DEF Inductive, Typed, Credits, UserCredit
    <3>9. /\ credit.totalPurchased + a = b /\ Pack * Cardinality(Owed') = a + Pack
          /\ Pack * Cardinality(PaidForCredits') = b + Pack
      BY <3>5, <3>6
    <3> HIDE DEF a, b
    <3>10. credit.totalPurchased + (a + Pack) = b + Pack
      BY <3>7, <3>8, <3>9
    <3>11. credit'.totalPurchased + Pack * Cardinality(Owed') = Pack * Cardinality(PaidForCredits')
      BY <1>1, <3>9, <3>10
    <3> QED
      BY <3>2, <3>11 DEF PurchasesAddUp
  <2>7. CASE ~(w.charge = PayForCredits /\ answer = "success") /\ ~disturbed'
    <3>1. PaidForCredits' = PaidForCredits
      BY <1>3, <1>6, <2>4, <2>7
    <3> QED
      BY <1>1, <1>5, <1>6, <2>3, <2>5, <2>7, <3>1, SameSums
  <2>8. CASE disturbed'
    BY <1>5, <2>8, OwedAfter DEF PurchasesAddUp
  <2> QED
    BY <2>6, <2>7, <2>8
<1> QED
  BY <1>7, <1>8

(* What was owed is saved, unless the row changed meanwhile. *)
LEMMA UpdateCreditSums ==
  ASSUME Inductive, RequestsShaped, PurchasesAddUp, NEW p \in Processes, DoUpdateCredit(p)
  PROVE  PurchasesAddUp'
<1>0. PICK w : w = Head(job[p])
  OBVIOUS
<1>1. /\ job[p] # << >> /\ w.do = "updateCredit" /\ payments' = payments
      /\ Disturb(credit # w.was \/ credit' # w.row)
      /\ job' = [job EXCEPT ![p] = << >> \o Tail(job[p])]
  BY <1>0 DEF DoUpdateCredit, Doing, Advance, Then
<1>2. /\ p \in Handlers /\ w \in CreditUpdates
  BY <1>0, <1>1, NextStep, Kinds
<1>3. << >> \o Tail(job[p]) = << >>
  BY <1>0, <1>1, <1>2, RequestHeads, NothingMore DEF SubStep
<1>4. job' = [job EXCEPT ![p] = << >>] /\ ~Owes(<< >>)
  BY <1>1, <1>3, OwingSteps
<1>5. PaidForCredits' = PaidForCredits
      /\ (disturbed' \/ (~disturbed /\ credit = w.was /\ credit' = w.row))
      /\ (disturbed => disturbed')
  BY <1>1 DEF PaidForCredits, Disturb
<1>6. Owes(job[p]) <=> w.row.totalPurchased # w.was.totalPurchased
  BY <1>0, <1>1, TwoPurchases DEF Owes
<1>7. CASE disturbed'
  BY <1>4, <1>7, OwedAfter DEF PurchasesAddUp
<1>8. CASE ~disturbed' /\ ~Owes(job[p])
  BY <1>4, <1>5, <1>6, <1>8, SameSums
<1>9. CASE ~disturbed' /\ Owes(job[p])
  <2>1. credit'.totalPurchased = credit.totalPurchased + Pack
    BY <1>2, <1>5, <1>6, <1>9 DEF CreditUpdates
  <2>2. Owed' = Owed \ {p} /\ p \in Owed /\ IsFiniteSet(Owed)
    BY <1>2, <1>4, <1>9, OwedAfter DEF PurchasesAddUp, Owed
  <2>3. /\ Cardinality(Owed') = Cardinality(Owed) - 1 /\ IsFiniteSet(Owed')
        /\ Cardinality(Owed) \in Nat /\ Cardinality(Owed') \in Nat
    BY <2>2, FS_RemoveElement, FS_CardinalityType
  <2>4. Pack * Cardinality(Owed) = Pack * Cardinality(Owed') + Pack
    <3>1. Cardinality(Owed) = Cardinality(Owed') + 1
      BY <2>3
    <3> QED
      BY <2>3, <3>1, TimesMore
  <2>5. credit.totalPurchased + Pack * Cardinality(Owed) = Pack * Cardinality(PaidForCredits)
    BY <1>5, <1>9 DEF PurchasesAddUp
  <2> DEFINE a == Pack * Cardinality(Owed')
             b == Pack * Cardinality(PaidForCredits)
  <2>6. a \in Int /\ b \in Int
    <3>1. Cardinality(PaidForCredits) \in Nat
      BY PaidIsFinite
    <3> QED
      BY <2>3, <3>1, BillingAssumption
  <2>7. credit'.totalPurchased + a = b
    <3>1. Pack \in Int /\ credit.totalPurchased \in Int
      BY BillingAssumption DEF Inductive, Typed, Credits, UserCredit
    <3>2. credit.totalPurchased + (a + Pack) = b
      BY <2>4, <2>5
    <3> HIDE DEF a, b
    <3> QED
      BY <2>1, <2>6, <3>1, <3>2
  <2> QED
    BY <1>5, <2>3, <2>7 DEF PurchasesAddUp
<1> QED
  BY <1>7, <1>8, <1>9

LEMMA StepSums ==
  ASSUME Inductive, RequestsShaped, PaymentsInHand, PurchasesAddUp,
         NEW p \in Processes, Step(p)
  PROVE  PurchasesAddUp'
<1> DEFINE w == Head(job[p])
<1>0. job[p] # << >>
  BY DEF Step, Doing, DoSaveSub, DoUpdateSub, DoSubscribe, DoExtend, DoFindExpired, DoCharge, DoCall,
         DoRecord, DoAddCredits, DoSaveCredit, DoUpdateCredit
<1>1. ASSUME NEW more, Then(p, more), credit' = credit, PaidForCredits' = PaidForCredits,
             disturbed' = disturbed,
             p \in Handlers => (Owes(more \o Tail(job[p])) <=> Owes(job[p]))
      PROVE  PurchasesAddUp'
  BY <1>1, SameSums DEF Then
<1>2. payments' = payments => PaidForCredits' = PaidForCredits
  BY DEF PaidForCredits
<1>3. ASSUME p \in Handlers, ~SubStep(w)
      PROVE  << >> \o Tail(job[p]) = << >> /\ \A v : <<v>> \o Tail(job[p]) = <<v>>
  <2>1. Tail(job[p]) = << >>
    BY <1>0, <1>3, RequestHeads
  <2>2. << >> \o << >> = << >> /\ \A v : <<v>> \o << >> = <<v>>
    OBVIOUS
  <2> QED
    BY <2>1, <2>2
<1>4. w.do \in {"saveSub", "updateSub", "subscribe", "charge"} => ~Owes(job[p])
  BY TwoPurchases DEF Owes
<1>5. CASE DoUpdateSub(p)
  <2>1. /\ w.do = "updateSub" /\ Then(p, << >>) /\ credit' = credit /\ payments' = payments
        /\ disturbed' = disturbed
    BY <1>5 DEF DoUpdateSub, Doing, Advance
  <2>2. p \in Handlers => ~Owes(<< >> \o Tail(job[p]))
    <3>1. p \in Handlers => Tail(job[p]) = << >> \/ Tail(job[p]) = <<PayForPlan>>
      BY <1>0, RequestHeads
    <3>2. << >> \o Tail(job[p]) = Tail(job[p])
      BY <1>0, NothingMore
    <3> QED
      BY <3>1, <3>2, OwingSteps
  <2> QED
    BY <1>1, <1>2, <1>4, <2>1, <2>2
<1>6. CASE DoSaveSub(p)
  <2> DEFINE v == UpdateSub(w.s, w.row, w.was, subs[w.s])
  <2>1. /\ w.do = "saveSub" /\ Then(p, <<v>>) /\ credit' = credit /\ payments' = payments
        /\ disturbed' = disturbed
    BY <1>6 DEF DoSaveSub, Doing, history
  <2>2. v.do = "updateSub"
    BY DEF UpdateSub
  <2> HIDE DEF v
  <2>3. Head(<<v>> \o Tail(job[p])) = v
    BY <1>0, OneMore
  <2>4. ~Owes(<<v>> \o Tail(job[p]))
    BY <2>2, <2>3, TwoPurchases DEF Owes
  <2> QED
    BY <1>1, <1>2, <1>4, <2>1, <2>4
<1>7. CASE DoSaveCredit(p)
  <2> DEFINE v == UpdateCredit(w.row, w.was, credit)
  <2>1. /\ w.do = "saveCredit" /\ Then(p, <<v>>) /\ credit' = credit /\ payments' = payments
        /\ disturbed' = disturbed
    BY <1>7 DEF DoSaveCredit, Doing, history
  <2>2. Owes(<<v>>) <=> Owes(job[p])
    BY <1>0, <2>1, OwingSteps, TwoPurchases DEF Owes
  <2> HIDE DEF v
  <2> QED
    BY <1>1, <1>2, <1>3, <2>1, <2>2 DEF SubStep
<1>8. CASE DoSubscribe(p)
  <2>1. /\ w.do = "subscribe" /\ Then(p, << >>) /\ credit' = credit /\ payments' = payments
        /\ disturbed' = disturbed
    BY <1>8 DEF DoSubscribe, Doing, Advance, history
  <2> QED
    BY <1>1, <1>2, <1>3, <1>4, <2>1, OwingSteps DEF SubStep
<1>9. CASE DoExtend(p) \/ DoFindExpired(p)
  <2>1. /\ w.do \in {"extend", "findExpired"} /\ credit' = credit /\ payments' = payments
        /\ disturbed' = disturbed /\ \E more : Then(p, more)
    BY <1>9 DEF DoExtend, DoFindExpired, Doing, history
  <2>2. p \notin Handlers
    BY <1>0, <2>1, RequestHeads
  <2> QED
    BY <1>1, <1>2, <2>1, <2>2
<1>10. CASE DoCharge(p)
  <2>1. /\ w.do = "charge" /\ credit' = credit /\ disturbed' = disturbed
        /\ Then(p, << >>) \/ Then(p, <<Call(w, Len(payments) + 1)>>)
    BY <1>10 DEF DoCharge, Doing, Advance, history
  <2>2. PaidForCredits' = PaidForCredits
    BY <1>10, PaidAfterCharge
  <2> QED
    BY <1>1, <1>3, <1>4, <2>1, <2>2, OwingSteps DEF SubStep
<1>11. CASE DoRecord(p)
  <2>1. /\ w.do = "record" /\ credit' = credit /\ disturbed' = disturbed
        /\ Then(p, IF w.answer = "success" THEN w.call.charge.yes ELSE w.call.charge.no)
    BY <1>11 DEF DoRecord, Doing, history
  <2>2. PaidForCredits' = PaidForCredits
    BY <1>11, PaidAfterRecord
  <2>3. p \in Handlers => w.call.charge \in {PayForPlan, PayForCredits}
    BY <1>0, <2>1, RequestHeads
  <2>4. Owes(job[p]) <=> w.call.charge = PayForCredits /\ w.answer = "success"
    BY <1>0, <2>1, TwoPurchases DEF Owes
  <2> DEFINE more == IF w.answer = "success" THEN w.call.charge.yes ELSE w.call.charge.no
  <2>5. ASSUME p \in Handlers
        PROVE  Owes(more \o Tail(job[p])) <=> Owes(job[p])
    <3>1. \/ more = << >> /\ w.answer # "success"
          \/ more = <<Subscribe>> /\ w.call.charge = PayForPlan
          \/ more = <<AddCredits>> /\ w.call.charge = PayForCredits /\ w.answer = "success"
      BY <2>3, <2>5, TwoPurchases
    <3>2. Owes(more) <=> w.call.charge = PayForCredits /\ w.answer = "success"
      BY <3>1, TwoPurchases, OwingSteps
    <3> HIDE DEF more
    <3>3. more \o Tail(job[p]) = more
      BY <1>3, <2>1, <2>5, <3>1 DEF SubStep
    <3> QED
      BY <2>4, <3>2, <3>3
  <2> QED
    BY <1>1, <2>1, <2>2, <2>5
<1>12. CASE DoAddCredits(p)
  <2> DEFINE row == [credit EXCEPT !.balance = @ + Pack, !.totalPurchased = @ + Pack]
  <2>1. /\ w.do = "addCredits" /\ Then(p, <<SaveCredit(row, credit)>>)
        /\ credit' = credit /\ payments' = payments /\ disturbed' = disturbed
    BY <1>12 DEF DoAddCredits, Doing, history
  <2>2. row.totalPurchased # credit.totalPurchased
    <3>1. credit \in UserCredit /\ Pack \in Nat \ {0}
      BY BillingAssumption DEF Inductive, Typed, Credits
    <3> QED
      BY <3>1 DEF UserCredit
  <2> HIDE DEF row
  <2>3. Owes(<<SaveCredit(row, credit)>>)
    BY <2>2, OwingSteps
  <2>4. Owes(job[p])
    BY <1>0, <2>1, NextStep, Kinds DEF Owes
  <2> QED
    BY <1>1, <1>2, <1>3, <2>1, <2>3, <2>4 DEF SubStep
<1> QED
  BY <1>5, <1>8, <1>9, <1>10, <1>11, <1>12, <1>6, <1>7, CallSums, UpdateCreditSums DEF Step

LEMMA NextSums ==
  ASSUME Inductive, RequestsShaped, PaymentsInHand, PurchasesAddUp, [Next]_vars
  PROVE  PurchasesAddUp'
<1>1. ASSUME NEW h \in Handlers, Request(h) PROVE PurchasesAddUp'
  BY <1>1, RequestSums
<1>2. ASSUME NEW k \in Crons, ProcessRenewals(k) PROVE PurchasesAddUp'
  <2>1. \E l : Begin(k, l)
    BY <1>2 DEF ProcessRenewals
  <2>2. PICK l : Begin(k, l)
    BY <2>1
  <2>3. /\ job' = [job EXCEPT ![k] = l] /\ k \in Processes /\ k \notin Handlers
        /\ PaidForCredits' = PaidForCredits /\ credit' = credit /\ disturbed' = disturbed
    BY <2>2, BillingAssumption DEF Begin, PaidForCredits, Processes
  <2> QED
    BY <2>3, SameSums
<1>3. ASSUME NEW p \in Processes, Step(p) PROVE PurchasesAddUp'
  BY <1>3, StepSums
<1>4. ASSUME NEW p \in Processes, Break(p) PROVE PurchasesAddUp'
  <2>1. job' = [job EXCEPT ![p] = << >>] /\ disturbed'
    BY <1>4 DEF Break, Disturb
  <2> QED
    BY <2>1, OwedAfter DEF PurchasesAddUp
<1>5. ASSUME NEW k \in Crons, Skip(k) PROVE PurchasesAddUp'
  <2>1. /\ job' = [job EXCEPT ![k] = Tail(job[k])] /\ k \in Processes /\ k \notin Handlers
        /\ PaidForCredits' = PaidForCredits /\ credit' = credit /\ disturbed' = disturbed
    BY <1>5, BillingAssumption DEF Skip, PaidForCredits, Processes, history
  <2> QED
    BY <2>1, SameSums
<1>6. ASSUME job' = job, payments' = payments, credit' = credit, disturbed' = disturbed
      PROVE  PurchasesAddUp'
  BY <1>6 DEF PurchasesAddUp, Owed, Owes, PaidForCredits
<1>7. (\E s \in DOMAIN subs : Elapse(s)) \/ DeleteCard \/ RegisterCard \/ UNCHANGED vars
        => job' = job /\ payments' = payments /\ credit' = credit /\ disturbed' = disturbed
  BY DEF Elapse, DeleteCard, RegisterCard, CardIs, vars, history
<1> QED
  BY <1>1, <1>2, <1>3, <1>4, <1>6, <1>7, <1>5 DEF Next

-----------------------------------------------------------------------------
(* Rows of credits add up until columns of two of them are mixed.          *)

CreditsAre(l) == l # << >> => (Head(l).do \in {"saveCredit", "updateCredit"} => Adds(Head(l).row))

(* One list changes, and the credits do not. *)
LEMMA RowsIfList ==
  ASSUME Inductive, RowsAddUp, NEW p \in Processes, NEW l, job' = [job EXCEPT ![p] = l],
         credit' = credit, used' = used, mixed' = mixed, disturbed => disturbed',
         p \in Handlers => mixed \/ CreditsAre(l)
  PROVE  RowsAddUp'
<1>1. job'[p] = l /\ \A q \in Processes : q # p => job'[q] = job[q]
  BY OneList
<1>2. ASSUME ~mixed, NEW h \in Handlers, job'[h] # << >>,
             Head(job'[h]).do \in {"saveCredit", "updateCredit"}
      PROVE  Adds(Head(job'[h]).row)
  <2>1. CASE h = p
    BY <1>1, <1>2, <2>1 DEF CreditsAre
  <2>2. CASE h # p
    <3>1. job'[h] = job[h]
      BY <1>1, <2>2 DEF Processes
    <3> QED
      BY <1>2, <3>1 DEF RowsAddUp
  <2> QED
    BY <2>1, <2>2
<1> QED
  BY <1>2 DEF RowsAddUp, Adds

(* Rows made of rows that add up. *)
LEMMA MadeRows ==
  ASSUME credit \in UserCredit, Adds(credit)
  PROVE  /\ \A n \in Int : Adds(Used(n))
         /\ Adds([credit EXCEPT !.balance = @ + Pack, !.totalPurchased = @ + Pack])
<1>1. ASSUME NEW n \in Int PROVE Adds(Used(n))
  <2>1. Used(n).balance = credit.balance - n /\ Used(n).totalUsed = credit.totalUsed + n
        /\ Used(n).totalPurchased = credit.totalPurchased
    BY DEF Used, UserCredit
  <2> QED
    BY <2>1 DEF Adds, UserCredit
<1>2. Adds([credit EXCEPT !.balance = @ + Pack, !.totalPurchased = @ + Pack])
  BY BillingAssumption DEF Adds, UserCredit
<1> QED
  BY <1>1, <1>2

LEMMA RequestRows ==
  ASSUME Inductive, RowsAddUp, NEW h \in Handlers, Request(h)
  PROVE  RowsAddUp'
<1>1. ASSUME NEW l, Begin(h, l), mixed \/ CreditsAre(l)
      PROVE  RowsAddUp'
  BY <1>1, RowsIfList DEF Begin, Processes
<1>2. CASE Purchase(h)
  <2>1. CreditsAre(<<PayForPlan>>)
    BY OneStep, TwoPurchases DEF CreditsAre
  <2>2. \A s, row, was : CreditsAre(<<SaveSub(s, row, was), PayForPlan>>)
    <3>1. \A s, row, was : SaveSub(s, row, was).do = "saveSub"
      BY DEF SaveSub
    <3> QED
      BY <3>1, OneStep DEF CreditsAre
  <2> QED
    BY <1>1, <1>2, <2>1, <2>2 DEF Purchase
<1>3. CASE CancelSubscription(h)
  <2>1. \A s, row, was : CreditsAre(<<SaveSub(s, row, was)>>)
    <3>1. \A s, row, was : SaveSub(s, row, was).do = "saveSub"
      BY DEF SaveSub
    <3> QED
      BY <3>1, OneStep DEF CreditsAre
  <2> QED
    BY <1>1, <1>3, <2>1 DEF CancelSubscription
<1>4. CASE BuyCredits(h)
  <2>1. CreditsAre(<<PayForCredits>>)
    BY OneStep, TwoPurchases DEF CreditsAre
  <2> QED
    BY <1>1, <1>4, <2>1 DEF BuyCredits, PayForCredits
<1>5. CASE Deduct(h) \/ Refund(h)
  <2>1. ASSUME NEW n \in Int PROVE mixed \/ CreditsAre(<<SaveCredit(Used(n), credit)>>)
    <3>1. mixed \/ Adds(Used(n))
      BY MadeRows DEF RowsAddUp, Inductive, Typed, Credits
    <3>2. SaveCredit(Used(n), credit).row = Used(n)
      BY DEF SaveCredit
    <3> QED
      BY <3>1, <3>2, OneStep DEF CreditsAre
  <2>2. Invoice \in Int /\ -Invoice \in Int
    BY BillingAssumption
  <2> QED
    BY <1>1, <1>5, <2>1, <2>2 DEF Deduct, Refund
<1> QED
  BY <1>2, <1>3, <1>4, <1>5 DEF Request

(* What a save stores unmixed adds up, and counts what it deducted. *)
LEMMA UpdateCreditRows ==
  ASSUME Inductive, RequestsShaped, RowsAddUp, NEW p \in Processes, DoUpdateCredit(p)
  PROVE  RowsAddUp'
<1>0. PICK w : w = Head(job[p])
  OBVIOUS
<1>1. /\ job[p] # << >> /\ w.do = "updateCredit"
      /\ credit' = UpdatedCredit(w)
      /\ used' = used + (w.row.totalUsed - w.was.totalUsed)
      /\ mixed' = (mixed \/ credit' # w.row)
      /\ Disturb(credit # w.was \/ credit' # w.row)
      /\ job' = [job EXCEPT ![p] = << >> \o Tail(job[p])]
  BY <1>0 DEF DoUpdateCredit, Doing, Advance, Then
<1>2. p \in Handlers /\ w \in CreditUpdates
  BY <1>0, <1>1, NextStep, Kinds
<1>3. << >> \o Tail(job[p]) = << >>
  BY <1>0, <1>1, <1>2, RequestHeads, NothingMore DEF SubStep
<1>4. job'[p] = << >> /\ \A q \in Processes : q # p => job'[q] = job[q]
  BY <1>1, <1>3, OneList
<1>5. w.row.totalUsed \in Int /\ w.was.totalUsed \in Int /\ used \in Int
  BY <1>2 DEF CreditUpdates, Credits, UserCredit, RowsAddUp
<1>6. used' \in Int /\ mixed' \in BOOLEAN
  BY <1>1, <1>5 DEF RowsAddUp
<1>7. ASSUME ~disturbed' PROVE credit'.totalUsed = used'
  <2>1. ~disturbed /\ credit = w.was /\ credit' = w.row
    BY <1>1, <1>7 DEF Disturb
  <2>2. used = w.was.totalUsed
    BY <2>1 DEF RowsAddUp
  <2>3. used' = w.row.totalUsed
    BY <1>1, <1>5, <2>2
  <2> QED
    BY <2>1, <2>3
<1>8. ASSUME ~mixed' PROVE ~mixed /\ credit' = w.row /\ Adds(w.row)
  BY <1>0, <1>1, <1>2, <1>8 DEF RowsAddUp
<1>9. ASSUME ~mixed', NEW h \in Handlers, job'[h] # << >>,
             Head(job'[h]).do \in {"saveCredit", "updateCredit"}
      PROVE  Adds(Head(job'[h]).row)
  <2>1. job'[h] = job[h]
    BY <1>4, <1>9 DEF Processes
  <2> QED
    BY <1>8, <1>9, <2>1 DEF RowsAddUp
<1>10. Adds(credit)' <=> Adds(credit')
  BY DEF Adds
<1> QED
  BY <1>6, <1>7, <1>8, <1>9, <1>10 DEF RowsAddUp, Adds

LEMMA StepRows ==
  ASSUME Inductive, RequestsShaped, RowsAddUp, NEW p \in Processes, Step(p)
  PROVE  RowsAddUp'
<1>0. PICK w : w = Head(job[p])
  OBVIOUS
<1>1. job[p] # << >>
  BY DEF Step, Doing, DoSaveSub, DoUpdateSub, DoSubscribe, DoExtend, DoFindExpired, DoCharge, DoCall,
         DoRecord, DoAddCredits, DoSaveCredit, DoUpdateCredit
<1>2. ASSUME NEW more, Then(p, more), credit' = credit, used' = used, mixed' = mixed,
             disturbed => disturbed', p \in Handlers => mixed \/ CreditsAre(more \o Tail(job[p]))
      PROVE  RowsAddUp'
  BY <1>2, RowsIfList DEF Then
<1>3. ASSUME NEW v, mixed \/ (v.do \in {"saveCredit", "updateCredit"} => Adds(v.row))
      PROVE  mixed \/ CreditsAre(<<v>> \o Tail(job[p]))
  BY <1>1, <1>3, OneMore DEF CreditsAre
<1>4. p \in Handlers => CreditsAre(<< >> \o Tail(job[p]))
  <2>1. p \in Handlers => Tail(job[p]) = << >> \/ Tail(job[p]) = <<PayForPlan>>
    BY <1>1, RequestHeads
  <2>2. << >> \o Tail(job[p]) = Tail(job[p])
    BY <1>1, NothingMore
  <2>3. CreditsAre(<< >>) /\ CreditsAre(<<PayForPlan>>)
    BY OneStep, TwoPurchases DEF CreditsAre
  <2> QED
    BY <2>1, <2>2, <2>3
<1>5. CASE DoUpdateSub(p) \/ DoSubscribe(p)
  <2>1. /\ Then(p, << >>) /\ credit' = credit /\ used' = used /\ mixed' = mixed
        /\ disturbed' = disturbed
    BY <1>5 DEF DoUpdateSub, DoSubscribe, Advance, history
  <2> QED
    BY <1>2, <1>4, <2>1
<1>6. CASE DoSaveSub(p)
  <2>1. /\ Then(p, <<UpdateSub(w.s, w.row, w.was, subs[w.s])>>) /\ credit' = credit
        /\ used' = used /\ mixed' = mixed /\ disturbed' = disturbed
    BY <1>0, <1>6 DEF DoSaveSub, history
  <2>2. UpdateSub(w.s, w.row, w.was, subs[w.s]).do = "updateSub"
    BY DEF UpdateSub
  <2> QED
    BY <1>2, <1>3, <2>1, <2>2
<1>7. CASE DoExtend(p) \/ DoFindExpired(p)
  <2>1. /\ w.do \in {"extend", "findExpired"} /\ credit' = credit /\ used' = used
        /\ mixed' = mixed /\ disturbed' = disturbed /\ \E more : Then(p, more)
    BY <1>0, <1>7 DEF DoExtend, DoFindExpired, Doing, history
  <2>2. p \notin Handlers
    BY <1>0, <1>1, <2>1, RequestHeads
  <2> QED
    BY <1>2, <2>1, <2>2
<1>8. CASE DoCharge(p)
  <2>1. /\ Then(p, << >>) \/ Then(p, <<Call(w, Len(payments) + 1)>>)
        /\ credit' = credit /\ used' = used /\ mixed' = mixed /\ disturbed' = disturbed
    BY <1>0, <1>8 DEF DoCharge, Advance, history
  <2>2. Call(w, Len(payments) + 1).do = "call"
    BY DEF Call
  <2> QED
    BY <1>2, <1>3, <1>4, <2>1, <2>2
<1>9. CASE DoCall(p)
  <2>1. /\ \E answer : Then(p, <<Record(w, answer)>>)
        /\ credit' = credit /\ used' = used /\ mixed' = mixed /\ (disturbed => disturbed')
    BY <1>0, <1>9 DEF DoCall, Disturb
  <2>2. \A answer : Record(w, answer).do = "record"
    BY DEF Record
  <2> QED
    BY <1>2, <1>3, <2>1, <2>2
<1>10. CASE DoRecord(p)
  <2>1. /\ w.do = "record" /\ credit' = credit /\ used' = used /\ mixed' = mixed
        /\ disturbed' = disturbed
        /\ Then(p, IF w.answer = "success" THEN w.call.charge.yes ELSE w.call.charge.no)
    BY <1>0, <1>10 DEF DoRecord, Doing, history
  <2>2. p \in Handlers => w.call.charge \in {PayForPlan, PayForCredits}
    BY <1>0, <1>1, <2>1, RequestHeads
  <2>3. p \in Handlers => \/ Then(p, << >>) \/ Then(p, <<Subscribe>>) \/ Then(p, <<AddCredits>>)
    BY <2>1, <2>2, TwoPurchases
  <2>4. CASE p \in Handlers
    BY <1>2, <1>3, <1>4, <2>1, <2>3, <2>4, TwoPurchases
  <2>5. CASE p \notin Handlers
    BY <1>2, <2>1, <2>5
  <2> QED
    BY <2>4, <2>5
<1>11. CASE DoAddCredits(p)
  <2> DEFINE row == [credit EXCEPT !.balance = @ + Pack, !.totalPurchased = @ + Pack]
  <2>1. /\ Then(p, <<SaveCredit(row, credit)>>) /\ credit' = credit /\ used' = used
        /\ mixed' = mixed /\ disturbed' = disturbed
    BY <1>11 DEF DoAddCredits, history
  <2>2. mixed \/ Adds(row)
    BY MadeRows DEF RowsAddUp, Inductive, Typed, Credits
  <2> HIDE DEF row
  <2>3. SaveCredit(row, credit).row = row
    BY DEF SaveCredit
  <2> QED
    BY <1>2, <1>3, <2>1, <2>2, <2>3
<1>12. CASE DoSaveCredit(p)
  <2>1. /\ w.do = "saveCredit" /\ credit' = credit /\ used' = used
        /\ mixed' = mixed /\ disturbed' = disturbed
        /\ Then(p, <<UpdateCredit(w.row, w.was, credit)>>)
    BY <1>0, <1>12 DEF DoSaveCredit, Doing, history
  <2>2. p \in Handlers
    BY <1>0, <1>1, <2>1, NextStep, Kinds
  <2>3. mixed \/ Adds(w.row)
    BY <1>0, <1>1, <2>1, <2>2 DEF RowsAddUp
  <2>4. UpdateCredit(w.row, w.was, credit).row = w.row
    BY DEF UpdateCredit
  <2> QED
    BY <1>2, <1>3, <2>1, <2>3, <2>4
<1> QED
  BY <1>5, <1>6, <1>7, <1>8, <1>9, <1>10, <1>11, <1>12, UpdateCreditRows DEF Step

LEMMA NextRows ==
  ASSUME Inductive, RequestsShaped, RowsAddUp, [Next]_vars
  PROVE  RowsAddUp'
<1>1. ASSUME NEW h \in Handlers, Request(h) PROVE RowsAddUp'
  BY <1>1, RequestRows
<1>2. ASSUME NEW k \in Crons, NEW l, job' = [job EXCEPT ![k] = l], credit' = credit,
             used' = used, mixed' = mixed, disturbed' = disturbed
      PROVE  RowsAddUp'
  BY <1>2, RowsIfList, BillingAssumption DEF Processes
<1>3. ASSUME NEW k \in Crons, ProcessRenewals(k) PROVE RowsAddUp'
  <2>1. \E l : Begin(k, l)
    BY <1>3 DEF ProcessRenewals
  <2> QED
    BY <1>2, <2>1 DEF Begin
<1>4. ASSUME NEW k \in Crons, Skip(k) PROVE RowsAddUp'
  BY <1>2, <1>4 DEF Skip, history
<1>5. ASSUME NEW p \in Processes, Step(p) PROVE RowsAddUp'
  BY <1>5, StepRows
<1>6. ASSUME NEW p \in Processes, Break(p) PROVE RowsAddUp'
  BY <1>6, RowsIfList DEF Break, Disturb, CreditsAre
<1>7. ASSUME job' = job, credit' = credit, used' = used, mixed' = mixed, disturbed' = disturbed
      PROVE  RowsAddUp'
  BY <1>7 DEF RowsAddUp, Adds
<1>8. (\E s \in DOMAIN subs : Elapse(s)) \/ DeleteCard \/ RegisterCard \/ UNCHANGED vars
        => job' = job /\ credit' = credit /\ used' = used /\ mixed' = mixed /\ disturbed' = disturbed
  BY DEF Elapse, DeleteCard, RegisterCard, CardIs, vars, history
<1> QED
  BY <1>1, <1>3, <1>4, <1>5, <1>6, <1>7, <1>8 DEF Next

-----------------------------------------------------------------------------
(* Together. *)

InOrder == /\ Inductive /\ Marks /\ RequestsShaped /\ PaymentsInHand
           /\ OneBuyerUnlessRaced /\ PurchasesAddUp /\ RowsAddUp

LEMMA InitInOrder == Init => InOrder
<1> SUFFICES ASSUME Init PROVE InOrder
  OBVIOUS
<1>1. \A p \in Processes : job[p] = << >>
  BY DEF Init
<1>2. Inductive
  BY InitInductive
<1>3. Marks
  <2>1. ops \in 0 .. MaxOps
    BY BillingAssumption DEF Init
  <2> QED
    BY <2>1 DEF Init, Marks
<1>4. RequestsShaped
  BY <1>1, ShapeOfNone DEF RequestsShaped, Processes
<1>5. payments = << >> /\ DOMAIN payments = {}
  BY <1>2, PaymentsAre, EmptySeq DEF Init
<1>6. PaymentsInHand
  BY <1>1, <1>5 DEF PaymentsInHand, InHand
<1>7. OneBuyerUnlessRaced
  <2>1. Active = {}
    BY DEF Init, Active
  <2>2. \A h \in Handlers : ~Buys(job[h])
    BY <1>1 DEF Buys, Processes
  <2> QED
    BY <2>1, <2>2 DEF OneBuyerUnlessRaced, OneBuyer
<1>8. PurchasesAddUp
  <2>1. Owed = {} /\ PaidForCredits = {}
    BY <1>1, <1>5 DEF Owed, Owes, PaidForCredits, Processes
  <2>2. IsFiniteSet({}) /\ Cardinality({}) = 0 /\ credit.totalPurchased = 0
    BY FS_EmptySet DEF Init
  <2>3. 0 + Pack * 0 = Pack * 0
    BY BillingAssumption
  <2> QED
    BY <2>1, <2>2, <2>3 DEF PurchasesAddUp
<1>9. RowsAddUp
  <2>1. Adds(credit) /\ credit.totalUsed = 0
    BY DEF Init, Adds
  <2>2. used = 0 /\ used \in Int
    BY DEF Init
  <2>3. mixed = FALSE
    BY DEF Init
  <2>4. mixed \in BOOLEAN
    BY <2>3
  <2>5. \A h \in Handlers : job[h] = << >>
    BY <1>1 DEF Processes
  <2> QED
    BY <2>1, <2>2, <2>4, <2>5 DEF RowsAddUp
<1> QED
  BY <1>2, <1>3, <1>4, <1>6, <1>7, <1>8, <1>9 DEF InOrder

LEMMA NextInOrder == InOrder /\ [Next]_vars => InOrder'
<1> SUFFICES ASSUME InOrder, [Next]_vars PROVE InOrder'
  OBVIOUS
<1>1. /\ Inductive /\ Marks /\ RequestsShaped /\ PaymentsInHand
      /\ OneBuyerUnlessRaced /\ PurchasesAddUp /\ RowsAddUp
  BY DEF InOrder
<1>2. Inductive'
  BY <1>1, NextInductive
<1>3. Marks' /\ RequestsShaped'
  BY <1>1, NextMarks, NextShaped
<1>4. PaymentsInHand' /\ OneBuyerUnlessRaced'
  BY <1>1, NextHands, NextBuyer
<1>5. PurchasesAddUp' /\ RowsAddUp'
  BY <1>1, NextSums, NextRows
<1> QED
  BY <1>2, <1>3, <1>4, <1>5 DEF InOrder

(* When no operation is under way nothing is owed. *)
LEMMA SumsWhenQuiet ==
  ASSUME InOrder
  PROVE  CreditsExplained
<1>1. /\ mixed \/ credit.balance = credit.totalPurchased - credit.totalUsed
      /\ disturbed \/ credit.totalUsed = used
      /\ credit.balance >= 0 /\ credit.totalPurchased \in Int
  BY DEF InOrder, Inductive, Typed, Credits, UserCredit, RowsAddUp, Adds
<1>2. ASSUME Quiet, ~disturbed
      PROVE  credit.totalPurchased = Pack * Cardinality(PaidForCredits)
  <2>1. Owed = {}
    BY <1>2 DEF Quiet, Owed, Owes, Processes
  <2>2. Cardinality(Owed) = 0
    BY <2>1, FS_EmptySet
  <2>3. credit.totalPurchased + Pack * Cardinality(Owed) = Pack * Cardinality(PaidForCredits)
    BY <1>2 DEF InOrder, PurchasesAddUp
  <2>4. Pack * 0 = 0 /\ Pack * Cardinality(PaidForCredits) \in Int
    <3>1. Cardinality(PaidForCredits) \in Nat
      BY PaidIsFinite DEF InOrder
    <3> QED
      BY <3>1, BillingAssumption
  <2> QED
    BY <1>1, <2>2, <2>3, <2>4
<1> QED
  BY <1>1, <1>2 DEF CreditsExplained, PaidForCredits

LEMMA TypesInOrder ==
  ASSUME InOrder
  PROVE  TypeOK
<1>1. Typed /\ Marks /\ PaymentsInHand /\ LimitKept /\ RowsAddUp
  BY DEF InOrder, Inductive
<1>2. /\ subs \in Seq(Rows(Len(periods))) /\ DOMAIN periods = 1 .. Len(periods)
      /\ DOMAIN subs = 1 .. Len(subs)
  BY <1>1, LenProperties DEF Typed
<1>3. Rows(Len(periods)) \subseteq Subscription
  BY DEF Rows
<1>4. subs \in Seq(Subscription)
  BY <1>2, <1>3, SeqGrows
<1>5. \A s \in DOMAIN subs : subs[s] \in Rows(Len(periods))
  BY <1>2, ElementOfSeq
<1>6. \A s \in DOMAIN subs : subs[s].period \in DOMAIN periods
  BY <1>2, <1>5 DEF Rows
<1>7. \A s \in DOMAIN subs \ overwritten : subs[s].status = "active" => subs[s].fails < MaxFails
  BY <1>1, <1>2 DEF LimitKept, Sound
<1>8. credit \in UserCredit
  BY <1>1 DEF Typed, Credits
<1> QED
  BY <1>1, <1>2, <1>4, <1>6, <1>7, <1>8 DEF TypeOK, Typed, Marks, PaymentsInHand, RowsAddUp

-----------------------------------------------------------------------------
(* Theorems. *)

(* Whatever requests and replicas of the job overlap, every save that is   *)
(* still to come, those behind a charge included, makes a row that is to   *)
(* be renewed only out of one that was.                                    *)
THEOREM InductiveInvariant == Spec => []Inductive
BY InitInductive, NextInductive, PTL DEF Spec

(* cancelSubscription, and the purchase that replaces a subscription, are  *)
(* undone by nothing but a save of a row that had changed since it was     *)
(* read: for any number of subscriptions, requests and replicas.           *)
THEOREM CancellationStands == Spec => []CancelledStaysCancelled
<1>1. Inductive => CancelledStaysCancelled
  BY DEF Inductive
<1> QED
  BY <1>1, InductiveInvariant, PTL

(* Whatever overlaps, each request's list is one of the few the code       *)
(* makes, a payment is in the hands of one process until its answer is     *)
(* recorded, and who buys is alone, unless two purchases overlapped or a   *)
(* stale row was saved.                                                    *)
THEOREM RequestsInOrder == Spec => []InOrder
BY InitInOrder, NextInOrder, PTL DEF Spec

(* Billing keeps its types: no active row that no stale save fell on has   *)
(* failed as often as leads to the grace period, and every payment that is *)
(* recorded as a success was charged.                                      *)
THEOREM TypeCorrect == Spec => []TypeOK
BY TypesInOrder, RequestsInOrder, PTL

(* purchaseSubscription cancels before it charges: a user has at most one  *)
(* active subscription, for any number of requests and replicas of the     *)
(* job, unless two purchases overlapped or a save fell on a changed row.   *)
THEOREM OneIsCharged == Spec => []OneActiveSubscription
<1>1. InOrder => OneActiveSubscription
  BY OneIsEnough DEF InOrder
<1> QED
  BY <1>1, RequestsInOrder, PTL

(* UserCredit: the balance is never negative, whatever saves overlap; it   *)
(* is what was bought less what was used until a save has stored columns   *)
(* of two rows; and unless a save fell on a changed row, an answer was     *)
(* lost or an operation broke, what was used is what was deducted and,     *)
(* with no operation under way, what was bought is what was charged for.   *)
THEOREM CreditsAddUp == Spec => []CreditsExplained
BY SumsWhenQuiet, RequestsInOrder, PTL
=============================================================================
