-------------------------- MODULE LoadBookingProofs --------------------------
(***************************************************************************)
(* Theorems about LoadBooking, for every set of carriers, bids and         *)
(* concurrent handlers.                                                    *)
(*                                                                         *)
(* Whatever a handler does, it takes up a list of writes and then makes    *)
(* them one by one, so an invariant has two parts: what is true of the     *)
(* rows, and what is right about the writes that are left.  The first      *)
(* section says what that is; Taken says it of a list that is taken up.    *)
(***************************************************************************)
EXTENDS LoadBooking, TLAPS, FiniteSetTheorems

-----------------------------------------------------------------------------
(* The strengthening. *)

Index(todo) == 1 .. Len(todo)

(* A saved row names a reservation that was granted. *)
RowKnown(w, granted) == w.do = "saveLoad" => w.row.reservation \in 0 .. granted

(* What write w chooses, and what must be chosen before it is made.        *)
Chooses(w, k) ==
  \/ w.do = "saveBid" /\ w.status = "ACCEPTED" /\ k \in {w.b, BidOf[w.b]}
  \/ w.do = "book" /\ k = w.c

Needs(w, k) ==
  \/ w.do = "saveLoad" /\ w.row.status = "YOLDA" /\ k = w.row.receiver /\ (k # w.by \/ k = Nobody)
  \/ w.do = "fund" /\ k = w.key

ChoiceFirst(todo, choice) ==
  \A i \in Index(todo) : \A k :
    Needs(todo[i], k) => k \in choice \/ \E j \in 1 .. i - 1 : Chooses(todo[j], k)

(* No write is from a later version, and a reservation that would succeed  *)
(* now is one that nobody else counts on.                                  *)
VersionRight(w, version, counted, owners) ==
  /\ w.do = "saveLoad" => w.row.version <= version
  /\ w.do = "reserve" => /\ w.version <= version
                         /\ w.version = version => \A r \in counted : owners[r] = w.c

(* An acceptance stores the bid first and rejects the others later, and is *)
(* not given up in between.  `settled`: nothing excuses a second one.      *)
Rejecting(todo) == \E i \in Index(todo) : todo[i] = RejectOthers
Accepts(w) == w.do = "saveBid" /\ w.status = "ACCEPTED"

AcceptShape(todo, settled) ==
  /\ \A i \in Index(todo) :
       todo[i].do = "saveBid" =>
         /\ i = 1
         /\ todo[i].status # "PENDING"
         /\ todo[i].status = "COUNTERED" => ~settled
         /\ todo[i].status = "ACCEPTED" => Rejecting(todo)
  /\ Rejecting(todo) => \A i \in Index(todo) : todo[i].do \notin {"book", "reserve"}

-----------------------------------------------------------------------------

Counted == {r \in believed : Live(r)}

JobsKnown == \A h \in Handlers : \A i \in Index(job[h]) : RowKnown(job[h][i], Len(owner))

JobsChoose == \A h \in Handlers : ChoiceFirst(job[h], chosen)

TakesWithinOpenings ==
  instantTakes + (IF load.status = "BEKLEMEDE" THEN 1 ELSE 0) <= openings

Versioned ==
  ~wiped =>
    /\ \A r \in Counted : r = load.reservation
    /\ \A h \in Handlers : \A i \in Index(job[h]) :
         VersionRight(job[h][i], load.version, Counted, owner)

JobsAccept == \A h \in Handlers : AcceptShape(job[h], unsettled = {})

IsAccepted(b) == bid[b] = "ACCEPTED"

Settled ==
  unsettled = {} =>
    /\ \A g, h \in Handlers : Rejecting(job[g]) /\ Rejecting(job[h]) => g = h
    /\ \A b \in Bids : bid[b] # "COUNTERED"
    /\ \A b, x \in Bids : IsAccepted(b) /\ IsAccepted(x) => b = x
    /\ \A h \in Handlers : job[h] # << >> /\ Accepts(job[h][1]) => \A b \in Bids : ~IsAccepted(b)
    /\ (\E b \in Bids : IsAccepted(b)) /\ (\A h \in Handlers : ~Rejecting(job[h])) =>
         \A b \in Bids : bid[b] # "PENDING"

Inductive ==
  /\ TypeOK
  /\ JobsKnown
  /\ JobsChoose /\ UnderWayToChosen
  /\ TakesWithinOpenings
  /\ Versioned
  /\ JobsAccept /\ Settled

-----------------------------------------------------------------------------
(* The list that a handler takes up, and what is right about it. *)

TodoRight(todo) ==
  /\ todo \in Seq(Writes) /\ todo # << >>
  /\ \A i \in Index(todo) : RowKnown(todo[i], Len(owner))
  /\ ChoiceFirst(todo, chosen)
  /\ ~wiped => \A i \in Index(todo) : VersionRight(todo[i], load.version, Counted, owner)

Taken(h, todo) ==
  /\ Take(h, todo)
  /\ TodoRight(todo)
  /\ believed' \subseteq believed
  /\ unsettled' \in SUBSET {"late", "raced", "countered", "broken"} /\ unsettled \subseteq unsettled'
  /\ AcceptShape(todo, unsettled' = {})
  /\ Rejecting(todo) /\ (\E g \in Handlers : Rejecting(job[g])) => unsettled' # {}
  /\ Accepts(todo[1]) => bid[todo[1].b] \in {"PENDING", "COUNTERED"}

(* What holds of a single write. *)
LEMMA SingleRight ==
  ASSUME NEW w \in Writes, RowKnown(w, Len(owner)), \A k : Needs(w, k) => k \in chosen,
         ~wiped => VersionRight(w, load.version, Counted, owner)
  PROVE  TodoRight(<<w>>)
<1>1. <<w>> \in Seq(Writes) /\ <<w>> # << >> /\ Len(<<w>>) = 1 /\ <<w>>[1] = w
  OBVIOUS
<1>2. Index(<<w>>) = {1}
  BY <1>1 DEF Index
<1> QED
  BY <1>1, <1>2 DEF TodoRight, ChoiceFirst

LEMMA SingleTaken ==
  ASSUME TypeOK, NEW h \in Handlers, NEW w \in Writes, TodoRight(<<w>>), Take(h, <<w>>),
         believed' \subseteq believed,
         unsettled' \in SUBSET {"late", "raced", "countered", "broken"}, unsettled \subseteq unsettled',
         w.do # "rejectOthers",
         w.do = "saveBid" => /\ w.status \notin {"PENDING", "ACCEPTED"}
                             /\ w.status = "COUNTERED" => unsettled' # {}
  PROVE  Taken(h, <<w>>)
<1>1. Len(<<w>>) = 1 /\ <<w>>[1] = w /\ Index(<<w>>) = {1}
  BY DEF Index
<1>2. ~Rejecting(<<w>>)
  BY <1>1 DEF Rejecting, RejectOthers
<1>3. AcceptShape(<<w>>, unsettled' = {})
  BY <1>1, <1>2 DEF AcceptShape
<1> QED
  BY <1>1, <1>2, <1>3 DEF Taken, Accepts

(* A list of the acceptance of bid b: stored first, the others rejected    *)
(* later, and whatever comes between or after needs the choice of b.       *)
LEMMA AcceptanceTaken ==
  ASSUME TypeOK, NEW h \in Handlers, NEW b \in Bids, NEW todo \in Seq(Writes), Take(h, todo),
         Len(todo) >= 1, todo[1] = SaveBid(b, "ACCEPTED"),
         \A i \in Index(todo) : i # 1 => todo[i].do \in {"saveLoad", "rejectOthers", "fund"},
         Rejecting(todo),
         \A i \in Index(todo) : RowKnown(todo[i], Len(owner)),
         \A i \in Index(todo) : \A k : Needs(todo[i], k) => k \in {b, BidOf[b]},
         \A i \in Index(todo) : todo[i].do = "saveLoad" => todo[i].row.version <= load.version,
         bid[b] \in {"PENDING", "COUNTERED"},
         unsettled' \in {unsettled, unsettled \cup {"raced"}}, UNCHANGED believed,
         (\E g \in Handlers : Accepting(g)) => unsettled' # {}
  PROVE  Taken(h, todo)
<1>1. todo[1].do = "saveBid" /\ todo[1].b = b /\ todo[1].status = "ACCEPTED" /\ Accepts(todo[1])
  BY DEF SaveBid, Accepts
<1>2. ChoiceFirst(todo, chosen)
  <2> SUFFICES ASSUME NEW i \in Index(todo), NEW k, Needs(todo[i], k)
               PROVE  \E j \in 1 .. i - 1 : Chooses(todo[j], k)
    BY DEF ChoiceFirst
  <2>1. i # 1 /\ i \in Nat /\ i >= 1
    BY <1>1 DEF Needs, Index
  <2>2. 1 \in 1 .. i - 1
    BY <2>1
  <2>3. Chooses(todo[1], k)
    BY <1>1 DEF Chooses
  <2> QED
    BY <2>2, <2>3
<1>3. \A i \in Index(todo) : VersionRight(todo[i], load.version, Counted, owner)
  BY <1>1 DEF VersionRight
<1>4. AcceptShape(todo, unsettled' = {})
  BY <1>1 DEF AcceptShape
<1>5. unsettled \in SUBSET {"late", "raced", "countered", "broken"}
  BY DEF TypeOK
<1>6. ASSUME NEW g \in Handlers, Rejecting(job[g])
      PROVE  Accepting(g)
  <2>1. job[g] \in Seq(Writes)
    BY DEF TypeOK
  <2> QED
    BY <1>6, <2>1 DEF Rejecting, Accepting, Index
<1>7. (\E g \in Handlers : Rejecting(job[g])) => unsettled' # {}
  BY <1>6
<1>8. todo # << >>
  OBVIOUS
<1> QED
  BY <1>1, <1>2, <1>3, <1>4, <1>5, <1>7, <1>8 DEF Taken, TodoRight

(* A row that is saved with another status or receiver. *)
LEMMA ReadRow ==
  ASSUME TypeOK, NEW s \in LoadStatuses, NEW c \in Carriers \cup {Nobody}
  PROVE  /\ [load EXCEPT !.status = s, !.receiver = c] \in LoadRow
         /\ [load EXCEPT !.status = s, !.receiver = c].status = s
         /\ [load EXCEPT !.status = s, !.receiver = c].receiver = c
         /\ [load EXCEPT !.status = s, !.receiver = c].reservation = load.reservation
         /\ [load EXCEPT !.status = s, !.receiver = c].version = load.version
         /\ [load EXCEPT !.status = s] \in LoadRow
         /\ [load EXCEPT !.status = s].status = s
         /\ [load EXCEPT !.status = s].receiver = load.receiver
         /\ [load EXCEPT !.status = s].reservation = load.reservation
         /\ [load EXCEPT !.status = s].version = load.version
         /\ load.version \in Nat /\ load.reservation \in 0 .. Len(owner)
BY DEF TypeOK, LoadRow

LEMMA AcceptBidTaken ==
  ASSUME Inductive, NEW h \in Handlers, NEW b \in Bids, AcceptBid(h, b)
  PROVE  \E todo : Taken(h, todo)
<1> DEFINE row == [load EXCEPT !.status = "YOLDA", !.receiver = BidOf[b]]
           todo == <<SaveBid(b, "ACCEPTED"), SaveLoad(row, Nobody), RejectOthers, Fund(b)>>
<1>1. BidOf[b] \in Carriers /\ TypeOK
  BY BookingAssumption DEF Inductive
<1>2. /\ row \in LoadRow /\ row.status = "YOLDA" /\ row.receiver = BidOf[b]
      /\ row.reservation \in 0 .. Len(owner) /\ row.version <= load.version
  <2>1. "YOLDA" \in LoadStatuses /\ BidOf[b] \in Carriers \cup {Nobody}
    BY <1>1 DEF LoadStatuses
  <2>2. /\ row \in LoadRow /\ row.status = "YOLDA" /\ row.receiver = BidOf[b]
        /\ row.reservation = load.reservation /\ row.version = load.version
        /\ load.version \in Nat /\ load.reservation \in 0 .. Len(owner)
    BY ZenonT(60), <1>1, <2>1, ReadRow
  <2> QED
    BY <2>2
<1>3. Take(h, todo) /\ bid[b] \in {"PENDING", "COUNTERED"} /\ UNCHANGED believed
      /\ unsettled' \in {unsettled, unsettled \cup {"raced"}}
      /\ ((\E g \in Handlers : Accepting(g)) => unsettled' # {})
  BY DEF AcceptBid, Excuse
<1> HIDE DEF row
<1>4. /\ Len(todo) = 4 /\ todo[1] = SaveBid(b, "ACCEPTED") /\ todo[2] = SaveLoad(row, Nobody)
      /\ todo[3] = RejectOthers /\ todo[4] = Fund(b)
  OBVIOUS
<1>5. todo \in Seq(Writes)
  BY <1>2 DEF Writes, SaveBid, SaveLoad, RejectOthers, Fund, BidStatuses
<1> HIDE DEF todo
<1>6. Index(todo) = {1, 2, 3, 4}
  BY <1>4 DEF Index
<1>7. /\ todo[1].do = "saveBid" /\ todo[3].do = "rejectOthers"
      /\ todo[2].do = "saveLoad" /\ todo[2].row = row /\ todo[2].by = Nobody
      /\ todo[4].do = "fund" /\ todo[4].key = b
  BY <1>4 DEF SaveBid, SaveLoad, RejectOthers, Fund
<1>8. Rejecting(todo)
  BY <1>4, <1>6 DEF Rejecting
<1>9. \A i \in Index(todo) : RowKnown(todo[i], Len(owner))
  BY <1>2, <1>6, <1>7 DEF RowKnown
<1>10. \A i \in Index(todo) : \A k : Needs(todo[i], k) => k \in {b, BidOf[b]}
  BY <1>2, <1>6, <1>7 DEF Needs
<1>11. \A i \in Index(todo) : todo[i].do = "saveLoad" => todo[i].row.version <= load.version
  BY <1>2, <1>6, <1>7
<1>12. \A i \in Index(todo) : i # 1 => todo[i].do \in {"saveLoad", "rejectOthers", "fund"}
  BY <1>6, <1>7
<1>13. Len(todo) >= 1
  BY <1>4
<1> QED
  BY <1>1, <1>3, <1>4, <1>5, <1>8, <1>9, <1>10, <1>11, <1>12, <1>13, AcceptanceTaken

LEMMA AcceptCounterTaken ==
  ASSUME Inductive, NEW h \in Handlers, NEW b \in Bids, AcceptCounter(h, b)
  PROVE  \E todo : Taken(h, todo)
<1> DEFINE todo == <<SaveBid(b, "ACCEPTED"), RejectOthers, Fund(b)>>
<1>1. Take(h, todo) /\ bid[b] \in {"PENDING", "COUNTERED"} /\ UNCHANGED believed /\ TypeOK
      /\ unsettled' \in {unsettled, unsettled \cup {"raced"}}
      /\ ((\E g \in Handlers : Accepting(g)) => unsettled' # {})
  BY DEF AcceptCounter, Inductive, Excuse
<1>2. /\ Len(todo) = 3 /\ todo[1] = SaveBid(b, "ACCEPTED")
      /\ todo[2] = RejectOthers /\ todo[3] = Fund(b)
  OBVIOUS
<1>3. todo \in Seq(Writes)
  BY DEF Writes, SaveBid, RejectOthers, Fund, BidStatuses
<1> HIDE DEF todo
<1>4. Index(todo) = {1, 2, 3}
  BY <1>2 DEF Index
<1>5. /\ todo[1].do = "saveBid" /\ todo[2].do = "rejectOthers"
      /\ todo[3].do = "fund" /\ todo[3].key = b
  BY <1>2 DEF SaveBid, RejectOthers, Fund
<1>6. Rejecting(todo)
  BY <1>2, <1>4 DEF Rejecting
<1>7. /\ \A i \in Index(todo) : RowKnown(todo[i], Len(owner))
      /\ \A i \in Index(todo) : todo[i].do = "saveLoad" => todo[i].row.version <= load.version
      /\ \A i \in Index(todo) : i # 1 => todo[i].do \in {"saveLoad", "rejectOthers", "fund"}
  BY <1>4, <1>5 DEF RowKnown
<1>8. \A i \in Index(todo) : \A k : Needs(todo[i], k) => k \in {b, BidOf[b]}
  BY <1>4, <1>5 DEF Needs
<1>9. Len(todo) >= 1
  BY <1>2
<1> QED
  BY <1>1, <1>2, <1>3, <1>6, <1>7, <1>8, <1>9, AcceptanceTaken

(* instantBook of LoadsService: the conditional update, then the escrow. *)
LEMMA InstantBookTaken ==
  ASSUME Inductive, NEW h \in Handlers, NEW c \in Carriers, InstantBook(h, c)
  PROVE  \E todo : Taken(h, todo)
<1> DEFINE todo == <<Book(c), Fund(c)>>
<1>1. Take(h, todo) /\ UNCHANGED <<believed, unsettled>> /\ TypeOK
  BY DEF InstantBook, Inductive
<1>2. Len(todo) = 2 /\ todo[1] = Book(c) /\ todo[2] = Fund(c) /\ todo # << >>
  OBVIOUS
<1>3. todo \in Seq(Writes)
  BY DEF Writes, Book, Fund
<1> HIDE DEF todo
<1>4. Index(todo) = {1, 2}
  BY <1>2 DEF Index
<1>5. todo[1].do = "book" /\ todo[1].c = c /\ todo[2].do = "fund" /\ todo[2].key = c
  BY <1>2 DEF Book, Fund
<1>6. ChoiceFirst(todo, chosen)
  <2> SUFFICES ASSUME NEW i \in Index(todo), NEW k, Needs(todo[i], k)
               PROVE  \E j \in 1 .. i - 1 : Chooses(todo[j], k)
    BY DEF ChoiceFirst
  <2>1. i = 2 /\ k = c
    BY <1>4, <1>5 DEF Needs
  <2>2. Chooses(todo[1], k) /\ 1 \in 1 .. 2 - 1
    BY <1>5, <2>1 DEF Chooses
  <2> QED
    BY <2>1, <2>2
<1>7. ~Rejecting(todo)
  BY <1>4, <1>5 DEF Rejecting, RejectOthers
<1>8. AcceptShape(todo, unsettled' = {}) /\ ~Accepts(todo[1])
  BY <1>4, <1>5, <1>7 DEF AcceptShape, Accepts
<1>9. TodoRight(todo)
  BY <1>2, <1>3, <1>4, <1>5, <1>6 DEF TodoRight, RowKnown, VersionRight
<1> QED
  BY <1>1, <1>7, <1>8, <1>9 DEF Taken, TypeOK

(* A bid is rejected, countered or withdrawn. *)
LEMMA BidSaveTaken ==
  ASSUME TypeOK, NEW h \in Handlers, NEW b \in Bids, NEW status \in {"REJECTED", "COUNTERED", "EXPIRED"},
         Take(h, <<SaveBid(b, status)>>), UNCHANGED believed,
         unsettled' \in {unsettled, unsettled \cup {"countered"}},
         status = "COUNTERED" => unsettled' # {}
  PROVE  \E todo : Taken(h, todo)
<1> DEFINE w == SaveBid(b, status)
<1>1. w \in Writes
  BY DEF Writes, SaveBid, BidStatuses
<1>2. w.do = "saveBid" /\ w.status = status
  BY DEF SaveBid
<1>3. Take(h, <<w>>)
  OBVIOUS
<1> HIDE DEF w
<1>4. TodoRight(<<w>>)
  BY <1>1, <1>2, SingleRight DEF RowKnown, Needs, VersionRight
<1>5. unsettled' \in SUBSET {"late", "raced", "countered", "broken"} /\ unsettled \subseteq unsettled'
  BY DEF TypeOK
<1> QED
  BY <1>1, <1>2, <1>3, <1>4, <1>5, SingleTaken

(* The load is saved as it was read but for its status and receiver.       *)
LEMMA LoadSaveTaken ==
  ASSUME TypeOK, NEW h \in Handlers, NEW w \in Writes, w.do = "saveLoad",
         w.row.reservation = load.reservation, w.row.version = load.version,
         w.row.status = "YOLDA" => w.row.receiver \in chosen \/ (w.row.receiver = w.by /\ w.by # Nobody),
         Take(h, <<w>>), UNCHANGED <<believed, unsettled>>
  PROVE  \E todo : Taken(h, todo)
<1>1. load.version \in Nat /\ load.reservation \in 0 .. Len(owner)
  BY DEF TypeOK, LoadRow
<1>2. TodoRight(<<w>>)
  BY <1>1, SingleRight DEF RowKnown, Needs, VersionRight
<1> QED
  BY <1>2, SingleTaken DEF TypeOK

LEMMA SaveLoadIsWrite ==
  ASSUME NEW row \in LoadRow, NEW c, c \in Carriers \/ c = Nobody
  PROVE  /\ SaveLoad(row, c) \in Writes /\ SaveLoad(row, c).do = "saveLoad"
         /\ SaveLoad(row, c).row = row /\ SaveLoad(row, c).by = c
BY DEF Writes, SaveLoad

LEMMA ClearTaken ==
  ASSUME TypeOK, NEW h \in Handlers, Take(h, <<Clear>>),
         believed' \subseteq believed, UNCHANGED unsettled
  PROVE  \E todo : Taken(h, todo)
<1>1. Clear \in Writes /\ Clear.do = "clear"
  BY DEF Writes, Clear
<1>2. TodoRight(<<Clear>>)
  BY <1>1, SingleRight DEF RowKnown, Needs, VersionRight
<1> QED
  BY <1>1, <1>2, SingleTaken DEF TypeOK

(* reserveLoad succeeds only for a carrier with whom no other counts on    *)
(* the load at the version that was read.                                  *)
LEMMA ReserveTaken ==
  ASSUME Inductive, NEW h \in Handlers, NEW c \in Carriers, ReserveLoad(h, c)
  PROVE  \E todo : Taken(h, todo)
<1> DEFINE w == Reserve(c, load.version)
<1>1. load.version \in Nat /\ load.reservation \in 0 .. Len(owner) /\ TypeOK
  BY DEF Inductive, TypeOK, LoadRow
<1>2. w \in Writes
  BY <1>1 DEF Writes, Reserve
<1>3. w.do = "reserve" /\ w.c = c /\ w.version = load.version
  BY DEF Reserve
<1>4. /\ Take(h, <<w>>) /\ UNCHANGED <<believed, unsettled>>
      /\ Live(load.reservation) => OwnerOf(load.reservation) = c
  BY DEF ReserveLoad
<1> HIDE DEF w
<1>5. ~wiped => \A r \in Counted : owner[r] = c
  <2> SUFFICES ASSUME ~wiped, NEW r \in Counted
               PROVE  owner[r] = c
    OBVIOUS
  <2>1. r = load.reservation /\ Live(r)
    BY DEF Inductive, Versioned, Counted
  <2> QED
    BY <1>4, <2>1 DEF OwnerOf, Live
<1>6. TodoRight(<<w>>)
  BY <1>1, <1>2, <1>3, <1>5, SingleRight DEF RowKnown, Needs, VersionRight
<1> QED
  BY <1>1, <1>2, <1>3, <1>4, <1>6, SingleTaken DEF TypeOK

(* What the state machine allows never takes an open load on its way. *)
LEMMA ReportedStatus ==
  ASSUME TypeOK, NEW state \in Transitions(ShipmentState(load.status))
  PROVE  LoadStatus(state) \in LoadStatuses /\ (LoadStatus(state) = "YOLDA" => load.status = "YOLDA")
<1>1. load.status \in LoadStatuses
  BY DEF TypeOK, LoadRow
<1> QED
  BY <1>1 DEF Transitions, ShipmentState, LoadStatus, LoadStatuses

LEMMA CallTaken ==
  ASSUME Inductive, NEW h \in Handlers,
         (\E b \in Bids : BidCall(h, b)) \/ LoadCall(h) \/ ReservationCall(h)
  PROVE  \E todo : Taken(h, todo)
<1>0. TypeOK /\ UnderWayToChosen
  BY DEF Inductive
<1>1. ASSUME NEW b \in Bids, RejectBid(h, b) \/ CounterBid(h, b) \/ CancelBid(h, b)
      PROVE  \E todo : Taken(h, todo)
  <2>1. CASE RejectBid(h, b)
    BY <1>0, <2>1, BidSaveTaken DEF RejectBid
  <2>2. CASE CounterBid(h, b)
    BY <1>0, <2>2, BidSaveTaken DEF CounterBid, Excuse
  <2>3. CASE CancelBid(h, b)
    BY <1>0, <2>3, BidSaveTaken DEF CancelBid
  <2> QED
    BY <1>1, <2>1, <2>2, <2>3
<1>2. ASSUME NEW c \in Carriers, AcceptLoad(h, c)
      PROVE  \E todo : Taken(h, todo)
  <2> DEFINE row == [load EXCEPT !.status = "YOLDA", !.receiver = c]
  <2>1. "YOLDA" \in LoadStatuses /\ c # Nobody
    BY BookingAssumption DEF LoadStatuses
  <2>2. /\ row \in LoadRow /\ row.receiver = c
        /\ row.reservation = load.reservation /\ row.version = load.version
    <3>1. c \in Carriers \cup {Nobody}
      OBVIOUS
    <3> QED
      BY ZenonT(60), <1>0, <2>1, <3>1, ReadRow
  <2>3. Take(h, <<SaveLoad(row, c)>>) /\ UNCHANGED <<believed, unsettled>>
    BY <1>2 DEF AcceptLoad
  <2> HIDE DEF row
  <2>4. /\ SaveLoad(row, c) \in Writes /\ SaveLoad(row, c).do = "saveLoad"
        /\ SaveLoad(row, c).row = row /\ SaveLoad(row, c).by = c
    BY <2>2, SaveLoadIsWrite
  <2> QED
    BY <1>0, <2>1, <2>2, <2>3, <2>4, LoadSaveTaken
<1>3. ASSUME NEW s \in LoadStatuses, Take(h, <<SaveLoad([load EXCEPT !.status = s], Nobody)>>),
             UNCHANGED <<believed, unsettled>>, s = "YOLDA" => load.status = "YOLDA"
      PROVE  \E todo : Taken(h, todo)
  <2> DEFINE row == [load EXCEPT !.status = s]
  <2>1. /\ row \in LoadRow /\ row.status = s /\ row.receiver = load.receiver
        /\ row.reservation = load.reservation /\ row.version = load.version
    BY <1>0, ReadRow
  <2>2. Take(h, <<SaveLoad(row, Nobody)>>)
    BY <1>3
  <2> HIDE DEF row
  <2>4. row.status = "YOLDA" => row.receiver \in chosen
    BY <1>0, <1>3, <2>1 DEF UnderWayToChosen
  <2>5. row.reservation = load.reservation /\ row.version = load.version /\ row \in LoadRow
    BY <2>1
  <2> DEFINE w == SaveLoad(row, Nobody)
  <2>6. w \in Writes /\ w.do = "saveLoad" /\ w.row = row
    BY <2>5, SaveLoadIsWrite
  <2>7. Take(h, <<w>>)
    BY <2>2
  <2> HIDE DEF w
  <2>8. w.row.status = "YOLDA" => w.row.receiver \in chosen
    BY <2>4, <2>6
  <2>9. w.row.reservation = load.reservation /\ w.row.version = load.version
    BY <2>5, <2>6
  <2> QED
    BY <1>0, <1>3, <2>6, <2>7, <2>8, <2>9, LoadSaveTaken
<1>4. ASSUME UpdateStatus(h)
      PROVE  \E todo : Taken(h, todo)
  BY <1>0, <1>3, <1>4, ReportedStatus DEF UpdateStatus
<1>5. ASSUME Deliver(h) \/ CancelShipment(h)
      PROVE  \E todo : Taken(h, todo)
  BY <1>3, <1>5 DEF Deliver, CancelShipment, LoadStatuses
<1>6. ASSUME IssuePolicy(h)
      PROVE  \E todo : Taken(h, todo)
  <2>1. load \in LoadRow /\ (load.status = "YOLDA" => load.receiver \in chosen)
    BY <1>0 DEF TypeOK, UnderWayToChosen
  <2>2. Take(h, <<SaveLoad(load, Nobody)>>) /\ UNCHANGED <<believed, unsettled>>
    BY <1>6 DEF IssuePolicy
  <2> DEFINE w == SaveLoad(load, Nobody)
  <2>3. w \in Writes /\ w.do = "saveLoad" /\ w.row = load
    BY <2>1, SaveLoadIsWrite
  <2>4. Take(h, <<w>>)
    BY <2>2
  <2> HIDE DEF w
  <2>5. w.row.status = "YOLDA" => w.row.receiver \in chosen
    BY <2>1, <2>3
  <2> QED
    BY <1>0, <2>2, <2>3, <2>4, <2>5, LoadSaveTaken
<1>7. ASSUME NEW c \in Carriers, ReleaseReservation(h, c)
      PROVE  \E todo : Taken(h, todo)
  BY <1>0, <1>7, ClearTaken DEF ReleaseReservation
<1>8. ASSUME ExpireStaleReservations(h)
      PROVE  \E todo : Taken(h, todo)
  BY <1>0, <1>8, ClearTaken DEF ExpireStaleReservations
<1> QED
  BY <1>1, <1>2, <1>4, <1>5, <1>6, <1>7, <1>8, AcceptBidTaken, AcceptCounterTaken, InstantBookTaken,
     ReserveTaken DEF BidCall, LoadCall, ReservationCall

-----------------------------------------------------------------------------
(* The list that is left when a write was made, or the rest was dropped.   *)

LEMMA TailItems ==
  ASSUME NEW todo \in Seq(Writes), todo # << >>
  PROVE  /\ Tail(todo) \in Seq(Writes)
         /\ Head(todo) = todo[1] /\ todo[1] \in Writes /\ 1 \in Index(todo)
         /\ \A i \in Index(Tail(todo)) : i \in Nat /\ i + 1 \in Index(todo) /\ Tail(todo)[i] = todo[i + 1]
         /\ \A i \in Index(todo) : i # 1 => i - 1 \in Index(Tail(todo)) /\ Tail(todo)[i - 1] = todo[i]
<1>1. Len(todo) \in Nat /\ Len(todo) >= 1 /\ Tail(todo) \in Seq(Writes) /\ Len(Tail(todo)) = Len(todo) - 1
  OBVIOUS
<1>2. \A i \in 1 .. Len(todo) - 1 : Tail(todo)[i] = todo[i + 1]
  BY <1>1
<1>3. Head(todo) = todo[1] /\ todo[1] \in Writes
  BY <1>1
<1> QED
  BY <1>1, <1>2, <1>3 DEF Index

LEMMA TailShape ==
  ASSUME NEW todo \in Seq(Writes), todo # << >>, NEW settled \in BOOLEAN, NEW later \in BOOLEAN,
         AcceptShape(todo, settled), later => settled
  PROVE  /\ AcceptShape(Tail(todo), later)
         /\ \A i \in Index(Tail(todo)) : Tail(todo)[i].do # "saveBid"
<1>1. \A i \in Index(Tail(todo)) : i \in Nat /\ i >= 1 /\ i + 1 \in Index(todo) /\ Tail(todo)[i] = todo[i + 1]
  BY TailItems DEF Index
<1>2. ASSUME NEW i \in Index(Tail(todo)), Tail(todo)[i].do = "saveBid"
      PROVE  FALSE
  <2>1. i + 1 \in Index(todo) /\ todo[i + 1].do = "saveBid" /\ i \in Nat /\ i >= 1
    BY <1>1, <1>2
  <2>2. i + 1 = 1
    BY <2>1 DEF AcceptShape
  <2> QED
    BY <2>1, <2>2
<1>3. Rejecting(Tail(todo)) => Rejecting(todo)
  BY <1>1 DEF Rejecting
<1> QED
  BY <1>1, <1>2, <1>3 DEF AcceptShape

LEMMA TailRejects ==
  ASSUME NEW todo \in Seq(Writes), todo # << >>
  PROVE  /\ Rejecting(Tail(todo)) => Rejecting(todo)
         /\ todo[1].do # "rejectOthers" /\ Rejecting(todo) => Rejecting(Tail(todo))
<1>0. /\ \A i \in Index(Tail(todo)) : i + 1 \in Index(todo) /\ Tail(todo)[i] = todo[i + 1]
      /\ \A i \in Index(todo) : i # 1 => i - 1 \in Index(Tail(todo)) /\ Tail(todo)[i - 1] = todo[i]
  BY TailItems
<1>1. Rejecting(Tail(todo)) => Rejecting(todo)
  BY <1>0 DEF Rejecting
<1>2. ASSUME todo[1].do # "rejectOthers", NEW i \in Index(todo), todo[i] = RejectOthers
      PROVE  Rejecting(Tail(todo))
  <2>1. i # 1
    BY <1>2 DEF RejectOthers
  <2>2. i - 1 \in Index(Tail(todo)) /\ Tail(todo)[i - 1] = RejectOthers
    BY <1>0, <1>2, <2>1
  <2> QED
    BY <2>2 DEF Rejecting
<1> QED
  BY <1>1, <1>2 DEF Rejecting

LEMMA TailChoice ==
  ASSUME NEW todo \in Seq(Writes), todo # << >>, NEW choice, NEW larger, ChoiceFirst(todo, choice),
         choice \subseteq larger, \A k : Chooses(todo[1], k) => k \in larger
  PROVE  ChoiceFirst(Tail(todo), larger)
<1> SUFFICES ASSUME NEW i \in Index(Tail(todo)), NEW k, Needs(Tail(todo)[i], k)
             PROVE  k \in larger \/ \E j \in 1 .. i - 1 : Chooses(Tail(todo)[j], k)
  BY DEF ChoiceFirst
<1>1. i \in Nat /\ i + 1 \in Index(todo) /\ Tail(todo)[i] = todo[i + 1]
  BY TailItems
<1>2. k \in choice \/ \E j \in 1 .. i : Chooses(todo[j], k)
  <2>1. (i + 1) - 1 = i
    BY <1>1
  <2> QED
    BY <1>1, <2>1 DEF ChoiceFirst
<1>3. ASSUME NEW j \in 1 .. i, Chooses(todo[j], k), j # 1
      PROVE  \E x \in 1 .. i - 1 : Chooses(Tail(todo)[x], k)
  <2>1. j \in Index(todo) /\ j - 1 \in 1 .. i - 1
    BY <1>1, <1>3 DEF Index
  <2>2. Tail(todo)[j - 1] = todo[j]
    BY <1>3, <2>1, TailItems
  <2> QED
    BY <1>3, <2>1, <2>2
<1> QED
  BY <1>2, <1>3

(* Handler h has made its first write, and drops the rest if it failed.    *)
StepsOn(h) ==
  /\ job[h] # << >>
  /\ job' \in {[job EXCEPT ![h] = Tail(@)], [job EXCEPT ![h] = << >>]}
  /\ ops' = ops

LEMMA JobsLeft ==
  ASSUME TypeOK, NEW h \in Handlers, StepsOn(h)
  PROVE  /\ job' \in [Handlers -> Seq(Writes)]
         /\ job[h] \in Seq(Writes)
         /\ \A g \in Handlers : g # h => job'[g] = job[g]
         /\ job'[h] = << >> \/ job'[h] = Tail(job[h])
<1>1. job \in [Handlers -> Seq(Writes)]
  BY DEF TypeOK
<1>2. Tail(job[h]) \in Seq(Writes) /\ << >> \in Seq(Writes) /\ job[h] \in Seq(Writes)
  BY <1>1, TailItems DEF StepsOn
<1> QED
  BY <1>1, <1>2 DEF StepsOn

(* Whatever is true of each write that was left is true of each that is.   *)
LEMMA StepKeepsItems ==
  ASSUME TypeOK, NEW h \in Handlers, StepsOn(h), NEW g \in Handlers, NEW i \in Index(job'[g])
  PROVE  \E j \in Index(job[g]) : job'[g][i] = job[g][j]
<1>1. CASE g # h
  BY <1>1, JobsLeft
<1>2. CASE g = h /\ job'[h] = << >>
  BY <1>2 DEF Index
<1>3. CASE g = h /\ job'[h] = Tail(job[h])
  <2>1. job[h] \in Seq(Writes) /\ job[h] # << >>
    BY JobsLeft DEF StepsOn
  <2>2. i + 1 \in Index(job[h]) /\ job'[g][i] = job[h][i + 1]
    BY ZenonT(60), <1>3, <2>1, TailItems
  <2> QED
    BY <1>3, <2>2
<1> QED
  BY <1>1, <1>2, <1>3, JobsLeft

LEMMA StepKeepsJobs ==
  ASSUME Inductive, NEW h \in Handlers, StepsOn(h),
         Len(owner) <= Len(owner'), Len(owner') \in Nat,
         chosen \subseteq chosen', \A k : Chooses(job[h][1], k) => k \in chosen' \/ job'[h] = << >>,
         unsettled \subseteq unsettled'
  PROVE  JobsKnown' /\ JobsChoose' /\ JobsAccept'
<1>0. TypeOK /\ JobsKnown /\ JobsChoose /\ JobsAccept
  BY DEF Inductive
<1>1. JobsKnown'
  <2> SUFFICES ASSUME NEW g \in Handlers, NEW i \in Index(job'[g])
               PROVE  RowKnown(job'[g][i], Len(owner'))
    BY DEF JobsKnown
  <2>1. PICK j \in Index(job[g]) : job'[g][i] = job[g][j]
    BY <1>0, StepKeepsItems
  <2>2. RowKnown(job[g][j], Len(owner))
    BY <1>0 DEF JobsKnown
  <2>3. Len(owner) \in Nat
    BY <1>0 DEF TypeOK
  <2> QED
    BY <2>1, <2>2, <2>3 DEF RowKnown
<1>2. job[h] \in Seq(Writes) /\ job[h] # << >>
  BY <1>0, JobsLeft DEF StepsOn
<1>3. JobsChoose'
  <2> SUFFICES ASSUME NEW g \in Handlers
               PROVE  ChoiceFirst(job'[g], chosen')
    BY DEF JobsChoose
  <2>1. ChoiceFirst(job[g], chosen)
    BY <1>0 DEF JobsChoose
  <2>2. CASE g # h
    BY <1>0, <2>1, <2>2, JobsLeft DEF ChoiceFirst
  <2>3. CASE g = h /\ job'[h] = << >>
    BY <2>3 DEF ChoiceFirst, Index
  <2>4. CASE g = h /\ job'[h] = Tail(job[h]) /\ job'[h] # << >>
    BY <1>2, <2>1, <2>4, TailChoice
  <2> QED
    BY <1>0, <2>2, <2>3, <2>4, JobsLeft
<1>4. JobsAccept'
  <2> SUFFICES ASSUME NEW g \in Handlers
               PROVE  AcceptShape(job'[g], unsettled' = {})
    BY DEF JobsAccept
  <2>1. AcceptShape(job[g], unsettled = {}) /\ (unsettled' = {} => unsettled = {})
    BY <1>0 DEF JobsAccept
  <2>2. CASE g # h
    BY <1>0, <2>1, <2>2, JobsLeft DEF AcceptShape
  <2>3. CASE g = h /\ job'[h] = << >>
    BY <2>3 DEF AcceptShape, Index, Rejecting
  <2>4. CASE g = h /\ job'[h] = Tail(job[h])
    <3> DEFINE settled == unsettled = {}
               later == unsettled' = {}
    <3>1. settled \in BOOLEAN /\ later \in BOOLEAN /\ (later => settled) /\ AcceptShape(job[h], settled)
      BY <2>1, <2>4
    <3> HIDE DEF settled, later
    <3>2. AcceptShape(Tail(job[h]), later)
      BY <1>2, <3>1, TailShape
    <3> QED
      BY <2>4, <3>2 DEF later
  <2> QED
    BY <1>0, <2>2, <2>3, <2>4, JobsLeft
<1> QED
  BY <1>1, <1>3, <1>4

LEMMA StepKeepsVersioned ==
  ASSUME TypeOK, NEW h \in Handlers, StepsOn(h),
         ~wiped' => /\ \A r \in Counted' : r = load'.reservation
                    /\ \A g \in Handlers : \A i \in Index(job[g]) :
                         VersionRight(job[g][i], load'.version, Counted', owner')
  PROVE  Versioned'
<1> SUFFICES ASSUME ~wiped', NEW g \in Handlers, NEW i \in Index(job'[g])
             PROVE  VersionRight(job'[g][i], load'.version, Counted', owner')
  BY DEF Versioned
<1>1. PICK j \in Index(job[g]) : job'[g][i] = job[g][j]
  BY StepKeepsItems
<1> QED
  BY <1>1

(* The reservation stays as it is. *)
LEMMA StepKeepsReservation ==
  ASSUME Inductive, NEW h \in Handlers, StepsOn(h),
         load'.version = load.version, load'.reservation = load.reservation,
         UNCHANGED <<lapsed, reservations>>
  PROVE  Versioned'
<1>1. Counted' = Counted /\ owner' = owner /\ wiped' = wiped /\ TypeOK
  BY DEF Counted, Live, reservations, Inductive
<1>2. ~wiped' => /\ \A r \in Counted' : r = load'.reservation
                 /\ \A g \in Handlers : \A i \in Index(job[g]) :
                      VersionRight(job[g][i], load'.version, Counted', owner')
  BY <1>1 DEF Inductive, Versioned
<1> QED
  BY <1>1, <1>2, StepKeepsVersioned

LEMMA AcceptanceGone ==
  ASSUME TypeOK, JobsAccept, NEW h \in Handlers, StepsOn(h), job'[h] # << >>
  PROVE  ~Accepts(job'[h][1])
<1>1. job[h] \in Seq(Writes) /\ job[h] # << >> /\ job'[h] = Tail(job[h]) /\ Tail(job[h]) \in Seq(Writes)
  BY JobsLeft, TailItems DEF StepsOn
<1>2. \A i \in Index(Tail(job[h])) : Tail(job[h])[i].do # "saveBid"
  <2> DEFINE settled == unsettled = {}
  <2>1. settled \in BOOLEAN /\ AcceptShape(job[h], settled)
    BY DEF JobsAccept
  <2> HIDE DEF settled
  <2> QED
    BY <1>1, <2>1, TailShape
<1>3. 1 \in Index(Tail(job[h]))
  BY <1>1 DEF Index
<1> QED
  BY <1>1, <1>2, <1>3 DEF Accepts

(* Who still has the others to reject: as before, unless that was done.    *)
LEMMA StillRejecting ==
  ASSUME TypeOK, NEW h \in Handlers, StepsOn(h), Rejecting(job[h]) => job'[h] = Tail(job[h])
  PROVE  /\ \A g \in Handlers : Rejecting(job'[g]) => Rejecting(job[g])
         /\ job[h][1].do # "rejectOthers" =>
              \A g \in Handlers : Rejecting(job[g]) => Rejecting(job'[g])
<1>1. job[h] \in Seq(Writes) /\ job[h] # << >>
  BY JobsLeft DEF StepsOn
<1>2. ~Rejecting(<< >>)
  BY DEF Rejecting, Index
<1>3. /\ Rejecting(Tail(job[h])) => Rejecting(job[h])
      /\ job[h][1].do # "rejectOthers" /\ Rejecting(job[h]) => Rejecting(Tail(job[h]))
  BY <1>1, TailRejects
<1>4. \A g \in Handlers : g # h => job'[g] = job[g]
  BY JobsLeft
<1>5. job'[h] = << >> \/ job'[h] = Tail(job[h])
  BY JobsLeft
<1>6. Rejecting(job'[h]) => Rejecting(job[h])
  BY <1>2, <1>3, <1>5
<1>7. job[h][1].do # "rejectOthers" /\ Rejecting(job[h]) => Rejecting(job'[h])
  BY <1>3
<1> QED
  BY <1>4, <1>6, <1>7

(* A step that leaves the bids as they are, and no rejection undone.       *)
LEMMA StepKeepsSettled ==
  ASSUME Inductive, NEW h \in Handlers, StepsOn(h), UNCHANGED <<bid, unsettled>>,
         job[h][1].do # "rejectOthers", Rejecting(job[h]) => job'[h] = Tail(job[h])
  PROVE  Settled'
<1>0. TypeOK /\ JobsAccept /\ Settled
  BY DEF Inductive
<1> SUFFICES ASSUME unsettled' = {}
             PROVE  Settled'
  BY DEF Settled
<1>1. \A g \in Handlers : Rejecting(job'[g]) <=> Rejecting(job[g])
  BY <1>0, StillRejecting
<1>2. unsettled = {} /\ bid' = bid
  OBVIOUS
<1>3. ASSUME NEW g \in Handlers, job'[g] # << >>, Accepts(job'[g][1])
      PROVE  \A b \in Bids : ~IsAccepted(b)
  <2>1. g # h
    BY <1>0, <1>3, AcceptanceGone
  <2>2. job'[g] = job[g]
    BY <1>0, <2>1, JobsLeft
  <2> QED
    BY <1>0, <1>2, <1>3, <2>2 DEF Settled
<1>4. \A b \in Bids : IsAccepted(b)' <=> IsAccepted(b)
  BY <1>2 DEF IsAccepted
<1> QED
  BY <1>0, <1>1, <1>2, <1>3, <1>4 DEF Settled

-----------------------------------------------------------------------------
(* Each write keeps the invariant. *)

(* What a write is, by its kind. *)
LEMMA HeadWrite ==
  ASSUME TypeOK, NEW h \in Handlers, job[h] # << >>
  PROVE  /\ Head(job[h]) = job[h][1] /\ 1 \in Index(job[h]) /\ job[h] \in Seq(Writes)
         /\ job[h][1] \in Writes
         /\ job[h][1].do = "saveBid" => job[h][1].b \in Bids /\ job[h][1].status \in BidStatuses
         /\ job[h][1].do = "saveLoad" => job[h][1].row \in LoadRow /\ job[h][1].by \in Carriers \cup {Nobody}
         /\ job[h][1].do = "reserve" => job[h][1].c \in Carriers /\ job[h][1].version \in Nat
         /\ job[h][1].do = "book" => job[h][1].c \in Carriers
         /\ job[h][1].do = "fund" => job[h][1].key \in Bids \cup Carriers
<1>1. job[h] \in Seq(Writes)
  BY DEF TypeOK
<1>2. Head(job[h]) = job[h][1] /\ 1 \in Index(job[h]) /\ job[h][1] \in Writes
  BY <1>1, TailItems
<1> QED
  BY <1>1, <1>2 DEF Writes

LEMMA AdvanceSteps ==
  ASSUME NEW h \in Handlers, job[h] # << >>, Advance(h) \/ Drop(h)
  PROVE  StepsOn(h)
BY DEF Advance, Drop, StepsOn

LEMMA DoSaveBidKeeps ==
  ASSUME Inductive, NEW h \in Handlers, DoSaveBid(h)
  PROVE  Inductive'
<1> DEFINE w == job[h][1]
<1>0. /\ TypeOK /\ JobsAccept /\ Settled /\ UnderWayToChosen /\ TakesWithinOpenings
      /\ job[h] # << >>
  BY DEF Inductive, DoSaveBid, Doing
<1>1. Head(job[h]) = w /\ w.b \in Bids /\ w.status \in BidStatuses /\ w.do = "saveBid" /\ 1 \in Index(job[h])
  BY <1>0, HeadWrite DEF DoSaveBid, Doing
<1>2. /\ bid' = [bid EXCEPT ![w.b] = w.status]
      /\ chosen' = chosen \cup IF w.status = "ACCEPTED" THEN {w.b, BidOf[w.b]} ELSE {}
      /\ UNCHANGED <<load, funded, lapsed, reservations, instantTakes, openings, unsettled, ops>>
      /\ job' = [job EXCEPT ![h] = Tail(@)]
  BY <1>1 DEF DoSaveBid, Advance
<1>3. StepsOn(h)
  BY <1>0, <1>2 DEF StepsOn
<1>4. job'[h] = Tail(job[h])
  BY <1>0, <1>2 DEF TypeOK
<1> HIDE DEF w
<1>5. \A k : Chooses(w, k) => k \in chosen'
  BY <1>1, <1>2 DEF Chooses
<1>6. chosen \subseteq chosen' /\ chosen' \subseteq Bids \cup Carriers
  <2>1. chosen' \subseteq chosen \cup {w.b, BidOf[w.b]} /\ chosen \subseteq chosen'
    BY <1>2
  <2>2. BidOf[w.b] \in Carriers /\ chosen \subseteq Bids \cup Carriers
    BY <1>0, <1>1, BookingAssumption DEF TypeOK
  <2> QED
    BY <1>1, <2>1, <2>2
<1>7. TypeOK'
  BY <1>0, <1>1, <1>2, <1>3, <1>6, JobsLeft DEF TypeOK, reservations
<1>8. JobsKnown' /\ JobsChoose' /\ JobsAccept'
  <2>1. Len(owner) <= Len(owner') /\ Len(owner') \in Nat /\ unsettled \subseteq unsettled'
    BY <1>0, <1>2 DEF TypeOK, reservations
  <2> QED
    BY <1>3, <1>5, <1>6, <2>1, StepKeepsJobs DEF w
<1>9. Versioned'
  BY <1>2, <1>3, StepKeepsReservation
<1>10. UnderWayToChosen' /\ TakesWithinOpenings'
  BY <1>0, <1>2, <1>6 DEF UnderWayToChosen, TakesWithinOpenings
<1>11. Settled'
  <2> SUFFICES ASSUME unsettled' = {}
               PROVE  Settled'
    BY DEF Settled
  <2>1. /\ w.status # "PENDING" /\ w.status # "COUNTERED"
        /\ w.status = "ACCEPTED" => Rejecting(job[h]) /\ \A b \in Bids : ~IsAccepted(b)
    BY <1>0, <1>1, <1>2 DEF JobsAccept, AcceptShape, Settled, Accepts, w
  <2>2. /\ \A g \in Handlers : Rejecting(job'[g]) <=> Rejecting(job[g])
    BY <1>0, <1>1, <1>3, <1>4, StillRejecting DEF w
  <2>3. \A b \in Bids : bid'[b] = IF b = w.b THEN w.status ELSE bid[b]
    BY <1>0, <1>2 DEF TypeOK
  <2>4. ASSUME NEW g \in Handlers, job'[g] # << >>, Accepts(job'[g][1])
        PROVE  \A b \in Bids : ~IsAccepted(b)'
    <3>1. g # h
      BY <1>0, <1>3, <2>4, AcceptanceGone
    <3>2. job'[g] = job[g] /\ job[g] # << >> /\ job[g] \in Seq(Writes)
      BY <1>0, <1>3, <2>4, <3>1, JobsLeft DEF TypeOK
    <3>3. Rejecting(job[g])
      <4>1. 1 \in Index(job[g])
        BY <3>2 DEF Index
      <4> QED
        BY <1>0, <2>4, <3>2, <4>1 DEF JobsAccept, AcceptShape, Accepts
    <3>4. w.status # "ACCEPTED"
      BY <1>0, <1>2, <2>1, <3>1, <3>3 DEF Settled
    <3> QED
      BY <1>0, <1>2, <2>3, <2>4, <3>2, <3>4 DEF Settled, IsAccepted
  <2>5. \A g, x \in Handlers : Rejecting(job'[g]) /\ Rejecting(job'[x]) => g = x
    BY <1>0, <1>2, <2>2 DEF Settled
  <2>6. \A b \in Bids : bid'[b] # "COUNTERED"
    BY <1>0, <1>2, <2>1, <2>3 DEF Settled
  <2>7. \A b, x \in Bids : IsAccepted(b)' /\ IsAccepted(x)' => b = x
    BY <1>0, <1>2, <2>1, <2>3 DEF Settled, IsAccepted
  <2>8. (\E b \in Bids : IsAccepted(b)') /\ (\A g \in Handlers : ~Rejecting(job'[g])) =>
          \A b \in Bids : bid'[b] # "PENDING"
    BY <1>0, <1>2, <2>1, <2>2, <2>3 DEF Settled, IsAccepted
  <2> QED
    BY <2>4, <2>5, <2>6, <2>7, <2>8 DEF Settled
<1> QED
  BY <1>7, <1>8, <1>9, <1>10, <1>11 DEF Inductive

LEMMA DoRejectOthersKeeps ==
  ASSUME Inductive, NEW h \in Handlers, DoRejectOthers(h)
  PROVE  Inductive'
<1>0. /\ TypeOK /\ JobsAccept /\ Settled /\ UnderWayToChosen /\ TakesWithinOpenings
      /\ job[h] # << >>
  BY DEF Inductive, DoRejectOthers, Doing
<1>1. job[h][1].do = "rejectOthers" /\ 1 \in Index(job[h]) /\ job[h][1] \in Writes /\ job[h] \in Seq(Writes)
  BY <1>0, HeadWrite DEF DoRejectOthers, Doing
<1>2. /\ bid' = [b \in Bids |-> IF bid[b] = "PENDING" THEN "REJECTED" ELSE bid[b]]
      /\ UNCHANGED <<load, funded, lapsed, reservations, takes, unsettled, ops>>
      /\ job' = [job EXCEPT ![h] = Tail(@)]
  BY DEF DoRejectOthers, Advance
<1>3. StepsOn(h)
  BY <1>0, <1>2 DEF StepsOn
<1>4. job'[h] = Tail(job[h])
  BY <1>0, <1>2 DEF TypeOK
<1>5. chosen' = chosen /\ \A k : ~Chooses(job[h][1], k)
  BY <1>1, <1>2 DEF takes, Chooses
<1>6. TypeOK'
  <2>1. bid' \in [Bids -> BidStatuses \cup {NoBid}]
    BY <1>0, <1>2 DEF TypeOK, BidStatuses
  <2> QED
    BY <1>0, <1>2, <1>3, <2>1, JobsLeft DEF TypeOK, reservations, takes
<1>7. JobsKnown' /\ JobsChoose' /\ JobsAccept'
  <2>1. Len(owner) <= Len(owner') /\ Len(owner') \in Nat /\ unsettled \subseteq unsettled'
    BY <1>0, <1>2 DEF TypeOK, reservations
  <2> QED
    BY <1>3, <1>5, <2>1, StepKeepsJobs
<1>8. Versioned'
  BY <1>2, <1>3, StepKeepsReservation
<1>9. UnderWayToChosen' /\ TakesWithinOpenings'
  BY <1>0, <1>2 DEF UnderWayToChosen, TakesWithinOpenings, takes
<1>10. Settled'
  <2> SUFFICES ASSUME unsettled' = {}
               PROVE  Settled'
    BY DEF Settled
  <2>1. \A g \in Handlers : Rejecting(job'[g]) => Rejecting(job[g])
    BY <1>0, <1>3, <1>4, StillRejecting
  <2>2. \A b \in Bids : bid'[b] = IF bid[b] = "PENDING" THEN "REJECTED" ELSE bid[b]
    BY <1>2
  <2>3. \A b \in Bids : IsAccepted(b)' <=> IsAccepted(b)
    BY <2>2 DEF IsAccepted
  <2>4. ASSUME NEW g \in Handlers, job'[g] # << >>, Accepts(job'[g][1])
        PROVE  \A b \in Bids : ~IsAccepted(b)'
    <3>1. g # h
      BY <1>0, <1>3, <2>4, AcceptanceGone
    <3>2. job'[g] = job[g] /\ job[g] # << >>
      BY <1>0, <1>3, <2>4, <3>1, JobsLeft
    <3> QED
      BY <1>0, <1>2, <2>3, <2>4, <3>2 DEF Settled
  <2> QED
    BY <1>0, <1>2, <2>1, <2>2, <2>3, <2>4 DEF Settled
<1> QED
  BY <1>6, <1>7, <1>8, <1>9, <1>10 DEF Inductive

LEMMA DoSaveLoadKeeps ==
  ASSUME Inductive, NEW h \in Handlers, DoSaveLoad(h)
  PROVE  Inductive'
<1> DEFINE w == job[h][1]
<1>0. /\ TypeOK /\ JobsKnown /\ JobsChoose /\ UnderWayToChosen /\ TakesWithinOpenings /\ Versioned
      /\ job[h] # << >>
  BY DEF Inductive, DoSaveLoad, Doing
<1>1. /\ Head(job[h]) = w /\ w.do = "saveLoad" /\ 1 \in Index(job[h])
      /\ w.row \in LoadRow /\ w.by \in Carriers \cup {Nobody}
  BY <1>0, HeadWrite DEF DoSaveLoad, Doing
<1>2. /\ load' = w.row
      /\ wiped' = (wiped \/ Wipes(w.row.reservation) \/ w.row.version < load.version)
      /\ chosen' = chosen \cup ({w.by} \ {Nobody})
      /\ openings' = openings + IF load.status # "BEKLEMEDE" /\ w.row.status = "BEKLEMEDE"
                                THEN 1 ELSE 0
      /\ UNCHANGED <<bid, funded, lapsed, owner, believed, instantTakes, unsettled, ops>>
      /\ job' = [job EXCEPT ![h] = Tail(@)]
  BY <1>1 DEF DoSaveLoad, Advance
<1>3. StepsOn(h)
  BY <1>0, <1>2 DEF StepsOn
<1>4. job'[h] = Tail(job[h])
  BY <1>0, <1>2 DEF TypeOK
<1>5. chosen \subseteq chosen' /\ chosen' \subseteq Bids \cup Carriers /\ \A k : ~Chooses(w, k)
  BY <1>0, <1>1, <1>2 DEF TypeOK, Chooses
<1>6. JobsKnown' /\ JobsChoose' /\ JobsAccept'
  <2>1. Len(owner) <= Len(owner') /\ Len(owner') \in Nat /\ unsettled \subseteq unsettled'
    BY <1>0, <1>2 DEF TypeOK
  <2> QED
    BY <1>3, <1>5, <2>1, StepKeepsJobs
<1>7. TypeOK'
  <2>1. w.row.reservation \in 0 .. Len(owner)
    BY <1>0, <1>1 DEF JobsKnown, RowKnown
  <2>2. job' \in [Handlers -> Seq(Writes)]
    BY <1>0, <1>3, JobsLeft
  <2>3. wiped' \in BOOLEAN /\ openings' \in Nat
    <3>1. wiped \in BOOLEAN /\ openings \in Nat
      BY <1>0 DEF TypeOK
    <3>2. openings' \in Nat
      BY <1>2, <3>1
    <3> QED
      BY <1>2, <3>1, <3>2
  <2> HIDE DEF w
  <2> QED
    BY <1>0, <1>1, <1>2, <1>5, <2>1, <2>2, <2>3 DEF TypeOK
<1>8. UnderWayToChosen'
  <2>1. ASSUME w.row.status = "YOLDA"
        PROVE  w.row.receiver \in chosen'
    <3>1. CASE w.row.receiver # w.by \/ w.row.receiver = Nobody
      <4>1. Needs(w, w.row.receiver)
        BY <1>1, <2>1, <3>1 DEF Needs
      <4>2. w.row.receiver \in chosen \/ \E j \in 1 .. 1 - 1 : Chooses(job[h][j], w.row.receiver)
        BY <1>0, <1>1, <4>1 DEF JobsChoose, ChoiceFirst
      <4> QED
        BY <1>5, <4>2
    <3>2. CASE w.row.receiver = w.by /\ w.row.receiver # Nobody
      BY <1>2, <3>2
    <3> QED
      BY <3>1, <3>2
  <2> QED
    BY <1>0, <1>2, <1>5, <2>1 DEF UnderWayToChosen
<1>9. TakesWithinOpenings'
  <2>1. openings \in Nat /\ instantTakes \in Nat
    BY <1>0 DEF TypeOK
  <2> HIDE DEF w
  <2> QED
    BY <1>0, <1>2, <2>1 DEF TakesWithinOpenings
<1>10. Versioned'
  <2> SUFFICES ASSUME ~wiped'
               PROVE  /\ \A r \in Counted' : r = load'.reservation
                      /\ \A g \in Handlers : \A i \in Index(job[g]) :
                           VersionRight(job[g][i], load'.version, Counted', owner')
    BY <1>0, <1>3, StepKeepsVersioned
  <2>1. ~wiped /\ ~Wipes(w.row.reservation) /\ ~(w.row.version < load.version)
    BY <1>2
  <2>2. w.row.version <= load.version
    BY <1>0, <1>1, <2>1 DEF Versioned, VersionRight
  <2>3. w.row.version = load.version
    BY <1>0, <1>1, <2>1, <2>2 DEF TypeOK, LoadRow
  <2>4. Counted' = Counted
    BY <1>2 DEF Counted, Live
  <2>5. ASSUME NEW r \in Counted
        PROVE  r = w.row.reservation
    BY <1>0, <2>1, <2>5 DEF Versioned, Wipes, Counted
  <2> HIDE DEF w
  <2> QED
    BY <1>0, <1>2, <2>1, <2>3, <2>4, <2>5 DEF Versioned
<1>11. Settled'
  BY <1>1, <1>2, <1>3, <1>4, StepKeepsSettled
<1> QED
  BY <1>6, <1>7, <1>8, <1>9, <1>10, <1>11 DEF Inductive

LEMMA DoClearKeeps ==
  ASSUME Inductive, NEW h \in Handlers, DoClear(h)
  PROVE  Inductive'
<1>0. /\ TypeOK /\ UnderWayToChosen /\ TakesWithinOpenings /\ Versioned /\ job[h] # << >>
  BY DEF Inductive, DoClear, Doing
<1>1. job[h][1].do = "clear"
  BY <1>0, HeadWrite DEF DoClear, Doing
<1>2. /\ load' = [load EXCEPT !.reservation = 0]
      /\ wiped' = (wiped \/ Wipes(0))
      /\ UNCHANGED <<bid, funded, lapsed, owner, believed, takes, unsettled, ops>>
      /\ job' = [job EXCEPT ![h] = Tail(@)]
  BY DEF DoClear, Advance
<1>3. StepsOn(h)
  BY <1>0, <1>2 DEF StepsOn
<1>4. job'[h] = Tail(job[h])
  BY <1>0, <1>2 DEF TypeOK
<1>5. load' \in LoadRow /\ load'.reservation = 0 /\ load'.version = load.version
      /\ load'.status = load.status /\ load'.receiver = load.receiver
  BY <1>0, <1>2 DEF TypeOK, LoadRow
<1>6. JobsKnown' /\ JobsChoose' /\ JobsAccept'
  <2>1. Len(owner) <= Len(owner') /\ Len(owner') \in Nat /\ unsettled \subseteq unsettled'
    BY <1>0, <1>2 DEF TypeOK
  <2>2. chosen' = chosen /\ \A k : ~Chooses(job[h][1], k)
    BY <1>1, <1>2 DEF takes, Chooses
  <2> QED
    BY <1>3, <2>1, <2>2, StepKeepsJobs
<1>7. TypeOK'
  BY <1>0, <1>2, <1>3, <1>5, JobsLeft DEF TypeOK, takes
<1>8. UnderWayToChosen' /\ TakesWithinOpenings'
  BY <1>0, <1>2, <1>5 DEF UnderWayToChosen, TakesWithinOpenings, takes
<1>9. Versioned'
  <2> SUFFICES ASSUME ~wiped'
               PROVE  /\ \A r \in Counted' : r = load'.reservation
                      /\ \A g \in Handlers : \A i \in Index(job[g]) :
                           VersionRight(job[g][i], load'.version, Counted', owner')
    BY <1>0, <1>3, StepKeepsVersioned
  <2>1. Counted' = Counted
    BY <1>2 DEF Counted, Live
  <2>2. \A r \in Counted : r = 0
    BY <1>0, <1>2 DEF Versioned, Wipes, Counted
  <2> QED
    BY <1>0, <1>2, <1>5, <2>1, <2>2 DEF Versioned
<1>10. Settled'
  BY <1>1, <1>2, <1>3, <1>4, StepKeepsSettled
<1> QED
  BY <1>6, <1>7, <1>8, <1>9, <1>10 DEF Inductive

(* A new reservation: nobody else counts on one, and every version that    *)
(* was read is over.                                                       *)
LEMMA GrantKeepsVersioned ==
  ASSUME Inductive, NEW h \in Handlers, StepsOn(h), NEW c \in Carriers, Grant(c), UNCHANGED lapsed,
         load'.reservation = Granted, load'.version \in Nat, load'.version > load.version,
         ~wiped => \A r \in Counted : owner[r] = c
  PROVE  Versioned'
<1>0. TypeOK /\ Versioned
  BY DEF Inductive
<1>1. /\ owner' = Append(owner, c) /\ wiped' = wiped
      /\ believed' = {r \in believed : owner[r] # c} \cup {Len(owner) + 1}
  BY DEF Grant
<1> SUFFICES ASSUME ~wiped'
             PROVE  /\ \A r \in Counted' : r = load'.reservation
                    /\ \A g \in Handlers : \A i \in Index(job[g]) :
                         VersionRight(job[g][i], load'.version, Counted', owner')
  BY <1>0, StepKeepsVersioned
<1>2. ASSUME NEW r \in Counted'
      PROVE  r = load'.reservation
  <2>1. r \in believed' /\ r # 0 /\ r \notin lapsed
    BY <1>2 DEF Counted, Live
  <2>2. r \in believed => r \in Counted
    BY <2>1 DEF Counted, Live
  <2> QED
    BY <1>1, <2>1, <2>2 DEF Granted
<1>3. ASSUME NEW g \in Handlers, NEW i \in Index(job[g])
      PROVE  VersionRight(job[g][i], load'.version, Counted', owner')
  <2>1. VersionRight(job[g][i], load.version, Counted, owner) /\ load.version \in Nat
    BY <1>0, <1>1, <1>3 DEF Versioned, TypeOK, LoadRow
  <2>2. job[g][i] \in Writes
    BY <1>0, <1>3 DEF TypeOK, Index
  <2>3. job[g][i].do = "saveLoad" => job[g][i].row.version \in Nat
    BY <2>2 DEF Writes, LoadRow
  <2>4. job[g][i].do = "reserve" => job[g][i].version \in Nat
    BY <2>2 DEF Writes
  <2> QED
    BY <2>1, <2>3, <2>4 DEF VersionRight
<1> QED
  BY <1>2, <1>3

LEMMA GrantTypes ==
  ASSUME TypeOK, NEW c \in Carriers, Grant(c), UNCHANGED lapsed
  PROVE  /\ owner' \in Seq(Carriers) /\ Len(owner') = Granted /\ Granted \in Nat /\ Len(owner) <= Granted
         /\ lapsed' \subseteq DOMAIN owner' /\ believed' \subseteq DOMAIN owner'
         /\ wiped' = wiped /\ Granted \in 0 .. Len(owner')
<1>1. /\ owner \in Seq(Carriers) /\ lapsed \subseteq DOMAIN owner /\ believed \subseteq DOMAIN owner
      /\ Len(owner) \in Nat /\ DOMAIN owner = 1 .. Len(owner)
  BY DEF TypeOK
<1>2. owner' = Append(owner, c) /\ believed' \subseteq believed \cup {Len(owner) + 1} /\ wiped' = wiped
  BY DEF Grant
<1>3. owner' \in Seq(Carriers) /\ Len(owner') = Len(owner) + 1 /\ DOMAIN owner' = 1 .. Len(owner) + 1
  BY <1>1, <1>2
<1>4. 1 .. Len(owner) \subseteq 1 .. Len(owner) + 1 /\ Len(owner) + 1 \in 1 .. Len(owner) + 1
  BY <1>1
<1> QED
  BY <1>1, <1>2, <1>3, <1>4 DEF Granted

LEMMA DoReserveKeeps ==
  ASSUME Inductive, NEW h \in Handlers, DoReserve(h)
  PROVE  Inductive'
<1> DEFINE w == job[h][1]
<1>0. /\ TypeOK /\ UnderWayToChosen /\ TakesWithinOpenings /\ Versioned /\ JobsAccept /\ job[h] # << >>
  BY DEF Inductive, DoReserve, Doing
<1>1. /\ Head(job[h]) = w /\ w.do = "reserve" /\ w.c \in Carriers /\ w.version \in Nat
      /\ 1 \in Index(job[h])
  BY <1>0, HeadWrite DEF DoReserve, Doing
<1>2. UNCHANGED <<bid, funded, lapsed, takes, unsettled>>
  BY DEF DoReserve
<1>3. StepsOn(h)
  BY <1>0, AdvanceSteps DEF DoReserve
<1>4. ~Rejecting(job[h])
  BY <1>0, <1>1 DEF JobsAccept, AcceptShape
<1>5. Settled'
  BY <1>1, <1>2, <1>3, <1>4, StepKeepsSettled
<1>6. chosen' = chosen /\ \A k : ~Chooses(w, k)
  BY <1>1, <1>2 DEF takes, Chooses
<1>7. CASE load.version = w.version
  <2>1. /\ load' = [load EXCEPT !.reservation = Granted, !.version = w.version + 1]
        /\ Grant(w.c)
    BY <1>1, <1>7 DEF DoReserve
  <2>2. /\ owner' \in Seq(Carriers) /\ Len(owner') = Granted /\ Granted \in Nat /\ Len(owner) <= Granted
        /\ lapsed' \subseteq DOMAIN owner' /\ believed' \subseteq DOMAIN owner'
        /\ wiped' = wiped /\ Granted \in 0 .. Len(owner')
    BY <1>0, <1>1, <1>2, <2>1, GrantTypes
  <2> HIDE DEF w
  <2>3. /\ load' \in LoadRow /\ load'.reservation = Granted /\ load'.version = w.version + 1
        /\ load'.status = load.status /\ load'.receiver = load.receiver
    <3> DEFINE v == w.version + 1
    <3>1. load \in LoadRow /\ Granted \in Nat /\ v \in Nat
      BY <1>0, <1>1, <2>2 DEF TypeOK
    <3>2. load' = [load EXCEPT !.reservation = Granted, !.version = v]
      BY <2>1
    <3>3. v = w.version + 1
      OBVIOUS
    <3> HIDE DEF v
    <3>4. /\ load' \in LoadRow /\ load'.reservation = Granted /\ load'.version = v
          /\ load'.status = load.status /\ load'.receiver = load.receiver
      BY <3>1, <3>2 DEF LoadRow
    <3> QED
      BY <3>3, <3>4
  <2>4. TypeOK'
    BY <1>0, <1>2, <1>3, <2>2, <2>3, JobsLeft DEF TypeOK, StepsOn, takes
  <2>5. JobsKnown' /\ JobsChoose' /\ JobsAccept'
    BY <1>2, <1>3, <1>6, <2>2, StepKeepsJobs DEF w
  <2>6. UnderWayToChosen' /\ TakesWithinOpenings'
    BY <1>0, <1>2, <2>3 DEF UnderWayToChosen, TakesWithinOpenings, takes
  <2>7. ~wiped => \A r \in Counted : owner[r] = w.c
    BY <1>0, <1>1, <1>7 DEF Versioned, VersionRight, w
  <2>8. load'.version \in Nat /\ load'.version > load.version
    BY <1>1, <1>7, <2>3
  <2>9. Versioned'
    BY <1>1, <1>2, <1>3, <2>1, <2>3, <2>7, <2>8, GrantKeepsVersioned
  <2> QED
    BY <1>5, <2>4, <2>5, <2>6, <2>9 DEF Inductive
<1>8. CASE load.version # w.version
  <2>1. UNCHANGED <<load, reservations>>
    BY <1>1, <1>8 DEF DoReserve
  <2> HIDE DEF w
  <2>2. TypeOK'
    BY <1>0, <1>2, <1>3, <2>1, JobsLeft DEF TypeOK, StepsOn, takes, reservations
  <2>3. Len(owner) <= Len(owner') /\ Len(owner') \in Nat
    BY <1>0, <2>1 DEF TypeOK, reservations
  <2>4. JobsKnown' /\ JobsChoose' /\ JobsAccept'
    BY <1>2, <1>3, <1>6, <2>3, StepKeepsJobs DEF w
  <2>5. UnderWayToChosen' /\ TakesWithinOpenings'
    BY <1>0, <1>2, <2>1 DEF UnderWayToChosen, TakesWithinOpenings, takes
  <2>6. Versioned'
    BY <1>2, <1>3, <2>1, StepKeepsReservation
  <2> QED
    BY <1>5, <2>2, <2>4, <2>5, <2>6 DEF Inductive
<1> QED
  BY <1>7, <1>8

LEMMA DoBookKeeps ==
  ASSUME Inductive, NEW h \in Handlers, DoBook(h)
  PROVE  Inductive'
<1> DEFINE c == job[h][1].c
<1>0. /\ TypeOK /\ UnderWayToChosen /\ TakesWithinOpenings /\ Versioned /\ JobsAccept /\ job[h] # << >>
  BY DEF Inductive, DoBook, Doing
<1>1. Head(job[h]).c = c /\ job[h][1].do = "book" /\ c \in Carriers /\ 1 \in Index(job[h])
  BY <1>0, HeadWrite DEF DoBook, Doing
<1>2. /\ load.status = "BEKLEMEDE" /\ ~Live(load.reservation)
      /\ load' = [status |-> "YOLDA", receiver |-> c, reservation |-> Granted,
                  version |-> load.version + 1]
      /\ Grant(c) /\ chosen' = chosen \cup {c} /\ instantTakes' = instantTakes + 1
      /\ UNCHANGED <<bid, funded, lapsed, openings, unsettled, ops>>
      /\ job' = [job EXCEPT ![h] = Tail(@)]
  BY <1>1 DEF DoBook, Advance
<1>3. StepsOn(h)
  BY <1>0, <1>2 DEF StepsOn
<1>4. ~Rejecting(job[h])
  BY <1>0, <1>1 DEF JobsAccept, AcceptShape
<1>5. Settled'
  BY <1>1, <1>2, <1>3, <1>4, StepKeepsSettled
<1>6. \A k : Chooses(job[h][1], k) => k \in chosen'
  BY <1>1, <1>2 DEF Chooses
<1> HIDE DEF c
<1>7. /\ owner' \in Seq(Carriers) /\ Len(owner') = Granted /\ Granted \in Nat /\ Len(owner) <= Granted
      /\ lapsed' \subseteq DOMAIN owner' /\ believed' \subseteq DOMAIN owner'
      /\ wiped' = wiped /\ Granted \in 0 .. Len(owner')
  BY <1>0, <1>1, <1>2, GrantTypes
<1>8. load.version \in Nat /\ load' \in LoadRow
  BY <1>0, <1>1, <1>2, <1>7 DEF TypeOK, LoadRow, LoadStatuses
<1>9. TypeOK'
  BY <1>0, <1>1, <1>2, <1>3, <1>7, <1>8, JobsLeft DEF TypeOK
<1>10. JobsKnown' /\ JobsChoose' /\ JobsAccept'
  BY <1>2, <1>3, <1>6, <1>7, StepKeepsJobs
<1>11. UnderWayToChosen'
  BY <1>0, <1>2 DEF UnderWayToChosen
<1>12. TakesWithinOpenings'
  BY <1>0, <1>2 DEF TakesWithinOpenings, TypeOK
<1>13. ~wiped => \A r \in Counted : owner[r] = c
  BY <1>0, <1>2 DEF Versioned, Counted
<1>14. Versioned'
  <2>1. load'.reservation = Granted /\ load'.version \in Nat /\ load'.version > load.version
    BY <1>2, <1>8
  <2> QED
    BY <1>1, <1>2, <1>3, <1>13, <2>1, GrantKeepsVersioned
<1> QED
  BY <1>5, <1>9, <1>10, <1>11, <1>12, <1>14 DEF Inductive

(* What is refused, made for the escrow, or broken off changes no row that *)
(* the invariant speaks of but the list itself.                            *)
LEMMA RestKeeps ==
  ASSUME Inductive, NEW h \in Handlers, StepsOn(h),
         UNCHANGED <<load, bid, lapsed, reservations, takes>>,
         funded' \subseteq chosen, \A k : ~Chooses(job[h][1], k) \/ job'[h] = << >>,
         unsettled \subseteq unsettled', unsettled' \subseteq {"late", "raced", "countered", "broken"},
         Settled'
  PROVE  Inductive'
<1>0. TypeOK /\ UnderWayToChosen /\ TakesWithinOpenings
  BY DEF Inductive
<1>1. Len(owner) <= Len(owner') /\ Len(owner') \in Nat /\ chosen' = chosen
  BY <1>0 DEF TypeOK, reservations, takes
<1>2. JobsKnown' /\ JobsChoose' /\ JobsAccept'
  BY <1>1, StepKeepsJobs
<1>3. Versioned'
  BY StepKeepsReservation
<1>4. TypeOK'
  <2>1. job' \in [Handlers -> Seq(Writes)] /\ ops' = ops
    BY <1>0, JobsLeft DEF StepsOn
  <2>2. funded' \subseteq Bids \cup Carriers
    BY <1>0 DEF TypeOK
  <2> QED
    BY <1>0, <2>1, <2>2 DEF TypeOK, reservations, takes
<1>5. UnderWayToChosen' /\ TakesWithinOpenings'
  BY <1>0, <1>1 DEF UnderWayToChosen, TakesWithinOpenings, takes
<1> QED
  BY <1>2, <1>3, <1>4, <1>5 DEF Inductive

LEMMA BookRefusedKeeps ==
  ASSUME Inductive, NEW h \in Handlers, BookRefused(h)
  PROVE  Inductive'
<1>0. TypeOK /\ UnderWayToChosen /\ JobsAccept /\ job[h] # << >>
  BY DEF Inductive, BookRefused, Doing
<1>1. job[h][1].do = "book" /\ 1 \in Index(job[h])
  BY <1>0, HeadWrite DEF BookRefused, Doing
<1>2. StepsOn(h) /\ UNCHANGED <<load, bid, funded, lapsed, reservations, takes, unsettled>>
  BY <1>0, AdvanceSteps DEF BookRefused
<1>3. job'[h] = << >>
  BY <1>0 DEF BookRefused, Drop, TypeOK
<1>4. ~Rejecting(job[h])
  BY <1>0, <1>1 DEF JobsAccept, AcceptShape
<1>5. Settled'
  BY <1>1, <1>2, <1>4, StepKeepsSettled
<1> QED
  BY <1>0, <1>2, <1>3, <1>5, RestKeeps DEF UnderWayToChosen, TypeOK

LEMMA DoFundKeeps ==
  ASSUME Inductive, NEW h \in Handlers, DoFund(h)
  PROVE  Inductive'
<1>0. TypeOK /\ UnderWayToChosen /\ JobsChoose /\ job[h] # << >>
  BY DEF Inductive, DoFund, Doing
<1>1. job[h][1].do = "fund" /\ 1 \in Index(job[h]) /\ Head(job[h]) = job[h][1]
  BY <1>0, HeadWrite DEF DoFund, Doing
<1>2. /\ StepsOn(h) /\ UNCHANGED <<load, bid, lapsed, reservations, takes, unsettled>>
      /\ funded' \in {funded, funded \cup {job[h][1].key}}
  BY <1>0, <1>1, AdvanceSteps DEF DoFund
<1>3. job'[h] = Tail(job[h])
  BY <1>0 DEF DoFund, Advance, TypeOK
<1>4. job[h][1].key \in chosen
  <2>1. Needs(job[h][1], job[h][1].key)
    BY <1>1 DEF Needs
  <2>2. job[h][1].key \in chosen \/ \E j \in 1 .. 1 - 1 : Chooses(job[h][j], job[h][1].key)
    BY <1>0, <1>1, <2>1 DEF JobsChoose, ChoiceFirst
  <2> QED
    BY <2>2
<1>5. Settled'
  BY <1>1, <1>2, <1>3, StepKeepsSettled
<1>6. funded' \subseteq chosen
  BY <1>0, <1>2, <1>4 DEF UnderWayToChosen
<1>7. \A k : ~Chooses(job[h][1], k)
  BY <1>1 DEF Chooses
<1> QED
  BY <1>0, <1>2, <1>5, <1>6, <1>7, RestKeeps DEF TypeOK

LEMMA BreakKeeps ==
  ASSUME Inductive, NEW h \in Handlers, Break(h)
  PROVE  Inductive'
<1>0. TypeOK /\ UnderWayToChosen /\ job[h] # << >>
  BY DEF Inductive, Break
<1>1. /\ StepsOn(h) /\ UNCHANGED <<load, bid, funded, lapsed, reservations, takes>>
      /\ unsettled' = unsettled \cup {"broken"}
  BY <1>0, AdvanceSteps DEF Break, Excuse
<1>2. job'[h] = << >>
  BY <1>0 DEF Break, Drop, TypeOK
<1>3. Settled'
  BY <1>1 DEF Settled
<1> QED
  BY <1>0, <1>1, <1>2, <1>3, RestKeeps DEF UnderWayToChosen, TypeOK

(* A handler that takes up an operation. *)
LEMMA TakeKeeps ==
  ASSUME Inductive, NEW h \in Handlers, NEW todo, Taken(h, todo)
  PROVE  Inductive'
<1>0. /\ TypeOK /\ JobsKnown /\ JobsChoose /\ JobsAccept /\ UnderWayToChosen
      /\ TakesWithinOpenings /\ Versioned /\ Settled
  BY DEF Inductive
<1>1. /\ job[h] = << >> /\ job' = [job EXCEPT ![h] = todo] /\ ops' = ops + 1
      /\ UNCHANGED <<load, bid, funded, lapsed, owner, wiped, takes>>
      /\ todo \in Seq(Writes) /\ todo # << >>
      /\ believed' \subseteq believed /\ unsettled \subseteq unsettled'
      /\ unsettled' \in SUBSET {"late", "raced", "countered", "broken"}
  BY DEF Taken, Take, TodoRight
<1>2. job'[h] = todo /\ \A g \in Handlers : g # h => job'[g] = job[g]
  BY <1>0, <1>1 DEF TypeOK
<1>3. chosen' = chosen /\ instantTakes' = instantTakes /\ openings' = openings
  BY <1>1 DEF takes
<1>4. TypeOK'
  <2>1. job' \in [Handlers -> Seq(Writes)] /\ ops' \in Nat
    BY <1>0, <1>1 DEF TypeOK
  <2> QED
    BY <1>0, <1>1, <1>3, <2>1 DEF TypeOK
<1>5. JobsKnown'
  BY <1>0, <1>1, <1>2 DEF JobsKnown, Taken, TodoRight
<1>6. JobsChoose'
  BY <1>0, <1>2, <1>3 DEF JobsChoose, Taken, TodoRight
<1>7. JobsAccept'
  <2> SUFFICES ASSUME NEW g \in Handlers
               PROVE  AcceptShape(job'[g], unsettled' = {})
    BY DEF JobsAccept
  <2>1. CASE g = h
    BY <1>2, <2>1 DEF Taken
  <2>2. CASE g # h
    BY <1>0, <1>1, <1>2, <2>2 DEF JobsAccept, AcceptShape
  <2> QED
    BY <2>1, <2>2
<1>8. UnderWayToChosen' /\ TakesWithinOpenings'
  BY <1>0, <1>1, <1>3 DEF UnderWayToChosen, TakesWithinOpenings
<1>9. Versioned'
  <2> SUFFICES ASSUME ~wiped
               PROVE  /\ \A r \in Counted' : r = load.reservation
                      /\ \A g \in Handlers : \A i \in Index(job'[g]) :
                           VersionRight(job'[g][i], load.version, Counted', owner)
    BY <1>1 DEF Versioned
  <2>1. Counted' \subseteq Counted
    BY <1>1 DEF Counted, Live
  <2>2. ASSUME NEW g \in Handlers, NEW i \in Index(job'[g])
        PROVE  VersionRight(job'[g][i], load.version, Counted, owner)
    <3>1. CASE g = h
      BY <1>2, <2>2, <3>1 DEF Taken, TodoRight
    <3>2. CASE g # h
      BY <1>0, <1>2, <2>2, <3>2 DEF Versioned
    <3> QED
      BY <3>1, <3>2
  <2> QED
    BY <1>0, <2>1, <2>2 DEF Versioned, VersionRight
<1>10. Settled'
  <2> SUFFICES ASSUME unsettled' = {}
               PROVE  Settled'
    BY DEF Settled
  <2>1. unsettled = {} /\ bid' = bid /\ ~Rejecting(job[h])
    <3>1. ~Rejecting(<< >>)
      BY DEF Rejecting, Index
    <3> QED
      BY <1>1, <3>1
  <2>2. /\ Rejecting(todo) => \A g \in Handlers : ~Rejecting(job[g])
        /\ Accepts(todo[1]) => bid[todo[1].b] \in {"PENDING", "COUNTERED"} /\ Rejecting(todo)
        /\ AcceptShape(todo, TRUE)
    <3>1. AcceptShape(todo, unsettled' = {}) /\ (unsettled' = {}) = TRUE
      BY DEF Taken
    <3>2. AcceptShape(todo, TRUE)
      BY <3>1 DEF AcceptShape
    <3>3. 1 \in Index(todo)
      BY <1>1 DEF Index
    <3> QED
      BY <3>2, <3>3 DEF Taken, AcceptShape, Accepts
  <2>3. \A g, x \in Handlers : Rejecting(job'[g]) /\ Rejecting(job'[x]) => g = x
    BY <1>0, <1>2, <2>1, <2>2 DEF Settled
  <2>4. (\A g \in Handlers : ~Rejecting(job'[g])) => \A g \in Handlers : ~Rejecting(job[g])
    BY <1>2, <2>1
  <2>5. ASSUME Accepts(todo[1])
        PROVE  \A b \in Bids : ~IsAccepted(b)
    <3>1. todo[1] \in Writes /\ todo[1].do = "saveBid"
      BY <1>1, <2>5 DEF Accepts
    <3>2. todo[1].b \in Bids
      BY <3>1 DEF Writes
    <3>3. bid[todo[1].b] = "PENDING" /\ \A g \in Handlers : ~Rejecting(job[g])
      BY <1>0, <2>1, <2>2, <2>5, <3>2 DEF Settled
    <3> QED
      BY <1>0, <2>1, <3>2, <3>3 DEF Settled
  <2>6. ASSUME NEW g \in Handlers, job'[g] # << >>, Accepts(job'[g][1])
        PROVE  \A b \in Bids : ~IsAccepted(b)
    <3>1. CASE g = h
      BY <1>2, <2>5, <2>6, <3>1
    <3>2. CASE g # h
      BY <1>0, <1>2, <2>1, <2>6, <3>2 DEF Settled
    <3> QED
      BY <3>1, <3>2
  <2>7. \A b \in Bids : IsAccepted(b)' <=> IsAccepted(b)
    BY <2>1 DEF IsAccepted
  <2> QED
    BY <1>0, <2>1, <2>3, <2>4, <2>6, <2>7 DEF Settled
<1> QED
  BY <1>4, <1>5, <1>6, <1>7, <1>8, <1>9, <1>10 DEF Inductive

LEMMA PlaceBidKeeps ==
  ASSUME Inductive, NEW b \in Bids, PlaceBid(b)
  PROVE  Inductive'
<1>0. /\ TypeOK /\ JobsKnown /\ JobsChoose /\ JobsAccept /\ UnderWayToChosen
      /\ TakesWithinOpenings /\ Versioned /\ Settled
  BY DEF Inductive
<1>1. /\ bid[b] = NoBid /\ bid' = [bid EXCEPT ![b] = "PENDING"]
      /\ unsettled' \in {unsettled, unsettled \cup {"late"}} /\ unsettled \subseteq unsettled'
      /\ unsettled' = {} => ~("ACCEPTED" \in {bid[x] : x \in Bids}) /\ ~\E h \in Handlers : Accepting(h)
      /\ UNCHANGED <<load, funded, lapsed, job, ops, owner, believed, wiped>>
      /\ chosen' = chosen /\ instantTakes' = instantTakes /\ openings' = openings
  BY DEF PlaceBid, Excuse, reservations, takes
<1>2. TypeOK'
  <2>1. bid' \in [Bids -> BidStatuses \cup {NoBid}]
    BY <1>0, <1>1 DEF TypeOK, BidStatuses
  <2> QED
    BY <1>0, <1>1, <2>1 DEF TypeOK
<1>3. JobsKnown' /\ JobsChoose' /\ UnderWayToChosen' /\ TakesWithinOpenings'
  BY <1>0, <1>1 DEF JobsKnown, JobsChoose, UnderWayToChosen, TakesWithinOpenings
<1>4. JobsAccept'
  BY <1>0, <1>1 DEF JobsAccept, AcceptShape
<1>5. Versioned'
  <2>1. Counted' = Counted
    BY <1>1 DEF Counted, Live
  <2> QED
    BY <1>0, <1>1, <2>1 DEF Versioned
<1>6. Settled'
  <2> SUFFICES ASSUME unsettled' = {}
               PROVE  Settled'
    BY DEF Settled
  <2>1. unsettled = {} /\ job' = job
    BY <1>1
  <2>2. \A x \in Bids : ~IsAccepted(x)
    BY <1>1 DEF IsAccepted
  <2>3. \A x \in Bids : bid'[x] = IF x = b THEN "PENDING" ELSE bid[x]
    BY <1>0, <1>1 DEF TypeOK
  <2>4. \A x \in Bids : ~IsAccepted(x)'
    BY <2>2, <2>3 DEF IsAccepted
  <2> QED
    BY <1>0, <2>1, <2>3, <2>4 DEF Settled
<1> QED
  BY <1>2, <1>3, <1>4, <1>5, <1>6 DEF Inductive

LEMMA LapseKeeps ==
  ASSUME Inductive, NEW r \in DOMAIN owner, Lapse(r)
  PROVE  Inductive'
<1>0. /\ TypeOK /\ JobsKnown /\ JobsChoose /\ JobsAccept /\ UnderWayToChosen
      /\ TakesWithinOpenings /\ Versioned /\ Settled
  BY DEF Inductive
<1>1. /\ lapsed' = lapsed \cup {r}
      /\ UNCHANGED <<load, bid, funded, job, ops, owner, believed, wiped, unsettled>>
      /\ chosen' = chosen /\ instantTakes' = instantTakes /\ openings' = openings
  BY DEF Lapse, reservations, takes
<1>2. TypeOK'
  BY <1>0, <1>1 DEF TypeOK
<1>3. JobsKnown' /\ JobsChoose' /\ UnderWayToChosen' /\ TakesWithinOpenings' /\ JobsAccept'
  BY <1>0, <1>1 DEF JobsKnown, JobsChoose, UnderWayToChosen, TakesWithinOpenings, JobsAccept
<1>4. Versioned'
  <2>1. Counted' \subseteq Counted
    BY <1>1 DEF Counted, Live
  <2> QED
    BY <1>0, <1>1, <2>1 DEF Versioned, VersionRight
<1>5. Settled'
  BY <1>0, <1>1 DEF Settled, IsAccepted
<1> QED
  BY <1>2, <1>3, <1>4, <1>5 DEF Inductive

LEMMA InitInductive == Init => Inductive
<1> SUFFICES ASSUME Init
             PROVE  Inductive
  OBVIOUS
<1>1. \A h \in Handlers : job[h] = << >> /\ Index(job[h]) = {}
  BY DEF Init, Index
<1>2. TypeOK
  <2>1. load \in LoadRow /\ load.reservation \in 0 .. Len(owner)
    BY DEF Init, LoadRow, LoadStatuses
  <2>2. bid \in [Bids -> BidStatuses \cup {NoBid}] /\ job \in [Handlers -> Seq(Writes)]
    BY DEF Init
  <2>3. owner \in Seq(Carriers) /\ ops \in Nat /\ instantTakes \in Nat /\ openings \in Nat
    <3>1. owner = << >> /\ ops = 0 /\ instantTakes = 0 /\ openings = 1
      BY DEF Init
    <3> QED
      BY <3>1
  <2>4. wiped \in BOOLEAN
    BY DEF Init
  <2>5. funded = {} /\ lapsed = {} /\ believed = {} /\ chosen = {} /\ unsettled = {}
    BY DEF Init
  <2> QED
    BY <2>1, <2>2, <2>3, <2>4, <2>5 DEF TypeOK
<1>3. JobsKnown /\ JobsChoose /\ JobsAccept
  BY <1>1 DEF JobsKnown, JobsChoose, ChoiceFirst, JobsAccept, AcceptShape, Rejecting
<1>4. UnderWayToChosen /\ TakesWithinOpenings
  BY DEF Init, UnderWayToChosen, TakesWithinOpenings
<1>5. Versioned
  BY <1>1 DEF Init, Versioned, Counted
<1>6. Settled
  <2>1. \A b \in Bids : bid[b] \notin BidStatuses
    BY MarkerAssumption DEF Init
  <2>2. \A b \in Bids : ~IsAccepted(b) /\ bid[b] # "COUNTERED"
    BY <2>1 DEF IsAccepted, BidStatuses
  <2> QED
    BY <1>1, <2>2 DEF Settled, Rejecting
<1> QED
  BY <1>2, <1>3, <1>4, <1>5, <1>6 DEF Inductive

LEMMA NextInductive == Inductive /\ [Next]_vars => Inductive'
<1> SUFFICES ASSUME Inductive, [Next]_vars
             PROVE  Inductive'
  OBVIOUS
<1>1. CASE UNCHANGED vars
  BY <1>1 DEF vars, reservations, takes, Inductive, TypeOK, JobsKnown, JobsChoose, UnderWayToChosen,
     TakesWithinOpenings, Versioned, Counted, Live, JobsAccept, Settled, IsAccepted
<1>2. CASE \E b \in Bids : PlaceBid(b)
  BY <1>2, PlaceBidKeeps
<1>3. CASE \E r \in DOMAIN owner : Lapse(r)
  BY <1>3, LapseKeeps
<1>4. ASSUME NEW h \in Handlers, (\E b \in Bids : BidCall(h, b)) \/ LoadCall(h) \/ ReservationCall(h)
      PROVE  Inductive'
  BY <1>4, CallTaken, TakeKeeps
<1>5. ASSUME NEW h \in Handlers, Write(h)
      PROVE  Inductive'
  BY <1>5, DoSaveBidKeeps, DoRejectOthersKeeps, DoSaveLoadKeeps, DoReserveKeeps, DoClearKeeps,
     DoBookKeeps, BookRefusedKeeps, DoFundKeeps DEF Write
<1>6. ASSUME NEW h \in Handlers, Break(h)
      PROVE  Inductive'
  BY <1>6, BreakKeeps
<1> QED
  BY <1>1, <1>2, <1>3, <1>4, <1>5, <1>6 DEF Next

(* What every reachable state satisfies, about the rows and about the      *)
(* writes that the handlers have left.                                     *)
THEOREM InductiveInvariant == Spec => []Inductive
BY InitInductive, NextInductive, PTL DEF Spec

(* The row, the bids and the writes under way are always of their types,   *)
(* however many carriers, bids and handlers there are.                     *)
THEOREM TypeCorrect == Spec => []TypeOK
BY InductiveInvariant, PTL DEF Inductive

(* instantBook's "ilk gelen alir": bookings and saves of the load may      *)
(* interleave in any way, and each opening is taken by one booking at most.*)
THEOREM FirstComeTakes == Spec => []OneInstantTake
<1>1. Inductive => OneInstantTake
  BY DEF Inductive, TypeOK, TakesWithinOpenings, OneInstantTake
<1> QED
  BY <1>1, InductiveInvariant, PTL

(* acceptBid, acceptCounterOffer, instantBook and acceptLoad store the     *)
(* choice before the load and the escrow that follow from it, so whatever  *)
(* breaks off in between leaves no load under way to a carrier that nobody *)
(* chose.                                                                  *)
THEOREM ChosenBeforeUnderWay == Spec => []UnderWayToChosen
BY InductiveInvariant, PTL DEF Inductive

-----------------------------------------------------------------------------
(* At most one element is at most a cardinality of one.                    *)

LEMMA AtMostOne ==
  ASSUME NEW S, \A x, y \in S : x = y
  PROVE  ~(Cardinality(S) > 1)
<1>1. CASE S = {}
  BY <1>1, FS_EmptySet
<1>2. CASE \E x \in S : S = {x}
  BY <1>2, FS_Singleton
<1> QED
  BY <1>1, <1>2

(* The version check of reserveLoad and instantBook: two carriers never    *)
(* both count on a live reservation unless an unversioned write removed    *)
(* one, however many reserve, book, release and save at once.              *)
THEOREM OneCountsOnTheLoad == Spec => []OneLiveReservation
<1>1. ASSUME Inductive
      PROVE  OneLiveReservation
  <2>1. ~wiped => \A x, y \in Counted : x = y
    BY <1>1 DEF Inductive, Versioned
  <2>2. ~wiped => ~(Cardinality(Counted) > 1)
    BY <2>1, AtMostOne
  <2> QED
    BY <2>2 DEF OneLiveReservation, Counted
<1> QED
  BY <1>1, InductiveInvariant, PTL

(* acceptBid rejects the others: without a late bid, a counter-offer, a    *)
(* second acceptance at the same time or a failure half way, at most one   *)
(* bid of a load is accepted.                                              *)
THEOREM OneBidAccepted == Spec => []OneAcceptedBid
<1>1. ASSUME Inductive
      PROVE  OneAcceptedBid
  <2> DEFINE accepted == {b \in Bids : bid[b] = "ACCEPTED"}
  <2>1. unsettled = {} => \A x, y \in accepted : x = y
    BY <1>1 DEF Inductive, Settled, IsAccepted
  <2>2. unsettled = {} => ~(Cardinality(accepted) > 1)
    BY <2>1, AtMostOne
  <2> QED
    BY <2>2 DEF OneAcceptedBid
<1> QED
  BY <1>1, InductiveInvariant, PTL
=============================================================================
