---------------------------- MODULE OutboxProofs ----------------------------
(***************************************************************************)
(* Proofs about Outbox, for any number of events and concurrent drains.    *)
(***************************************************************************)
EXTENDS Outbox, FiniteSetTheorems, TLAPS

LEMMA InitPublished == Init => PublishedInv
BY OutboxAssumption
   DEF OutboxAssumption, Init, Idle, PublishedInv, TypeOK, Row, Drain, AtHandIsEvent,
       MarkedWasPublished, DeliveredIsTrue

\* What a claim takes are events.
LEMMA FirstDueEvents ==
  ASSUME TypeOK, NEW skip
  PROVE  FirstDue(skip) \subseteq Event
<1>1. \A i \in DOMAIN created : created[i] \in Event
  BY DEF TypeOK
<1> QED
  BY <1>1 DEF FirstDue

LEMMA DrainUpdate ==
  ASSUME TypeOK, NEW w \in Drainer, NEW d \in Drain
  PROVE  [drain EXCEPT ![w] = d] \in [Drainer -> Drain]
BY DEF TypeOK

\* The drain after it has dealt with the event at hand.
LEMMA RestIsDrain ==
  ASSUME TypeOK, NEW w \in Drainer
  PROVE  Rest(w) \in Drain /\ Rest(w).step \in {"idle", "next"}
BY DEF TypeOK, Rest, Idle, Drain

\* A step in which published does not shrink, row keeps what is delivered or marks
\* an event that was published, and drain changes at one worker.
LEMMA StepPublished ==
  ASSUME PublishedInv, Next
  PROVE  PublishedInv'
<1>0. TypeOK /\ AtHandIsEvent /\ MarkedWasPublished /\ DeliveredIsTrue
  BY DEF PublishedInv
<1>1. CASE \E e \in Event : Insert(e)
  <2>1. PICK e \in Event : Insert(e)
    BY <1>1
  <2>2. PICK delay \in {0, RetryDelay} :
          row' = [row EXCEPT ![e] = [state |-> "waiting", wait |-> delay]]
    BY <2>1 DEF Insert
  <2>3. [state |-> "waiting", wait |-> delay] \in Row
    BY OutboxAssumption DEF OutboxAssumption, Row
  <2>4. row' \in [Event -> Row]
    BY <1>0, <2>2, <2>3 DEF TypeOK
  <2>5. created' \in Seq(Event) /\ UNCHANGED <<drain, published, interrupted, shared>>
    <3>1. PICK i \in 0..Len(created) :
            created' = SubSeq(created, 1, i) \o <<e>> \o SubSeq(created, i + 1, Len(created))
      BY <2>1 DEF Insert
    <3>2. /\ SubSeq(created, 1, i) \in Seq(Event)
          /\ SubSeq(created, i + 1, Len(created)) \in Seq(Event)
      BY <1>0 DEF TypeOK
    <3>3. created' \in Seq(Event)
      BY <3>1, <3>2
    <3> QED
      BY <2>1, <3>3 DEF Insert
  <2>6. DeliveredIsTrue'
    BY <1>0, <2>2, <2>5 DEF DeliveredIsTrue, TypeOK
  <2> QED
    BY <1>0, <2>4, <2>5, <2>6 DEF PublishedInv, TypeOK, AtHandIsEvent, MarkedWasPublished
<1>2. CASE Tick
  <2>1. \A e \in Event : [row[e] EXCEPT !.wait = IF row[e].wait > 0 THEN row[e].wait - 1 ELSE 0]
                           \in Row
    <3>1. \A r \in Row, n \in Nat : [r EXCEPT !.wait = n] \in Row
      BY DEF Row
    <3>2. \A e \in Event : row[e] \in Row
                           /\ (IF row[e].wait > 0 THEN row[e].wait - 1 ELSE 0) \in Nat
      BY <1>0 DEF TypeOK, Row
    <3> QED
      BY <3>1, <3>2
  <2>2. row' \in [Event -> Row] /\ UNCHANGED <<created, drain, published, interrupted, shared>>
    BY <1>2, <2>1 DEF Tick
  <2>3. \A e \in Event : row'[e].state = row[e].state
    BY <1>0, <1>2 DEF Tick, TypeOK, Row
  <2> QED
    BY <1>0, <2>2, <2>3 DEF PublishedInv, TypeOK, AtHandIsEvent, MarkedWasPublished, DeliveredIsTrue
<1>3. ASSUME NEW w \in Drainer, ClaimUndelivered(w) PROVE PublishedInv'
  <2>1. PICK skip \in SUBSET ClaimedByOthers(w) :
          /\ drain' = [drain EXCEPT ![w] = [step |-> "next", batch |-> FirstDue(skip), at |-> None]]
          /\ shared' = shared \cup (FirstDue(skip) \cap ClaimedByOthers(w))
    BY <1>3 DEF ClaimUndelivered
  <2>2. [step |-> "next", batch |-> FirstDue(skip), at |-> None] \in Drain
    BY <1>0, FirstDueEvents DEF Drain
  <2>3. drain' \in [Drainer -> Drain]
    BY <1>0, <2>1, <2>2, DrainUpdate
  <2>4. UNCHANGED <<row, created, published, interrupted>> /\ shared' \subseteq Event
    BY <1>0, <1>3, <2>1, FirstDueEvents DEF ClaimUndelivered, TypeOK
  <2>5. \A v \in Drainer : drain'[v] = drain[v] \/ drain'[v].step = "next"
    BY <1>0, <2>1 DEF TypeOK
  <2> QED
    BY <1>0, <2>3, <2>4, <2>5 DEF PublishedInv, TypeOK, AtHandIsEvent, MarkedWasPublished, DeliveredIsTrue
<1>4. ASSUME NEW w \in Drainer, NEW e \in Event, Publish(w, e) PROVE PublishedInv'
  <2>1. drain' = [drain EXCEPT ![w] = [step |-> "mark", batch |-> drain[w].batch \ {e}, at |-> e]]
        /\ published' = [published EXCEPT ![e] = published[e] + 1]
        /\ UNCHANGED <<row, created, interrupted, shared>>
    BY <1>4 DEF Publish
  <2>2. [step |-> "mark", batch |-> drain[w].batch \ {e}, at |-> e] \in Drain
    BY <1>0 DEF TypeOK, Drain
  <2>3. drain' \in [Drainer -> Drain]
    BY <1>0, <2>1, <2>2, DrainUpdate
  <2>4. published' \in [Event -> Nat] /\ published'[e] > 0
        /\ \A x \in Event : published'[x] >= published[x]
    BY <1>0, <2>1 DEF TypeOK
  <2>5. \A v \in Drainer : drain'[v] = drain[v] \/ drain'[v].at = e
    BY <1>0, <2>1 DEF TypeOK
  <2>6. AtHandIsEvent'
    BY <1>0, <2>5 DEF AtHandIsEvent
  <2>7. MarkedWasPublished'
    <3> SUFFICES ASSUME NEW v \in Drainer, drain'[v].step = "mark"
                 PROVE  published'[drain'[v].at] > 0
      BY DEF MarkedWasPublished
    <3>1. CASE drain'[v].at = e
      BY <2>4, <3>1
    <3>2. CASE drain'[v] = drain[v]
      <4>1. drain[v].at \in Event /\ published[drain[v].at] > 0
        BY <1>0, <3>2 DEF AtHandIsEvent, MarkedWasPublished
      <4> QED
        BY <1>0, <2>4, <3>2, <4>1 DEF TypeOK
    <3> QED
      BY <2>5, <3>1, <3>2
  <2>8. DeliveredIsTrue'
    BY <1>0, <2>1, <2>4 DEF DeliveredIsTrue, TypeOK
  <2> QED
    BY <1>0, <2>1, <2>3, <2>4, <2>6, <2>7, <2>8 DEF PublishedInv, TypeOK
<1>5. ASSUME NEW w \in Drainer, NEW e \in Event, PublishFails(w, e) \/ PublishUnsure(w, e)
      PROVE  PublishedInv'
  <2>1. drain' = [drain EXCEPT ![w] = [step |-> "fail", batch |-> drain[w].batch \ {e}, at |-> e]]
        /\ UNCHANGED <<row, created, shared>>
    BY <1>5 DEF PublishFails, PublishUnsure
  <2>2. [step |-> "fail", batch |-> drain[w].batch \ {e}, at |-> e] \in Drain
    BY <1>0 DEF TypeOK, Drain
  <2>3. drain' \in [Drainer -> Drain]
    BY <1>0, <2>1, <2>2, DrainUpdate
  <2>4. published' \in [Event -> Nat] /\ interrupted' \in [Event -> Nat]
        /\ \A x \in Event : published'[x] >= published[x]
    <3>1. CASE PublishFails(w, e)
      BY <1>0, <3>1 DEF TypeOK, PublishFails
    <3>2. CASE PublishUnsure(w, e)
      <4>1. published' = [published EXCEPT ![e] = published[e] + 1]
            /\ interrupted' = [interrupted EXCEPT ![e] = interrupted[e] + 1]
        BY <3>2 DEF PublishUnsure
      <4> QED
        BY <1>0, <4>1 DEF TypeOK
    <3> QED
      BY <1>5, <3>1, <3>2
  <2>5. \A v \in Drainer :
          drain'[v] = drain[v] \/ (drain'[v].at = e /\ drain'[v].step = "fail")
    BY <1>0, <2>1 DEF TypeOK
  <2>6. AtHandIsEvent' /\ MarkedWasPublished'
    <3>1. AtHandIsEvent'
      BY <1>0, <2>5 DEF AtHandIsEvent
    <3>2. ASSUME NEW v \in Drainer, drain'[v].step = "mark" PROVE published'[drain'[v].at] > 0
      <4>1. drain'[v] = drain[v]
        BY <2>5, <3>2
      <4>2. drain[v].at \in Event /\ published[drain[v].at] > 0
        BY <1>0, <3>2, <4>1 DEF AtHandIsEvent, MarkedWasPublished
      <4> QED
        BY <1>0, <2>4, <4>1, <4>2 DEF TypeOK
    <3> QED
      BY <3>1, <3>2 DEF MarkedWasPublished
  <2>7. DeliveredIsTrue'
    BY <1>0, <2>1, <2>4 DEF DeliveredIsTrue, TypeOK
  <2> QED
    BY <1>0, <2>1, <2>3, <2>4, <2>6, <2>7 DEF PublishedInv, TypeOK
<1>6. ASSUME NEW w \in Drainer, MarkDelivered(w) PROVE PublishedInv'
  <2>1. drain[w].at \in Event /\ published[drain[w].at] > 0
    BY <1>0, <1>6 DEF MarkDelivered, AtHandIsEvent, MarkedWasPublished
  <2>2. row' = [row EXCEPT ![drain[w].at] = [row[drain[w].at] EXCEPT !.state = "delivered"]]
        /\ drain' = [drain EXCEPT ![w] = Rest(w)]
        /\ UNCHANGED <<created, published, interrupted, shared>>
    BY <1>6 DEF MarkDelivered
  <2>3. \A r \in Row : [r EXCEPT !.state = "delivered"] \in Row
    BY DEF Row
  <2>4. row' \in [Event -> Row]
    BY <1>0, <2>1, <2>2, <2>3 DEF TypeOK
  <2>5. drain' \in [Drainer -> Drain]
    BY <1>0, <2>2, RestIsDrain, DrainUpdate
  <2>6. \A v \in Drainer : drain'[v] = drain[v] \/ drain'[v].step \in {"idle", "next"}
    BY <1>0, <2>2, RestIsDrain DEF TypeOK
  <2>7. AtHandIsEvent' /\ MarkedWasPublished'
    BY <1>0, <2>2, <2>6 DEF AtHandIsEvent, MarkedWasPublished
  <2>8. DeliveredIsTrue'
    BY <1>0, <2>1, <2>2 DEF DeliveredIsTrue, TypeOK
  <2> QED
    BY <1>0, <2>2, <2>4, <2>5, <2>7, <2>8 DEF PublishedInv, TypeOK
<1>7. ASSUME NEW w \in Drainer, MarkFailed(w) PROVE PublishedInv'
  <2>1. drain[w].at \in Event
    BY <1>0, <1>7 DEF MarkFailed, AtHandIsEvent
  <2>2. row' = [row EXCEPT ![drain[w].at] = [row[drain[w].at] EXCEPT !.wait = RetryDelay]]
        /\ drain' = [drain EXCEPT ![w] = Rest(w)]
        /\ UNCHANGED <<created, published, interrupted, shared>>
    BY <1>7 DEF MarkFailed
  <2>3. \A r \in Row : [r EXCEPT !.wait = RetryDelay] \in Row
                       /\ [r EXCEPT !.wait = RetryDelay].state = r.state
    BY OutboxAssumption DEF OutboxAssumption, Row
  <2>4. row' \in [Event -> Row] /\ \A e \in Event : row'[e].state = row[e].state
    BY <1>0, <2>1, <2>2, <2>3 DEF TypeOK
  <2>5. drain' \in [Drainer -> Drain]
    BY <1>0, <2>2, RestIsDrain, DrainUpdate
  <2>6. \A v \in Drainer : drain'[v] = drain[v] \/ drain'[v].step \in {"idle", "next"}
    BY <1>0, <2>2, RestIsDrain DEF TypeOK
  <2>7. AtHandIsEvent' /\ MarkedWasPublished'
    BY <1>0, <2>2, <2>6 DEF AtHandIsEvent, MarkedWasPublished
  <2>8. DeliveredIsTrue'
    BY <1>0, <2>2, <2>4 DEF DeliveredIsTrue
  <2> QED
    BY <1>0, <2>2, <2>4, <2>5, <2>7, <2>8 DEF PublishedInv, TypeOK
<1>8. ASSUME NEW w \in Drainer, MarkDeliveredFails(w) PROVE PublishedInv'
  <2>1. drain[w].at \in Event
    BY <1>0, <1>8 DEF MarkDeliveredFails, AtHandIsEvent
  <2>2. drain' = [drain EXCEPT ![w] = [drain[w] EXCEPT !.step = "fail"]]
        /\ interrupted' = [interrupted EXCEPT ![drain[w].at] = interrupted[drain[w].at] + 1]
        /\ UNCHANGED <<row, created, published, shared>>
    BY <1>8 DEF MarkDeliveredFails
  <2>3. [drain[w] EXCEPT !.step = "fail"] \in Drain
        /\ [drain[w] EXCEPT !.step = "fail"].step = "fail"
        /\ [drain[w] EXCEPT !.step = "fail"].at = drain[w].at
    BY <1>0 DEF TypeOK, Drain
  <2>4. drain' \in [Drainer -> Drain]
    BY <1>0, <2>2, <2>3, DrainUpdate
  <2>5. interrupted' \in [Event -> Nat]
    BY <1>0, <2>1, <2>2 DEF TypeOK
  <2>6. \A v \in Drainer : \/ drain'[v] = drain[v]
                           \/ drain'[v].step = "fail" /\ drain'[v].at \in Event
    BY <1>0, <2>1, <2>2, <2>3 DEF TypeOK
  <2>7. AtHandIsEvent' /\ MarkedWasPublished' /\ DeliveredIsTrue'
    BY <1>0, <2>2, <2>6 DEF AtHandIsEvent, MarkedWasPublished, DeliveredIsTrue
  <2> QED
    BY <1>0, <2>2, <2>4, <2>5, <2>7 DEF PublishedInv, TypeOK
<1>9. ASSUME NEW w \in Drainer, Abort(w) PROVE PublishedInv'
  <2>1. drain' = [drain EXCEPT ![w] = Idle] /\ UNCHANGED <<row, created, published, shared>>
    BY <1>9 DEF Abort
  <2>2. Idle \in Drain
    BY DEF Idle, Drain
  <2>3. drain' \in [Drainer -> Drain]
    BY <1>0, <2>1, <2>2, DrainUpdate
  <2>4. interrupted' \in [Event -> Nat]
    BY <1>0, <1>9 DEF TypeOK, Abort, AtHandIsEvent
  <2>5. \A v \in Drainer : drain'[v] = drain[v] \/ drain'[v].step = "idle"
    BY <1>0, <2>1 DEF TypeOK, Idle
  <2>6. AtHandIsEvent' /\ MarkedWasPublished' /\ DeliveredIsTrue'
    BY <1>0, <2>1, <2>5 DEF AtHandIsEvent, MarkedWasPublished, DeliveredIsTrue
  <2> QED
    BY <1>0, <2>1, <2>3, <2>4, <2>6 DEF PublishedInv, TypeOK
<1> QED
  BY <1>1, <1>2, <1>3, <1>4, <1>5, <1>6, <1>7, <1>8, <1>9 DEF Next, DrainStep

\* The invariant: a drain about to mark an event has published it.
THEOREM PublishedInvariance == Spec => []PublishedInv
<1>1. ASSUME PublishedInv, UNCHANGED vars PROVE PublishedInv'
  BY <1>1 DEF vars, PublishedInv, TypeOK, AtHandIsEvent, MarkedWasPublished, DeliveredIsTrue
<1> QED
  BY <1>1, InitPublished, StepPublished, PTL DEF Spec

\* An event marked delivered was taken by the bus, for any number of drains that
\* share the queue without a lease.
THEOREM DeliveredMeansPublished == Spec => []DeliveredIsTrue
BY PublishedInvariance, PTL DEF PublishedInv

\* Delivered is final, for any number of drains.
THEOREM DeliveredStays == Spec => DeliveredIsFinal
<1>1. ASSUME PublishedInv, Next, NEW e \in Event, row[e].state = "delivered"
      PROVE  row'[e].state = "delivered"
  <2>0. TypeOK
    BY <1>1 DEF PublishedInv
  <2>1. CASE \E x \in Event : Insert(x)
    BY <1>1, <2>0, <2>1 DEF Insert, TypeOK
  <2>2. CASE Tick
    BY <1>1, <2>0, <2>2 DEF Tick, TypeOK, Row
  <2>3. CASE \E w \in Drainer : MarkDelivered(w)
    BY <1>1, <2>0, <2>3 DEF MarkDelivered, TypeOK, Row
  <2>4. CASE \E w \in Drainer : MarkFailed(w)
    BY <1>1, <2>0, <2>4 DEF MarkFailed, TypeOK, Row
  <2>5. CASE UNCHANGED row
    BY <1>1, <2>5
  <2> QED
    BY <1>1, <2>1, <2>2, <2>3, <2>4, <2>5
       DEF Next, DrainStep, ClaimUndelivered, Publish, PublishFails, PublishUnsure,
           MarkDeliveredFails, Abort
<1>2. PublishedInv /\ [Next]_vars =>
        [\A e \in Event : row[e].state = "delivered" => row'[e].state = "delivered"]_row
  BY <1>1 DEF vars
<1> QED
  BY <1>2, PublishedInvariance, PTL DEF Spec, DeliveredIsFinal
-----------------------------------------------------------------------------
(* Why an event that only one drain held has no unexplained copies: its    *)
(* holder is the only drain that can publish or mark it, and gives it up   *)
(* when it is delivered.                                                   *)

LEMMA InitClaims == Init => ClaimInv
<1> SUFFICES ASSUME Init PROVE ClaimInv
  OBVIOUS
<1>1. \A w \in Drainer : drain[w] = Idle
  BY DEF Init
<1>2. HoldsItsBatch /\ OneHolder
  BY <1>1 DEF HoldsItsBatch, OneHolder, Held, Idle
<1>3. \A e \in Event : row[e].state = "absent" /\ published[e] = 0 /\ interrupted[e] = 0
  BY DEF Init
<1>4. \A e \in Event : Cardinality(AtHand(e)) = 0
  <2>1. \A e : AtHand(e) = {}
    BY <1>1 DEF AtHand, Idle
  <2> QED
    BY <2>1, FS_EmptySet
<1>5. DeliveredIsReleased
  BY <1>3 DEF DeliveredIsReleased
<1>6. CopiesAccountedFor
  BY <1>3, <1>4 DEF CopiesAccountedFor
<1> QED
  BY <1>2, <1>5, <1>6 DEF ClaimInv

LEMMA AtMostOne ==
  ASSUME NEW S, NEW x, S \subseteq {x}
  PROVE  Cardinality(S) = IF x \in S THEN 1 ELSE 0
<1>1. CASE x \in S
  <2>1. S = {x}
    BY <1>1
  <2> QED
    BY <1>1, <2>1, FS_Singleton
<1>2. CASE x \notin S
  <2>1. S = {}
    BY <1>2
  <2> QED
    BY <1>2, <2>1, FS_EmptySet
<1> QED
  BY <1>1, <1>2

\* The only drain that can have a held event at hand is its holder.
LEMMA HolderMarks ==
  ASSUME OneHolder, NEW e \in Event \ shared, NEW w \in Drainer, e \in Held(w)
  PROVE  AtHand(e) \subseteq {w}
<1> SUFFICES ASSUME NEW v \in AtHand(e) PROVE v = w
  OBVIOUS
<1>1. v \in Drainer /\ drain[v].at = e
  BY DEF AtHand
<1>2. e \in Held(v)
  BY <1>1, OutboxAssumption DEF Held, OutboxAssumption
<1> QED
  BY <1>1, <1>2 DEF OneHolder

\* When no drain other than w moves, whether others have an event at hand is kept.
LEMMA OthersAtHand ==
  ASSUME NEW w \in Drainer, NEW e, \A v \in Drainer \ {w} : drain'[v] = drain[v]
  PROVE  AtHand(e)' \ {w} = AtHand(e) \ {w}
BY DEF AtHand

\* What a drain other than by a claim does to what it holds.
LEMMA HoldsNoMore ==
  ASSUME TypeOK, HoldsItsBatch, NEW w \in Drainer,
         \/ MarkDelivered(w) \/ MarkFailed(w) \/ MarkDeliveredFails(w) \/ Abort(w)
         \/ \E e \in Event : Publish(w, e) \/ PublishFails(w, e) \/ PublishUnsure(w, e)
  PROVE  /\ \A v \in Drainer \ {w} : drain'[v] = drain[v]
         /\ Held(w)' \subseteq Held(w)
         /\ drain[w].step \in {"mark", "fail"} /\ drain'[w].step # "fail"
              => drain[w].at \notin Held(w)'
         /\ HoldsItsBatch'
         /\ UNCHANGED shared
<1>0. drain \in [Drainer -> Drain] /\ drain[w] \in Drain
  BY DEF TypeOK
<1>1. PICK d : drain' = [drain EXCEPT ![w] = d]
  <2>1. CASE MarkDeliveredFails(w)
    <3>1. drain' = [drain EXCEPT ![w] = [drain[w] EXCEPT !.step = "fail"]]
      BY <2>1 DEF MarkDeliveredFails
    <3> QED
      BY <3>1
  <2> QED
    BY <2>1 DEF MarkDelivered, MarkFailed, Abort, Publish, PublishFails, PublishUnsure
<1>2. drain'[w] = d /\ \A v \in Drainer \ {w} : drain'[v] = drain[v]
  BY <1>0, <1>1
<1> DEFINE Good ==
             /\ UNCHANGED shared
             /\ (d.batch \cup {d.at}) \ {None} \subseteq Held(w)
             /\ drain[w].step \in {"mark", "fail"} /\ d.step # "fail"
                  => drain[w].at \notin (d.batch \cup {d.at}) \ {None}
             /\ d.step = "idle" => d.batch = {}
             /\ d.step \in {"idle", "next"} => d.at = None
             /\ d.at \notin d.batch
<1>3. SUFFICES Good
  <2>1. Held(w)' = (d.batch \cup {d.at}) \ {None}
    BY <1>2 DEF Held
  <2>2. \A v \in Drainer :
          /\ drain'[v].step = "idle" => drain'[v].batch = {}
          /\ drain'[v].step \in {"idle", "next"} => drain'[v].at = None
          /\ drain'[v].at \notin drain'[v].batch
    BY <1>2, <1>3 DEF HoldsItsBatch
  <2> QED
    BY <1>2, <1>3, <2>1, <2>2 DEF HoldsItsBatch
<1>4. drain[w].at \notin drain[w].batch
  BY DEF HoldsItsBatch
<1>5. CASE MarkDelivered(w) \/ MarkFailed(w)
  <2>1. d = Rest(w) /\ UNCHANGED shared
    BY <1>0, <1>2, <1>5 DEF MarkDelivered, MarkFailed
  <2>2. d.batch = drain[w].batch /\ d.at = None /\ None \notin drain[w].batch
    BY <1>0, <2>1, OutboxAssumption DEF Rest, Idle, Drain, OutboxAssumption
  <2>3. d.step = "idle" => d.batch = {}
    BY <2>1 DEF Rest, Idle
  <2> QED
    BY <1>4, <2>1, <2>2, <2>3 DEF Held
<1>6. CASE MarkDeliveredFails(w)
  <2>1. d = [drain[w] EXCEPT !.step = "fail"] /\ UNCHANGED shared
    BY <1>0, <1>2, <1>6 DEF MarkDeliveredFails
  <2>2. d.batch = drain[w].batch /\ d.at = drain[w].at /\ d.step = "fail"
    BY <1>0, <2>1 DEF Drain
  <2> QED
    BY <1>4, <2>1, <2>2 DEF Held
<1>7. CASE Abort(w)
  <2>1. d = Idle /\ UNCHANGED shared
    BY <1>0, <1>2, <1>7 DEF Abort
  <2> QED
    BY <2>1 DEF Held, Idle
<1>8. ASSUME NEW e \in Event, Publish(w, e) \/ PublishFails(w, e) \/ PublishUnsure(w, e)
      PROVE  Good
  <2>1. /\ drain[w].step = "next" /\ e \in drain[w].batch
        /\ d.batch = drain[w].batch \ {e} /\ d.at = e /\ d.step \in {"mark", "fail"}
        /\ UNCHANGED shared
    BY <1>0, <1>2, <1>8 DEF Publish, PublishFails, PublishUnsure
  <2> QED
    BY <2>1 DEF Held
<1> QED
  BY <1>5, <1>6, <1>7, <1>8
\* What is due and claimed is a waiting event.
LEMMA FirstDueWaits ==
  ASSUME TypeOK, NEW skip, NEW e \in FirstDue(skip)
  PROVE  e \in Event /\ row[e].state = "waiting"
<1>1. e \in Event
  BY FirstDueEvents
<1>2. Due(e)
  BY DEF FirstDue
<1> QED
  BY <1>1, <1>2 DEF Due

LEMMA ClaimStep ==
  ASSUME PublishedInv, ClaimInv, NEW w \in Drainer, ClaimUndelivered(w)
  PROVE  ClaimInv'
<1>0. TypeOK /\ HoldsItsBatch /\ OneHolder /\ DeliveredIsReleased /\ CopiesAccountedFor
  BY DEF PublishedInv, ClaimInv
<1>1. PICK skip :
        /\ drain' = [drain EXCEPT ![w] = [step |-> "next", batch |-> FirstDue(skip), at |-> None]]
        /\ shared' = shared \cup (FirstDue(skip) \cap ClaimedByOthers(w))
  BY DEF ClaimUndelivered
<1>2. drain[w].step = "idle" /\ UNCHANGED <<row, created, published, interrupted>>
  BY DEF ClaimUndelivered
<1>3. /\ drain'[w] = [step |-> "next", batch |-> FirstDue(skip), at |-> None]
      /\ \A v \in Drainer \ {w} : drain'[v] = drain[v]
  BY <1>0, <1>1 DEF TypeOK
<1>4. \A e \in FirstDue(skip) : e \in Event /\ row[e].state = "waiting" /\ e # None
  BY <1>0, FirstDueWaits, OutboxAssumption DEF OutboxAssumption
<1>5. /\ Held(w)' = FirstDue(skip)
      /\ \A v \in Drainer \ {w} : Held(v)' = Held(v)
  BY <1>3, <1>4 DEF Held
<1>6. \A v \in Drainer \ {w} : Held(v) \subseteq ClaimedByOthers(w)
  <2> SUFFICES ASSUME NEW v \in Drainer \ {w}, NEW e \in Held(v)
               PROVE  e \in ClaimedByOthers(w)
    OBVIOUS
  <2>1. e \in drain[v].batch \cup {drain[v].at} /\ e # None
    BY DEF Held
  <2>2. e \in UNION {drain[u].batch \cup {drain[u].at} : u \in Drainer \ {w}}
    BY <2>1
  <2> QED
    BY <2>1, <2>2 DEF ClaimedByOthers
<1>7. shared \subseteq shared'
  BY <1>1
<1>8. HoldsItsBatch'
  <2>1. None \notin FirstDue(skip)
    BY <1>4
  <2> QED
    BY <1>0, <1>3, <2>1 DEF HoldsItsBatch
<1>9. OneHolder'
  <2> SUFFICES ASSUME NEW e \in Event \ shared', NEW u \in Drainer, NEW v \in Drainer,
                      e \in Held(u)', e \in Held(v)'
               PROVE  u = v
    BY DEF OneHolder
  <2>1. \A x \in Drainer \ {w} : e \in Held(x) => e \notin FirstDue(skip)
    BY <1>1, <1>6
  <2> QED
    BY <1>0, <1>5, <1>7, <2>1 DEF OneHolder
<1>10. DeliveredIsReleased'
  <2> SUFFICES ASSUME NEW e \in Event \ shared', row'[e].state = "delivered",
                      NEW v \in Drainer
               PROVE  e \notin Held(v)'
    BY DEF DeliveredIsReleased
  <2> QED
    BY <1>0, <1>2, <1>4, <1>5, <1>7 DEF DeliveredIsReleased
<1>11. CopiesAccountedFor'
  <2> SUFFICES ASSUME NEW e \in Event \ shared'
               PROVE  AtHand(e)' = AtHand(e)
    BY <1>0, <1>2, <1>7 DEF CopiesAccountedFor
  <2>1. w \notin AtHand(e) /\ w \notin AtHand(e)'
    BY <1>2, <1>3 DEF AtHand
  <2>2. AtHand(e)' \ {w} = AtHand(e) \ {w}
    BY <1>3, OthersAtHand
  <2> QED
    BY <2>1, <2>2
<1> QED
  BY <1>8, <1>9, <1>10, <1>11 DEF ClaimInv

\* An event that w does not deal with in a step keeps its copies.
LEMMA OtherCopies ==
  ASSUME CopiesAccountedFor, NEW w \in Drainer, NEW e \in Event \ shared,
         \A v \in Drainer \ {w} : drain'[v] = drain[v],
         w \notin AtHand(e), w \notin AtHand(e)',
         row'[e].state = "delivered" <=> row[e].state = "delivered",
         published'[e] = published[e], interrupted'[e] = interrupted[e]
  PROVE  published'[e] = interrupted'[e] + (IF row'[e].state = "delivered" THEN 1 ELSE 0)
                                         + Cardinality(AtHand(e)')
<1>1. AtHand(e)' \ {w} = AtHand(e) \ {w}
  BY OthersAtHand
<1>2. AtHand(e)' = AtHand(e)
  BY <1>1
<1> QED
  BY <1>2 DEF CopiesAccountedFor

\* The copies of the event that w deals with.
LEMMA HeldCopies ==
  ASSUME TypeOK, OneHolder, DeliveredIsReleased, CopiesAccountedFor,
         NEW w \in Drainer, NEW e \in Event \ shared, e \in Held(w),
         \A v \in Drainer \ {w} : drain'[v] = drain[v]
  PROVE  /\ published[e] = interrupted[e] + (IF w \in AtHand(e) THEN 1 ELSE 0)
         /\ published[e] \in Nat /\ interrupted[e] \in Nat
         /\ row[e].state # "delivered"
         /\ Cardinality(AtHand(e)') = IF w \in AtHand(e)' THEN 1 ELSE 0
<1>1. AtHand(e) \subseteq {w}
  BY HolderMarks
<1>2. AtHand(e)' \ {w} = AtHand(e) \ {w}
  BY OthersAtHand
<1>3. AtHand(e)' \subseteq {w}
  BY <1>1, <1>2
<1>4. row[e].state # "delivered"
  BY DEF DeliveredIsReleased
<1>5. Cardinality(AtHand(e)) = IF w \in AtHand(e) THEN 1 ELSE 0
  BY <1>1, AtMostOne
<1>6. Cardinality(AtHand(e)') = IF w \in AtHand(e)' THEN 1 ELSE 0
  BY <1>3, AtMostOne
<1>7. published[e] \in Nat /\ interrupted[e] \in Nat
  BY DEF TypeOK
<1>8. published[e] = interrupted[e] + (IF row[e].state = "delivered" THEN 1 ELSE 0)
                                    + Cardinality(AtHand(e))
  BY DEF CopiesAccountedFor
<1> QED
  BY <1>4, <1>5, <1>6, <1>7, <1>8
LEMMA DrainClaims ==
  ASSUME PublishedInv, ClaimInv, NEW w \in Drainer,
         \/ MarkDelivered(w) \/ MarkFailed(w) \/ MarkDeliveredFails(w) \/ Abort(w)
         \/ \E e \in Event : Publish(w, e) \/ PublishFails(w, e) \/ PublishUnsure(w, e)
  PROVE  ClaimInv'
<1>0. /\ TypeOK /\ HoldsItsBatch /\ OneHolder /\ DeliveredIsReleased /\ CopiesAccountedFor
      /\ AtHandIsEvent
  BY DEF PublishedInv, ClaimInv
<1>1. /\ \A v \in Drainer \ {w} : drain'[v] = drain[v]
      /\ Held(w)' \subseteq Held(w)
      /\ drain[w].step \in {"mark", "fail"} /\ drain'[w].step # "fail"
           => drain[w].at \notin Held(w)'
      /\ HoldsItsBatch'
      /\ UNCHANGED shared
  BY <1>0, HoldsNoMore
<1>2. \A v \in Drainer : Held(v)' \subseteq Held(v)
  BY <1>1 DEF Held
<1>3. OneHolder'
  BY <1>0, <1>1, <1>2 DEF OneHolder
<1> DEFINE Copies(e) ==
             published'[e] = interrupted'[e] + (IF row'[e].state = "delivered" THEN 1 ELSE 0)
                                             + Cardinality(AtHand(e)')
           Kept(e) == /\ row'[e].state = "delivered"
                           => row[e].state = "delivered" \/ \A v \in Drainer : e \notin Held(v)'
                      /\ Copies(e)
<1>4. SUFFICES ASSUME NEW e \in Event \ shared PROVE Kept(e)
  BY <1>0, <1>1, <1>2, <1>3 DEF ClaimInv, DeliveredIsReleased, CopiesAccountedFor
<1> HIDE DEF Copies
<1>5. ASSUME w \notin AtHand(e), w \notin AtHand(e)',
             row'[e].state = "delivered" <=> row[e].state = "delivered",
             published'[e] = published[e], interrupted'[e] = interrupted[e]
      PROVE  Kept(e)
  BY <1>0, <1>1, <1>5, OtherCopies DEF Copies
<1>6. ASSUME e \in Held(w)
      PROVE  /\ published[e] = interrupted[e] + (IF w \in AtHand(e) THEN 1 ELSE 0)
             /\ published[e] \in Nat /\ interrupted[e] \in Nat
             /\ row[e].state # "delivered"
             /\ Cardinality(AtHand(e)') = IF w \in AtHand(e)' THEN 1 ELSE 0
  BY <1>0, <1>1, <1>6, HeldCopies
<1>7. ASSUME e \in Held(w), UNCHANGED row,
             \/ /\ published'[e] = published[e] + 1 /\ interrupted'[e] = interrupted[e]
                /\ w \notin AtHand(e) /\ w \in AtHand(e)'
             \/ /\ published'[e] = published[e] + 1 /\ interrupted'[e] = interrupted[e] + 1
                /\ w \notin AtHand(e) /\ w \notin AtHand(e)'
             \/ /\ published'[e] = published[e] /\ interrupted'[e] = interrupted[e] + 1
                /\ w \in AtHand(e) /\ w \notin AtHand(e)'
      PROVE  Kept(e)
  BY <1>6, <1>7 DEF Copies
<1>8. drain[w].step \in {"mark", "fail"} => drain[w].at \in Event /\ drain[w].at \in Held(w)
  BY <1>0, OutboxAssumption DEF AtHandIsEvent, Held, OutboxAssumption
<1>9. /\ w \in AtHand(e) <=> drain[w].step = "mark" /\ drain[w].at = e
      /\ w \in AtHand(e)' <=> drain'[w].step = "mark" /\ drain'[w].at = e
  BY DEF AtHand
<1>10. drain \in [Drainer -> Drain] /\ drain[w] \in Drain
       /\ published \in [Event -> Nat] /\ interrupted \in [Event -> Nat]
       /\ row \in [Event -> Row]
  BY <1>0 DEF TypeOK
<1>11. Rest(w).step \in {"idle", "next"}
  BY DEF Rest, Idle
<1>12. CASE MarkDelivered(w)
  <2>1. /\ drain[w].step = "mark" /\ drain'[w] = Rest(w)
        /\ row' = [row EXCEPT ![drain[w].at] = [row[drain[w].at] EXCEPT !.state = "delivered"]]
        /\ UNCHANGED <<published, interrupted>>
    BY <1>10, <1>12 DEF MarkDelivered
  <2>2. w \notin AtHand(e)'
    BY <1>9, <1>11, <2>1
  <2>3. CASE e # drain[w].at
    <3>1. row'[e] = row[e] /\ w \notin AtHand(e)
      BY <1>8, <1>9, <1>10, <2>1, <2>3
    <3> QED
      BY <1>5, <2>1, <2>2, <3>1
  <2>4. CASE e = drain[w].at
    <3>1. e \in Held(w) /\ w \in AtHand(e) /\ row'[e].state = "delivered"
      BY <1>8, <1>9, <1>10, <2>1, <2>4 DEF Row
    <3>2. \A v \in Drainer : e \notin Held(v)'
      <4>1. e \notin Held(w)'
        BY <1>1, <1>11, <2>1, <2>4
      <4> QED
        BY <1>0, <1>2, <3>1, <4>1 DEF OneHolder
    <3>3. Copies(e)
      BY <1>6, <2>1, <2>2, <3>1 DEF Copies
    <3> QED
      BY <3>2, <3>3
  <2> QED
    BY <2>3, <2>4
<1>13. CASE MarkFailed(w)
  <2>1. /\ drain[w].step = "fail" /\ drain'[w] = Rest(w)
        /\ row' = [row EXCEPT ![drain[w].at] = [row[drain[w].at] EXCEPT !.wait = RetryDelay]]
        /\ UNCHANGED <<published, interrupted>>
    BY <1>10, <1>13 DEF MarkFailed
  <2>2. row'[e].state = row[e].state
    BY <1>8, <1>10, <2>1 DEF Row
  <2> QED
    BY <1>5, <1>9, <1>11, <2>1, <2>2
<1>14. CASE MarkDeliveredFails(w)
  <2>1. /\ drain[w].step = "mark"
        /\ drain' = [drain EXCEPT ![w] = [drain[w] EXCEPT !.step = "fail"]]
        /\ interrupted' = [interrupted EXCEPT ![drain[w].at] = interrupted[drain[w].at] + 1]
        /\ UNCHANGED <<row, published>>
    BY <1>14 DEF MarkDeliveredFails
  <2>2. drain'[w].step = "fail"
    BY <1>10, <2>1 DEF Drain
  <2>3. w \notin AtHand(e)'
    BY <1>9, <2>2
  <2>4. CASE e = drain[w].at
    <3>1. e \in Held(w) /\ w \in AtHand(e) /\ interrupted'[e] = interrupted[e] + 1
      BY <1>8, <1>9, <1>10, <2>1, <2>4
    <3> QED
      BY <1>7, <2>1, <2>3, <3>1
  <2>5. CASE e # drain[w].at
    <3>1. w \notin AtHand(e) /\ interrupted'[e] = interrupted[e]
      BY <1>9, <1>10, <2>1, <2>5
    <3> QED
      BY <1>5, <2>1, <2>3, <3>1
  <2> QED
    BY <2>4, <2>5
<1>15. CASE Abort(w)
  <2>1. drain'[w].step = "idle" /\ UNCHANGED <<row, published>>
    BY <1>10, <1>15 DEF Abort, Idle
  <2>2. interrupted' = IF drain[w].step = "mark"
                       THEN [interrupted EXCEPT ![drain[w].at] = interrupted[drain[w].at] + 1]
                       ELSE interrupted
    BY <1>15 DEF Abort
  <2>3. w \notin AtHand(e)'
    BY <1>9, <2>1
  <2>4. CASE drain[w].step = "mark" /\ e = drain[w].at
    <3>1. e \in Held(w) /\ w \in AtHand(e) /\ interrupted'[e] = interrupted[e] + 1
      BY <1>8, <1>9, <1>10, <2>2, <2>4
    <3> QED
      BY <1>7, <2>1, <2>3, <3>1
  <2>5. CASE ~(drain[w].step = "mark" /\ e = drain[w].at)
    <3>1. w \notin AtHand(e) /\ interrupted'[e] = interrupted[e]
      BY <1>9, <1>10, <2>2, <2>5
    <3> QED
      BY <1>5, <2>1, <2>3, <3>1
  <2> QED
    BY <2>4, <2>5
<1>16. ASSUME NEW x \in Event, Publish(w, x) PROVE Kept(e)
  <2>1. /\ drain[w].step = "next" /\ x \in drain[w].batch
        /\ published' = [published EXCEPT ![x] = published[x] + 1]
        /\ drain'[w].step = "mark" /\ drain'[w].at = x
        /\ UNCHANGED <<row, interrupted>>
    BY <1>10, <1>16 DEF Publish
  <2>2. w \notin AtHand(e)
    BY <1>9, <2>1
  <2>3. CASE e = x
    <3>1. e \in Held(w) /\ w \in AtHand(e)' /\ published'[e] = published[e] + 1
      BY <1>9, <1>10, <2>1, <2>3, OutboxAssumption DEF Held, OutboxAssumption
    <3> QED
      BY <1>7, <2>1, <2>2, <3>1
  <2>4. CASE e # x
    <3>1. w \notin AtHand(e)' /\ published'[e] = published[e]
      BY <1>9, <1>10, <2>1, <2>4
    <3> QED
      BY <1>5, <2>1, <2>2, <3>1
  <2> QED
    BY <2>3, <2>4
<1>17. ASSUME NEW x \in Event, PublishFails(w, x) PROVE Kept(e)
  <2>1. /\ drain[w].step = "next" /\ drain'[w].step = "fail"
        /\ UNCHANGED <<row, published, interrupted>>
    BY <1>10, <1>17 DEF PublishFails
  <2> QED
    BY <1>5, <1>9, <2>1
<1>18. ASSUME NEW x \in Event, PublishUnsure(w, x) PROVE Kept(e)
  <2>1. /\ drain[w].step = "next" /\ x \in drain[w].batch /\ drain'[w].step = "fail"
        /\ published' = [published EXCEPT ![x] = published[x] + 1]
        /\ interrupted' = [interrupted EXCEPT ![x] = interrupted[x] + 1]
        /\ UNCHANGED row
    BY <1>10, <1>18 DEF PublishUnsure
  <2>2. w \notin AtHand(e) /\ w \notin AtHand(e)'
    BY <1>9, <2>1
  <2>3. CASE e = x
    <3>1. e \in Held(w) /\ published'[e] = published[e] + 1 /\ interrupted'[e] = interrupted[e] + 1
      BY <1>10, <2>1, <2>3, OutboxAssumption DEF Held, OutboxAssumption
    <3> QED
      BY <1>7, <2>1, <2>2, <3>1
  <2>4. CASE e # x
    <3>1. published'[e] = published[e] /\ interrupted'[e] = interrupted[e]
      BY <1>10, <2>1, <2>4
    <3> QED
      BY <1>5, <2>1, <2>2, <3>1
  <2> QED
    BY <2>3, <2>4
<1> QED
  BY <1>12, <1>13, <1>14, <1>15, <1>16, <1>17, <1>18

LEMMA StepClaims ==
  ASSUME PublishedInv, ClaimInv, Next
  PROVE  ClaimInv'
<1>0. TypeOK /\ HoldsItsBatch /\ OneHolder /\ DeliveredIsReleased /\ CopiesAccountedFor
  BY DEF PublishedInv, ClaimInv
<1>1. ASSUME UNCHANGED <<drain, published, interrupted, shared>>,
             \A e \in Event : row'[e].state = "delivered" <=> row[e].state = "delivered"
      PROVE  ClaimInv'
  <2>1. HoldsItsBatch' /\ OneHolder'
    BY <1>0, <1>1 DEF HoldsItsBatch, OneHolder, Held
  <2>2. DeliveredIsReleased'
    BY <1>0, <1>1 DEF DeliveredIsReleased, Held
  <2>3. \A e : AtHand(e)' = AtHand(e)
    BY <1>1 DEF AtHand
  <2>4. CopiesAccountedFor'
    BY <1>0, <1>1, <2>3 DEF CopiesAccountedFor
  <2> QED
    BY <2>1, <2>2, <2>4 DEF ClaimInv
<1>2. CASE \E e \in Event : Insert(e)
  <2>1. \A e \in Event : row'[e].state = "delivered" <=> row[e].state = "delivered"
    BY <1>0, <1>2 DEF Insert, TypeOK
  <2> QED
    BY <1>1, <1>2, <2>1 DEF Insert
<1>3. CASE Tick
  <2>1. \A e \in Event : row'[e].state = row[e].state
    BY <1>0, <1>3 DEF Tick, TypeOK, Row
  <2> QED
    BY <1>1, <1>3, <2>1 DEF Tick
<1> QED
  BY <1>2, <1>3, ClaimStep, DrainClaims DEF Next, DrainStep

\* The whole invariant, for any number of events, drains and interruptions.
THEOREM Invariance == Spec => []IInv
<1>1. ASSUME ClaimInv, UNCHANGED vars PROVE ClaimInv'
  <2>1. \A e : AtHand(e)' = AtHand(e)
    BY <1>1 DEF vars, AtHand
  <2> QED
    BY <1>1, <2>1 DEF vars, ClaimInv, HoldsItsBatch, OneHolder, DeliveredIsReleased,
                      CopiesAccountedFor, Held
<1>2. PublishedInv /\ ClaimInv /\ [Next]_vars => ClaimInv'
  BY <1>1, StepClaims
<1>3. Spec => []ClaimInv
  BY <1>2, InitClaims, PublishedInvariance, PTL DEF Spec
<1> QED
  BY <1>3, PublishedInvariance, PTL DEF IInv

\* An event that two drains never held at once has been published once for its mark
\* and once for every interruption, for any number of drains that claim without a lease.
THEOREM NoUnexplainedCopies == Spec => []CopiesAccountedFor
BY Invariance, PTL DEF IInv, ClaimInv
=============================================================================
