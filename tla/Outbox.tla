-------------------------------- MODULE Outbox --------------------------------
(***************************************************************************)
(* The transactional outbox: a business transaction inserts an event, a    *)
(* drain claims waiting events in the order of their creation, publishes   *)
(* each on the event bus and marks it delivered, or failed and due again   *)
(* a minute later.  A claim takes no lease: an event whose drain was       *)
(* interrupted is simply claimed again.                                    *)
(***************************************************************************)
EXTENDS Naturals, Sequences, FiniteSets

CONSTANTS
  Event,
  Drainer,           \* processes that drain; one, while leader election holds
  Hopeless,          \* events the bus never takes
  BatchSize,
  RetryDelay,        \* ticks until a failed event is due again
  MaxInterruptions,  \* bound on publications whose mark is lost
  None

ASSUME OutboxAssumption ==
  /\ Hopeless \subseteq Event
  /\ BatchSize \in Nat \ {0}
  /\ RetryDelay \in Nat
  /\ MaxInterruptions \in Nat
  /\ None \notin Event

VARIABLES
  row,         \* row[e]: its state, and the ticks until deliver_after
  created,     \* events in the order of created_at
  drain,       \* drain[w]: the claimed events still to do, and the one at hand
  published,   \* published[e]: how often the bus took e
  interrupted, \* interrupted[e]: how often it took e and the drain did not mark it
  shared       \* events two drains had claimed at the same time (history)

vars == <<row, created, drain, published, interrupted, shared>>

Row == [state : {"absent", "waiting", "delivered"}, wait : Nat]
Drain == [step : {"idle", "next", "mark", "fail"}, batch : SUBSET Event, at : Event \cup {None}]

Idle == [step |-> "idle", batch |-> {}, at |-> None]

Init ==
  /\ row = [e \in Event |-> [state |-> "absent", wait |-> 0]]
  /\ created = <<>>
  /\ drain = [w \in Drainer |-> Idle]
  /\ published = [e \in Event |-> 0]
  /\ interrupted = [e \in Event |-> 0]
  /\ shared = {}

\* The publications that may still be interrupted.
MayInterrupt(e) == interrupted[e] < MaxInterruptions

-----------------------------------------------------------------------------
\* delayUntil may put deliver_after in the future.  created_at is the start of the
\* transaction, so a row may appear before rows that are there already.
Insert(e) ==
  /\ row[e].state = "absent"
  /\ \E delay \in {0, RetryDelay} :
       row' = [row EXCEPT ![e] = [state |-> "waiting", wait |-> delay]]
  /\ \E i \in 0..Len(created) :
       created' = SubSeq(created, 1, i) \o <<e>> \o SubSeq(created, i + 1, Len(created))
  /\ UNCHANGED <<drain, published, interrupted, shared>>

\* Mutant: delivered_at is not looked at.
DueDelivered(e) == row[e].state # "absent" /\ row[e].wait = 0

Due(e) == row[e].state = "waiting" /\ row[e].wait = 0

\* The first BatchSize due events, leaving out those another claim has locked.
FirstDue(skip) ==
  LET open == {i \in DOMAIN created : Due(created[i]) /\ created[i] \notin skip}
  IN  {created[i] : i \in {j \in open : Cardinality({k \in open : k < j}) < BatchSize}}

ClaimedByOthers(w) == (UNION {drain[v].batch \cup {drain[v].at} : v \in Drainer \ {w}}) \ {None}

ClaimUndelivered(w) ==
  /\ drain[w].step = "idle"
  /\ \E skip \in SUBSET ClaimedByOthers(w) :
       /\ FirstDue(skip) # {}
       /\ drain' = [drain EXCEPT ![w] = [step |-> "next", batch |-> FirstDue(skip), at |-> None]]
       /\ shared' = shared \cup (FirstDue(skip) \cap ClaimedByOthers(w))
  /\ UNCHANGED <<row, created, published, interrupted>>

\* The drain goes on with the rest of its batch, or is done.
Rest(w) ==
  IF drain[w].batch = {} THEN Idle ELSE [step |-> "next", batch |-> drain[w].batch, at |-> None]

Publish(w, e) ==
  /\ drain[w].step = "next" /\ e \in drain[w].batch
  /\ e \notin Hopeless
  /\ published' = [published EXCEPT ![e] = @ + 1]
  /\ drain' = [drain EXCEPT ![w] = [step |-> "mark", batch |-> drain[w].batch \ {e}, at |-> e]]
  /\ UNCHANGED <<row, created, interrupted, shared>>

PublishFails(w, e) ==
  /\ drain[w].step = "next" /\ e \in drain[w].batch
  /\ drain' = [drain EXCEPT ![w] = [step |-> "fail", batch |-> drain[w].batch \ {e}, at |-> e]]
  /\ UNCHANGED <<row, created, published, interrupted, shared>>

\* The bus took the event, and the flush that would say so failed.
PublishUnsure(w, e) ==
  /\ drain[w].step = "next" /\ e \in drain[w].batch
  /\ e \notin Hopeless /\ MayInterrupt(e)
  /\ published' = [published EXCEPT ![e] = @ + 1]
  /\ interrupted' = [interrupted EXCEPT ![e] = @ + 1]
  /\ drain' = [drain EXCEPT ![w] = [step |-> "fail", batch |-> drain[w].batch \ {e}, at |-> e]]
  /\ UNCHANGED <<row, created, shared>>

MarkDelivered(w) ==
  /\ drain[w].step = "mark"
  /\ row' = [row EXCEPT ![drain[w].at].state = "delivered"]
  /\ drain' = [drain EXCEPT ![w] = Rest(w)]
  /\ UNCHANGED <<created, published, interrupted, shared>>

MarkDeliveredFails(w) ==
  /\ drain[w].step = "mark"
  /\ MayInterrupt(drain[w].at)
  /\ interrupted' = [interrupted EXCEPT ![drain[w].at] = @ + 1]
  /\ drain' = [drain EXCEPT ![w].step = "fail"]
  /\ UNCHANGED <<row, created, published, shared>>

\* Mutant: the failure is written over a delivery by another drain.
MarkFailedReopens(w) ==
  /\ drain[w].step = "fail"
  /\ row' = [row EXCEPT ![drain[w].at] = [state |-> "waiting", wait |-> RetryDelay]]
  /\ drain' = [drain EXCEPT ![w] = Rest(w)]
  /\ UNCHANGED <<created, published, interrupted, shared>>
\* Mutant: deliver_after stays where it was.
MarkFailedInPlace(w) ==
  /\ drain[w].step = "fail"
  /\ drain' = [drain EXCEPT ![w] = Rest(w)]
  /\ UNCHANGED <<row, created, published, interrupted, shared>>

MarkFailed(w) ==
  /\ drain[w].step = "fail"
  /\ row' = [row EXCEPT ![drain[w].at].wait = RetryDelay]
  /\ drain' = [drain EXCEPT ![w] = Rest(w)]
  /\ UNCHANGED <<created, published, interrupted, shared>>

\* The process stops or markFailed fails: the rest of the batch is dropped.
Abort(w) ==
  /\ drain[w].step # "idle"
  /\ drain[w].step = "mark" => MayInterrupt(drain[w].at)
  /\ interrupted' = IF drain[w].step = "mark"
                    THEN [interrupted EXCEPT ![drain[w].at] = @ + 1] ELSE interrupted
  /\ drain' = [drain EXCEPT ![w] = Idle]
  /\ UNCHANGED <<row, created, published, shared>>

Tick ==
  /\ \E e \in Event : row[e].wait > 0
  /\ row' = [e \in Event |-> [row[e] EXCEPT !.wait = IF row[e].wait > 0 THEN row[e].wait - 1 ELSE 0]]
  /\ UNCHANGED <<created, drain, published, interrupted, shared>>

-----------------------------------------------------------------------------
DrainStep(w) ==
  \/ MarkDelivered(w)
  \/ MarkFailed(w)
  \/ \E e \in Event : Publish(w, e) \/ PublishFails(w, e)

Next ==
  \/ \E e \in Event : Insert(e)
  \/ \E w \in Drainer :
       \/ ClaimUndelivered(w)
       \/ DrainStep(w)
       \/ MarkDeliveredFails(w)
       \/ Abort(w)
       \/ \E e \in Event : PublishUnsure(w, e)
  \/ Tick

Spec == Init /\ [][Next]_vars

\* The drain runs on a timer, time passes, and what is tried again and again is not
\* interrupted every time: neither the drain, nor a mark, nor the publication of an
\* event that the bus can take.
Fairness ==
  /\ WF_vars(Tick)
  /\ \A w \in Drainer :
       /\ WF_vars(ClaimUndelivered(w))
       /\ SF_vars(DrainStep(w))
       /\ SF_vars(MarkDelivered(w))
       /\ SF_vars(MarkFailed(w))
       /\ \A e \in Event : SF_vars(Publish(w, e))

\* The poll interval is shorter than a tick: an idle drain claims what is due first.
Polled == \A w \in Drainer : drain[w].step = "idle" => \A e \in Event : ~Due(e)

FairSpec == Init /\ [][Next /\ (Tick => Polled)]_vars /\ Fairness

-----------------------------------------------------------------------------
(* Properties.                                                             *)

TypeOK ==
  /\ row \in [Event -> Row]
  /\ created \in Seq(Event)
  /\ drain \in [Drainer -> Drain]
  /\ published \in [Event -> Nat]
  /\ interrupted \in [Event -> Nat]
  /\ shared \subseteq Event

\* An event marked delivered was taken by the bus, whichever drains worked on it.
DeliveredIsTrue == \A e \in Event : row[e].state = "delivered" => published[e] > 0

\* Being delivered is final: a slower drain that fails with the event does not
\* make it due again.
DeliveredIsFinal ==
  [][\A e \in Event : row[e].state = "delivered" => row'[e].state = "delivered"]_row

AtHand(e) == {w \in Drainer : drain[w].step = "mark" /\ drain[w].at = e}

\* For an event that two drains never held at the same time, every publication beyond
\* the one that is marked, or is about to be, goes back to an interruption: it is not
\* published twice because it was slow, late in its batch or claimed with others.
CopiesAccountedFor ==
  \A e \in Event \ shared :
    published[e] = interrupted[e] + (IF row[e].state = "delivered" THEN 1 ELSE 0)
                                  + Cardinality(AtHand(e))

\* An event the bus can take is delivered in the end, in spite of crashes and of
\* events before it that never succeed.
EveryEventDelivered ==
  \A e \in Event \ Hopeless : row[e].state = "waiting" ~> row[e].state = "delivered"

-----------------------------------------------------------------------------
(* The inductive invariant behind DeliveredIsTrue.                         *)

MarkedWasPublished ==
  \A w \in Drainer : drain[w].step = "mark" => published[drain[w].at] > 0

AtHandIsEvent ==
  \A w \in Drainer : drain[w].step \in {"mark", "fail"} => drain[w].at \in Event

PublishedInv ==
  /\ TypeOK
  /\ AtHandIsEvent
  /\ MarkedWasPublished
  /\ DeliveredIsTrue

-----------------------------------------------------------------------------
(* The inductive invariant behind CopiesAccountedFor.                      *)

Held(w) == (drain[w].batch \cup {drain[w].at}) \ {None}

\* An idle drain holds nothing, and the event at hand has left the batch.
HoldsItsBatch ==
  \A w \in Drainer :
    /\ drain[w].step = "idle" => drain[w].batch = {}
    /\ drain[w].step \in {"idle", "next"} => drain[w].at = None
    /\ drain[w].at \notin drain[w].batch

OneHolder ==
  \A e \in Event \ shared : \A v, w \in Drainer : e \in Held(v) \cap Held(w) => v = w

DeliveredIsReleased ==
  \A e \in Event \ shared : row[e].state = "delivered" => \A w \in Drainer : e \notin Held(w)

ClaimInv ==
  /\ HoldsItsBatch
  /\ OneHolder
  /\ DeliveredIsReleased
  /\ CopiesAccountedFor

IInv == PublishedInv /\ ClaimInv
=============================================================================
