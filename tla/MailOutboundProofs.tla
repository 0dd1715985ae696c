------------------------- MODULE MailOutboundProofs -------------------------
(***************************************************************************)
(* Proofs about MailOutbound, for any number of messages, workers,         *)
(* providers, attempts and reviews.                                        *)
(***************************************************************************)
EXTENDS MailOutbound, TLAPS

(* Every way the statements of the queue rewrite a row keeps it a row.     *)
LEMMA RowUpdates ==
  /\ EmptyRow \in Row
  /\ [EmptyRow EXCEPT !.status = "failed"] \in Row
  /\ \A delay \in Nat, scheduled \in BOOLEAN :
       [EmptyRow EXCEPT !.status = "queued", !.next = delay, !.undo = delay,
                        !.scheduled = scheduled] \in Row
  /\ \A r \in Row :
       /\ [r EXCEPT !.status = "cancelled"] \in Row
       /\ [r EXCEPT !.status = "queued", !.attempts = 0, !.next = 0] \in Row
       /\ [r EXCEPT !.status = "queued", !.attempts = 0, !.next = 0,
                    !.dead = FALSE, !.token = 0, !.lease = 0] \in Row
       /\ [r EXCEPT !.status = "failed", !.dead = TRUE, !.token = 0, !.next = None] \in Row
       /\ [r EXCEPT !.status = "failed", !.dead = TRUE, !.token = 0, !.lease = 0] \in Row
       /\ [r EXCEPT !.status = "accepted", !.token = 0, !.lease = 0] \in Row
  /\ \A r \in Row, t \in Nat :
       /\ [r EXCEPT !.undo = t, !.next = t] \in Row
       /\ [r EXCEPT !.status = "queued", !.next = t, !.token = 0, !.lease = 0] \in Row
       /\ [r EXCEPT !.status = "sending", !.attempts = @ + 1, !.next = None,
                    !.token = t, !.lease = LeaseTime] \in Row
  /\ \A r \in Row, p \in Provider : [r EXCEPT !.provider = p] \in Row
  /\ \A r \in Row, s \in Status :
       [r EXCEPT !.status = s, !.token = 0, !.lease = 0, !.next = None] \in Row
<1> USE MailAssumption DEF EmptyRow, Row, Status, Time
<1>1. EmptyRow \in Row /\ [EmptyRow EXCEPT !.status = "failed"] \in Row
  OBVIOUS
<1>2. ASSUME NEW delay \in Nat, NEW scheduled \in BOOLEAN
      PROVE  [EmptyRow EXCEPT !.status = "queued", !.next = delay, !.undo = delay,
                              !.scheduled = scheduled] \in Row
  OBVIOUS
<1>3. ASSUME NEW r \in Row
      PROVE
       /\ [r EXCEPT !.status = "cancelled"] \in Row
       /\ [r EXCEPT !.status = "queued", !.attempts = 0, !.next = 0] \in Row
       /\ [r EXCEPT !.status = "queued", !.attempts = 0, !.next = 0,
                    !.dead = FALSE, !.token = 0, !.lease = 0] \in Row
       /\ [r EXCEPT !.status = "failed", !.dead = TRUE, !.token = 0, !.next = None] \in Row
       /\ [r EXCEPT !.status = "failed", !.dead = TRUE, !.token = 0, !.lease = 0] \in Row
       /\ [r EXCEPT !.status = "accepted", !.token = 0, !.lease = 0] \in Row
  OBVIOUS
<1>4. ASSUME NEW r \in Row, NEW t \in Nat
      PROVE
       /\ [r EXCEPT !.undo = t, !.next = t] \in Row
       /\ [r EXCEPT !.status = "queued", !.next = t, !.token = 0, !.lease = 0] \in Row
  OBVIOUS
<1>5. ASSUME NEW r \in Row, NEW t \in Nat
      PROVE  [r EXCEPT !.status = "sending", !.attempts = @ + 1, !.next = None,
                       !.token = t, !.lease = LeaseTime] \in Row
  <2>1. r.attempts + 1 \in Nat /\ LeaseTime \in Nat
    OBVIOUS
  <2>2. QED
    BY <2>1
<1>6. ASSUME NEW r \in Row, NEW p \in Provider PROVE [r EXCEPT !.provider = p] \in Row
  OBVIOUS
<1>7. ASSUME NEW r \in Row, NEW s \in Status
      PROVE  [r EXCEPT !.status = s, !.token = 0, !.lease = 0, !.next = None] \in Row
  OBVIOUS
<1> HIDE DEF EmptyRow, Row, Status, Time
<1>8. QED
  BY <1>1, <1>2, <1>3, <1>4, <1>5, <1>6, <1>7

(* Every way a dispatch goes on keeps it a dispatch.                       *)
LEMMA DispatchUpdates ==
  /\ Idle \in Dispatch
  /\ \A d \in Dispatch : d.pc # "idle" =>
       /\ \A pc \in {"local", "bind"} : [d EXCEPT !.pc = pc] \in Dispatch
       /\ \A result \in {"sent", "retry", "dead"} :
            [d EXCEPT !.pc = "ack", !.result = result] \in Dispatch
       /\ \A p \in Provider : [d EXCEPT !.pc = "send", !.via = p] \in Dispatch
  /\ \A d \in Dispatch, b \in BOOLEAN : [d EXCEPT !.barred = b] \in Dispatch
<1>1. Idle \in Dispatch
  BY MailAssumption DEF Idle, Dispatch
<1>2. ASSUME NEW d \in Dispatch, d.pc # "idle"
      PROVE
       /\ \A pc \in {"local", "bind"} : [d EXCEPT !.pc = pc] \in Dispatch
       /\ \A result \in {"sent", "retry", "dead"} :
            [d EXCEPT !.pc = "ack", !.result = result] \in Dispatch
       /\ \A p \in Provider : [d EXCEPT !.pc = "send", !.via = p] \in Dispatch
  <2>1. [d EXCEPT !.pc = "local"] \in Dispatch /\ [d EXCEPT !.pc = "bind"] \in Dispatch
    BY <1>2 DEF Dispatch
  <2>2. ASSUME NEW result \in {"sent", "retry", "dead"}
        PROVE  [d EXCEPT !.pc = "ack", !.result = result] \in Dispatch
    BY <1>2 DEF Dispatch
  <2>3. ASSUME NEW p \in Provider
        PROVE  [d EXCEPT !.pc = "send", !.via = p] \in Dispatch
    BY <1>2, MailAssumption DEF Dispatch
  <2>4. QED
    BY <2>1, <2>2, <2>3
<1>3. ASSUME NEW d \in Dispatch, NEW b \in BOOLEAN PROVE [d EXCEPT !.barred = b] \in Dispatch
  BY DEF Dispatch
<1>4. QED
  BY <1>1, <1>2, <1>3

LEMMA TypeInit == Init => TypeOK
<1> SUFFICES ASSUME Init PROVE TypeOK
  OBVIOUS
<1>1. row \in [Message -> Row] /\ worker \in [Worker -> Dispatch]
  BY RowUpdates, DispatchUpdates DEF Init
<1>2. QED
  BY <1>1 DEF Init, TypeOK

LEMMA SweptType == TypeOK => Swept \in [Message -> Row]
  BY RowUpdates DEF TypeOK, Swept

LEMMA FailType ==
  ASSUME TypeOK, NEW w \in Worker, worker[w].pc # "idle", NEW terminal \in BOOLEAN,
         Fail(w, terminal)
  PROVE  worker' \in [Worker -> Dispatch]
<1>1. worker[w] \in Dispatch /\ Failure(w, terminal) \in {"retry", "dead"}
  BY DEF TypeOK, Failure
<1>2. [worker[w] EXCEPT !.pc = "ack", !.result = Failure(w, terminal)] \in Dispatch
  BY <1>1, DispatchUpdates
<1>3. worker' = [worker EXCEPT ![w] =
                   [worker[w] EXCEPT !.pc = "ack", !.result = Failure(w, terminal)]]
  BY DEF Fail, TypeOK
<1>4. QED
  BY <1>2, <1>3 DEF TypeOK

LEMMA BusyWorker ==
  ASSUME TypeOK, NEW w \in Worker, worker[w].pc # "idle"
  PROVE  worker[w].msg \in Message
  BY DEF TypeOK, Dispatch

LEMMA TypeStep == TypeOK /\ [Next]_vars => TypeOK'
<1> SUFFICES ASSUME TypeOK, [Next]_vars PROVE TypeOK'
  OBVIOUS
<1> USE MailAssumption
<1>a. \A m \in Message : row[m] \in Row /\ claims[m] \in Nat /\ review[m] \in Nat
  BY DEF TypeOK
<1>b. \A w \in Worker : worker[w] \in Dispatch
  BY DEF TypeOK
<1>1. ASSUME NEW m \in Message, Sender(m) PROVE TypeOK'
  <2>1. ASSUME NEW delay \in 0 .. MaxUndo, NEW scheduled \in BOOLEAN,
               CreateOutbound(m, delay, scheduled)
        PROVE  TypeOK'
    <3>1. delay \in Nat
      OBVIOUS
    <3>2. [EmptyRow EXCEPT !.status = "queued", !.next = delay, !.undo = delay,
                           !.scheduled = scheduled] \in Row
      BY <3>1, RowUpdates
    <3>3. QED
      BY <2>1, <3>2 DEF CreateOutbound, TypeOK
  <2>2. CASE CancelOutbound(m)
    <3>1. row' \in [Message -> Row]
      BY <2>2, <1>a, RowUpdates DEF CancelOutbound, TypeOK
    <3>2. QED
      BY <2>2, <3>1 DEF CancelOutbound, TypeOK
  <2>3. ASSUME NEW delay \in 0 .. MaxUndo, RescheduleSend(m, delay)
        PROVE  TypeOK'
    <3>1. row' = [row EXCEPT ![m] = [row[m] EXCEPT !.undo = delay, !.next = delay]]
      BY <2>3 DEF RescheduleSend, TypeOK
    <3>2. delay \in Nat
      OBVIOUS
    <3>3. [row[m] EXCEPT !.undo = delay, !.next = delay] \in Row
      BY <1>a, <3>2, RowUpdates
    <3>4. QED
      BY <2>3, <3>1, <3>3 DEF RescheduleSend, TypeOK
  <2>4. CASE RetryOutbound(m)
    <3>1. [row[m] EXCEPT !.status = "queued", !.attempts = 0, !.next = 0] \in Row
      BY <1>a, RowUpdates
    <3>2. QED
      BY <2>4, <3>1 DEF RetryOutbound, TypeOK
  <2>5. QED
    BY <1>1, <2>1, <2>2, <2>3, <2>4 DEF Sender
<1>2. ASSUME NEW m \in Message, ReplayOutbound(m) PROVE TypeOK'
  <2>1. [row[m] EXCEPT !.status = "queued", !.attempts = 0, !.next = 0,
                       !.dead = FALSE, !.token = 0, !.lease = 0] \in Row
    BY <1>a, RowUpdates
  <2>2. QED
    BY <1>2, <2>1 DEF ReplayOutbound, TypeOK
<1>3. ASSUME NEW w \in Worker, ClaimDue(w) PROVE TypeOK'
  <2>1. PICK m \in Due(Swept) :
          /\ row' = [Swept EXCEPT ![m] =
                       [row[m] EXCEPT !.status = "sending", !.attempts = @ + 1, !.next = None,
                                      !.token = claims[m] + 1, !.lease = LeaseTime]]
          /\ claims' = [claims EXCEPT ![m] = @ + 1]
          /\ worker' = [worker EXCEPT ![w] =
                          [pc |-> "check", msg |-> m, token |-> claims[m] + 1,
                           attempt |-> row[m].attempts + 1, lock |-> row[m].provider,
                           via |-> None, result |-> "none", review |-> review[m],
                           barred |-> AddressOf[m] \in suppressed]]
    BY <1>3 DEF ClaimDue
  <2>2. m \in Message
    BY DEF Due
  <2>3. /\ claims[m] + 1 \in Nat
        /\ review[m] \in Nat
        /\ row[m].attempts + 1 \in Nat
        /\ row[m].provider \in Provider \cup {None}
    BY <1>a, <2>2 DEF Row
  <2>4. row' \in [Message -> Row]
    <3>1. [row[m] EXCEPT !.status = "sending", !.attempts = @ + 1, !.next = None,
                         !.token = claims[m] + 1, !.lease = LeaseTime] \in Row
      BY <1>a, <2>2, <2>3, RowUpdates
    <3>2. QED
      BY <2>1, <2>2, <3>1, SweptType
  <2>5. worker' \in [Worker -> Dispatch]
    <3>1. [pc |-> "check", msg |-> m, token |-> claims[m] + 1,
           attempt |-> row[m].attempts + 1, lock |-> row[m].provider,
           via |-> None, result |-> "none", review |-> review[m],
           barred |-> AddressOf[m] \in suppressed] \in Dispatch
      BY <2>2, <2>3 DEF Dispatch
    <3>2. QED
      BY <2>1, <3>1 DEF TypeOK
  <2>6. QED
    BY <1>3, <2>1, <2>4, <2>5 DEF ClaimDue, TypeOK
<1>4. ASSUME NEW w \in Worker, ClaimNothing(w) PROVE TypeOK'
  BY <1>4, SweptType DEF ClaimNothing, TypeOK
<1>5. ASSUME NEW w \in Worker, DispatchStep(w) PROVE TypeOK'
  <2>1. CASE CheckRecipients(w)
    <3>1. [worker[w] EXCEPT !.pc = "local"] \in Dispatch
      BY <2>1, <1>b, DispatchUpdates DEF CheckRecipients
    <3>2. QED
      BY <2>1, <3>1 DEF CheckRecipients, TypeOK
  <2>2. ASSUME NEW terminal \in BOOLEAN, PreparationFails(w, terminal)
        PROVE  TypeOK'
    <3>1. worker[w].pc # "idle" /\ Fail(w, terminal)
      BY <2>2 DEF PreparationFails
    <3>2. QED
      BY <2>2, <3>1, FailType DEF PreparationFails, TypeOK
  <2>3. CASE DeliverLocal(w)
    <3>1. CASE Fail(w, TRUE) /\ UNCHANGED filed
      <4>1. worker[w].pc # "idle"
        BY <2>3 DEF DeliverLocal
      <4>2. QED
        BY <2>3, <3>1, <4>1, FailType DEF DeliverLocal, TypeOK
    <3>2. CASE ~(Fail(w, TRUE) /\ UNCHANGED filed)
      <4>1. PICK d \in {[worker[w] EXCEPT !.pc = "bind"],
                        [worker[w] EXCEPT !.pc = "ack", !.result = "sent"]} :
              worker' = [worker EXCEPT ![w] = d]
        BY <2>3, <3>2 DEF DeliverLocal, TypeOK
      <4>2. worker[w] \in Dispatch /\ worker[w].pc = "local"
        BY <2>3, <1>b DEF DeliverLocal
      <4>3. d \in Dispatch
        BY <4>2, DispatchUpdates
      <4>4. filed' \subseteq Message
        BY <2>3 DEF DeliverLocal, TypeOK
      <4>5. QED
        BY <2>3, <4>1, <4>3, <4>4 DEF DeliverLocal, TypeOK
    <3>3. QED
      BY <3>1, <3>2
  <2>4. ASSUME NEW p \in Provider, BindProvider(w, p)
        PROVE  TypeOK'
    <3>1. worker[w].pc # "idle"
      BY <2>4 DEF BindProvider
    <3>2. CASE Fail(w, TRUE) /\ UNCHANGED row
      BY <2>4, <3>1, <3>2, FailType DEF BindProvider, TypeOK
    <3>3. CASE ~(Fail(w, TRUE) /\ UNCHANGED row)
      <4>1. /\ row' = [row EXCEPT ![worker[w].msg] = [row[worker[w].msg] EXCEPT !.provider = p]]
            /\ worker' = [worker EXCEPT ![w] = [worker[w] EXCEPT !.pc = "send", !.via = p]]
        BY <2>4, <3>1, <3>3, BusyWorker DEF BindProvider, TypeOK
      <4>2. worker' \in [Worker -> Dispatch]
        BY <3>1, <4>1, <1>b, DispatchUpdates DEF TypeOK
      <4>3. row' \in [Message -> Row]
        BY <3>1, <4>1, <1>a, BusyWorker, RowUpdates DEF TypeOK
      <4>4. QED
        BY <2>4, <4>2, <4>3 DEF BindProvider, TypeOK
    <3>4. QED
      BY <3>2, <3>3
  <2>5. CASE Send(w)
    <3>1. /\ worker[w].pc = "send"
          /\ UNCHANGED <<row, filed, recorded, suppressed, claims, review, undone>>
      BY <2>5 DEF Send, SendAccepted, SendRejected, SendLost
    <3>2. PICK accepted, closed \in BOOLEAN :
            handoffs' = handoffs \cup {HandoffBy(w, accepted, closed)}
      BY <2>5 DEF Send, SendAccepted, SendRejected, SendLost
    <3>3. worker' \in [Worker -> Dispatch]
      <4>1. CASE SendAccepted(w)
        <5>1. worker' = [worker EXCEPT ![w] = [worker[w] EXCEPT !.pc = "ack",
                                                                !.result = "sent"]]
          BY <4>1 DEF SendAccepted, TypeOK
        <5>2. worker' \in [Worker -> Dispatch]
          BY <3>1, <5>1, <1>b, DispatchUpdates DEF TypeOK
        <5>3. QED
          BY <5>2
      <4>2. CASE ~SendAccepted(w)
        <5>1. PICK terminal \in BOOLEAN : Fail(w, terminal)
          BY <2>5, <4>2 DEF Send, SendRejected, SendLost
        <5>2. QED
          BY <3>1, <5>1, FailType
      <4>3. QED
        BY <4>1, <4>2
    <3>4. worker[w].via # None
      BY <3>1, <1>b DEF Dispatch
    <3>5. HandoffBy(w, accepted, closed) \in Handoff
      <4>1. worker[w].msg \in Message /\ worker[w] \in Dispatch
        BY <3>1, <1>b, BusyWorker
      <4>2. worker[w].token \in Nat /\ worker[w].review \in Nat /\ worker[w].via \in Provider
        BY <4>1, <3>4 DEF Dispatch
      <4> QED
        BY <4>1, <4>2, <2>5 DEF HandoffBy, Handoff
    <3>6. QED
      BY <3>1, <3>2, <3>3, <3>5 DEF TypeOK
  <2>6. ASSUME NEW backoff \in 1 .. MaxBackoff, Acknowledge(w, backoff)
        PROVE  TypeOK'
    <3>1. worker[w].pc = "ack" /\ worker[w].msg \in Message
      BY <2>6, BusyWorker DEF Acknowledge
    <3>2. Acknowledged(row[worker[w].msg], w, backoff) \in Row
      <4>2. worker[w].result \in {"sent", "retry", "dead"}
        BY <3>1, <1>b DEF Dispatch
      <4>3. backoff \in Nat /\ row[worker[w].msg] \in Row
        BY <3>1, <1>a
      <4>4. QED
        BY <4>2, <4>3, RowUpdates DEF Acknowledged
    <3>3. QED
      BY <2>6, <3>1, <3>2, DispatchUpdates DEF Acknowledge, TypeOK
  <2>7. CASE AcknowledgeTooLate(w)
    BY <2>7, DispatchUpdates DEF AcknowledgeTooLate, TypeOK
  <2>8. QED
    BY <1>5, <2>1, <2>2, <2>3, <2>4, <2>5, <2>6, <2>7 DEF DispatchStep
<1>6. ASSUME NEW w \in Worker, Crash(w) PROVE TypeOK'
  BY <1>6, DispatchUpdates DEF Crash, TypeOK
<1>7. CASE Feedback
  <2>1. PICK h \in handoffs, kind \in Reports, suppress \in BOOLEAN :
          RecordEvent(h, kind, suppress)
    BY <1>7 DEF Feedback
  <2>2. h \in Handoff /\ h.msg \in Message
    BY DEF TypeOK, Handoff
  <2>3. StatusAfter(row[h.msg].status, kind) \in Status
    BY <1>a, <2>2 DEF StatusAfter, Status, Row
  <2>4. row' \in [Message -> Row]
    <3>1. [row[h.msg] EXCEPT !.status = StatusAfter(@, kind), !.token = 0, !.lease = 0,
                             !.next = None] \in Row
      BY <1>a, <2>2, <2>3, RowUpdates
    <3>2. QED
      BY <2>1, <3>1 DEF RecordEvent, TypeOK
  <2>5. recorded' \subseteq Event /\ suppressed' \subseteq Address
    BY <2>1, <2>2 DEF RecordEvent, TypeOK, Handoff, Event
  <2>6. QED
    BY <2>1, <2>4, <2>5 DEF RecordEvent, TypeOK
<1>8. ASSUME NEW a \in Address, RemoveSuppression(a) PROVE TypeOK'
  <2>1. \A w \in Worker :
          worker'[w] = [worker[w] EXCEPT !.barred = @ /\ AddressOf[worker[w].msg] # a]
    BY <1>8 DEF RemoveSuppression
  <2>2. worker' \in [Worker -> Dispatch]
    BY <1>8, <2>1, <1>b, DispatchUpdates DEF RemoveSuppression
  <2>3. QED
    BY <1>8, <2>2 DEF RemoveSuppression, TypeOK
<1>9. CASE Tick
  <2>1. \A t \in Nat : Later(t) \in Nat
    BY DEF Later
  <2>2. \A t \in Time : Later(t) \in Time
    BY <2>1 DEF Later, Time
  <2>3. ASSUME NEW m \in Message
        PROVE  [row[m] EXCEPT !.undo = Later(@), !.lease = Later(@), !.next = Later(@)] \in Row
    <3>1. row[m] \in Row
      BY <1>a
    <3>2. QED
      BY <2>1, <2>2, <3>1 DEF Row
  <2>4. QED
    BY <1>9, <2>3 DEF Tick, TypeOK
<1>10. ASSUME NEW a \in Actor, OffboardActor(a) PROVE TypeOK'
  <2>1. \A m \in Message : [row[m] EXCEPT !.status = "cancelled"] \in Row
    BY <1>a, RowUpdates
  <2>2. QED
    BY <1>10, <1>a, <2>1 DEF OffboardActor, TypeOK
<1>11. CASE UNCHANGED vars
  BY <1>11 DEF vars, TypeOK
<1>12. QED
  BY <1>1, <1>2, <1>3, <1>4, <1>5, <1>6, <1>7, <1>8, <1>9, <1>10, <1>11 DEF Next

-----------------------------------------------------------------------------
(* What the steps of a dispatch have in common: worker w keeps its message,*)
(* lease and review round, and only becomes unsettled if it already was.   *)
LEMMA StatusAfterEvent ==
  ASSUME NEW status, NEW kind \in EventKind
  PROVE  /\ StatusAfter(status, kind) \notin {"queued", "sending"}
         /\ StatusAfter(status, kind) = "failed" => status = "failed"
         /\ StatusAfter(status, kind) = "absent" => status = "absent"
         /\ StatusAfter(status, kind) = "cancelled" => status = "cancelled"
  BY DEF StatusAfter, EventKind

(* LeaseStateCheck and LeasesStartAfterUndo for one row leased c times, u  *)
(* telling that it was undone.                                             *)
Good(r, c, u) ==
  /\ (r.token # 0) <=> (r.status = "sending")
  /\ r.status = "queued" => r.next # None /\ r.undo <= r.next
  /\ r.status = "sending" => r.next = None
  /\ r.token <= c
  /\ r.status = "absent" \/ u => c = 0
  /\ u => r.status = "cancelled"
  /\ r.status = "sending" \/ r.dead => c > 0
  /\ r.status = "failed" \/ c > 0 => r.undo = 0

LEMMA GoodRows ==
  /\ LeaseStateCheck /\ LeasesStartAfterUndo
       <=> \A m \in Message : Good(row[m], claims[m], m \in undone)
  /\ (LeaseStateCheck /\ LeasesStartAfterUndo)'
       <=> \A m \in Message : Good(row'[m], claims'[m], m \in undone')
  BY DEF LeaseStateCheck, LeasesStartAfterUndo, Good

LEMMA SweptGood ==
  ASSUME TypeOK, NEW m \in Message, Good(row[m], claims[m], m \in undone)
  PROVE  Good(Swept[m], claims[m], m \in undone)
<1>1. row[m] \in Row /\ claims[m] \in Nat
  BY DEF TypeOK
<1>2. CASE Expired(m)
  <2>1. Swept[m] = [row[m] EXCEPT !.status = "failed", !.dead = TRUE, !.token = 0,
                                  !.next = None]
    BY <1>2 DEF Swept
  <2>2. QED
    BY <1>1, <1>2, <2>1 DEF Good, Row, Expired
<1>3. CASE ~Expired(m)
  BY <1>3 DEF Swept
<1>4. QED
  BY <1>2, <1>3

\* Offboarding only cancels what is queued.
OffboardedRow(n) ==
  \/ row'[n] = row[n]
  \/ row[n].status = "queued" /\ row'[n] = [row[n] EXCEPT !.status = "cancelled"]

LEMMA OffboardStep ==
  ASSUME NEW n \in Message, NEW a \in Actor, OffboardActor(a)
  PROVE  OffboardedRow(n)
<1>1. row'[n] = IF ActorOf[n] = a /\ row[n].status = "queued"
                THEN [row[n] EXCEPT !.status = "cancelled"] ELSE row[n]
  BY DEF OffboardActor
<1> QED
  BY <1>1 DEF OffboardedRow

LEMMA RowStep ==
  LeaseInv /\ TypeOK' /\ [Next]_vars => LeaseStateCheck' /\ LeasesStartAfterUndo'
<1> SUFFICES ASSUME LeaseInv, TypeOK', [Next]_vars,
                    NEW n \in Message
             PROVE  Good(row'[n], claims'[n], n \in undone')
  BY GoodRows
<1> USE MailAssumption
<1>a. \A m \in Message : row[m] \in Row /\ claims[m] \in Nat /\ Good(row[m], claims[m], m \in undone)
  BY GoodRows DEF LeaseInv, TypeOK
<1>b. TypeOK
  BY DEF LeaseInv
<1>1. ASSUME NEW m \in Message, Sender(m) PROVE Good(row'[n], claims'[n], n \in undone')
  <2>1. ASSUME NEW delay \in 0 .. MaxUndo, NEW scheduled \in BOOLEAN,
               CreateOutbound(m, delay, scheduled)
        PROVE  Good(row'[n], claims'[n], n \in undone')
    BY <2>1, <1>a, <1>b DEF CreateOutbound, EmptyRow, TypeOK, Good
  <2>2. CASE CancelOutbound(m)
    BY <2>2, <1>a, <1>b DEF CancelOutbound, Row, TypeOK, Good
  <2>3. ASSUME NEW delay \in 0 .. MaxUndo, RescheduleSend(m, delay)
        PROVE  Good(row'[n], claims'[n], n \in undone')
    BY <2>3, <1>a, <1>b DEF RescheduleSend, Row, TypeOK, Good
  <2>4. CASE RetryOutbound(m)
    BY <2>4, <1>a, <1>b DEF RetryOutbound, Row, TypeOK, Good
  <2>5. QED
    BY <1>1, <2>1, <2>2, <2>3, <2>4 DEF Sender
<1>2. ASSUME NEW m \in Message, ReplayOutbound(m) PROVE Good(row'[n], claims'[n], n \in undone')
  BY <1>2, <1>a, <1>b DEF ReplayOutbound, Row, TypeOK, Good
<1>3. ASSUME NEW w \in Worker, ClaimDue(w) PROVE Good(row'[n], claims'[n], n \in undone')
  <2>1. PICK m \in Due(Swept) :
          /\ row' = [Swept EXCEPT ![m] =
                       [row[m] EXCEPT !.status = "sending", !.attempts = @ + 1, !.next = None,
                                      !.token = claims[m] + 1, !.lease = LeaseTime]]
          /\ claims' = [claims EXCEPT ![m] = @ + 1]
          /\ undone' = undone
    BY <1>3 DEF ClaimDue
  <2>2. m \in Message /\ Swept[m] = row[m] /\ row[m].status = "queued" /\ row[m].next = 0
    BY DEF Due, Swept
  <2>3. Good([row[m] EXCEPT !.status = "sending", !.attempts = @ + 1, !.next = None,
                            !.token = claims[m] + 1, !.lease = LeaseTime], claims[m] + 1,
            m \in undone)
    BY <2>2, <1>a DEF Good, Row
  <2>4. CASE n = m
    BY <2>1, <2>2, <2>3, <2>4, <1>b, SweptType DEF TypeOK
  <2>5. CASE n # m
    BY <2>1, <2>2, <2>5, <1>a, <1>b, SweptType, SweptGood DEF TypeOK
  <2>6. QED
    BY <2>4, <2>5
<1>4. ASSUME NEW w \in Worker, ClaimNothing(w) PROVE Good(row'[n], claims'[n], n \in undone')
  BY <1>4, <1>a, <1>b, SweptGood DEF ClaimNothing
<1>5. ASSUME NEW w \in Worker, NEW p \in Provider, BindProvider(w, p)
      PROVE  Good(row'[n], claims'[n], n \in undone')
  <2>1. worker[w].msg \in Message
    BY <1>5, <1>b, BusyWorker DEF BindProvider
  <2>2. \/ row' = row
        \/ row' = [row EXCEPT ![worker[w].msg] = [row[worker[w].msg] EXCEPT !.provider = p]]
    BY <1>5 DEF BindProvider
  <2>3. Good([row[worker[w].msg] EXCEPT !.provider = p], claims[worker[w].msg],
            worker[w].msg \in undone)
    BY <2>1, <1>a DEF Good, Row
  <2>4. QED
    BY <1>5, <2>1, <2>2, <2>3, <1>a, <1>b DEF BindProvider, TypeOK
<1>6. ASSUME NEW w \in Worker, NEW backoff \in 1 .. MaxBackoff, Acknowledge(w, backoff)
      PROVE  Good(row'[n], claims'[n], n \in undone')
  <2>1. worker[w].msg \in Message /\ Holds(w)
    BY <1>6, <1>b, BusyWorker DEF Acknowledge
  <2>2. worker[w].result \in {"sent", "retry", "dead"}
    BY <1>6, <1>b DEF Acknowledge, TypeOK, Dispatch
  <2>3. backoff \in Nat /\ backoff # None /\ 0 <= backoff
    OBVIOUS
  <2>4. Good(Acknowledged(row[worker[w].msg], w, backoff), claims[worker[w].msg],
            worker[w].msg \in undone)
    BY <2>1, <2>2, <2>3, <1>a DEF Acknowledged, Holds, Good, Row
  <2>5. QED
    BY <1>6, <2>1, <2>4, <1>a, <1>b DEF Acknowledge, TypeOK
<1>7. CASE Feedback
  <2>1. PICK h \in handoffs, kind \in Reports, suppress \in BOOLEAN :
          RecordEvent(h, kind, suppress)
    BY <1>7 DEF Feedback
  <2>2. /\ row' = [row EXCEPT ![h.msg] =
                    [row[h.msg] EXCEPT !.status = StatusAfter(@, kind), !.token = 0,
                                       !.lease = 0, !.next = None]]
        /\ UNCHANGED <<claims, undone>>
    BY <2>1 DEF RecordEvent
  <2>3. CASE n # h.msg
    BY <2>2, <2>3, <1>a, <1>b
  <2>4. CASE n = h.msg
    <3>1. row[n] \in Row /\ Good(row[n], claims[n], n \in undone)
      BY <1>a
    <3>2. row'[n] = [row[n] EXCEPT !.status = StatusAfter(@, kind), !.token = 0, !.lease = 0,
                                   !.next = None]
      BY <2>2, <2>4, <1>b DEF TypeOK
    <3>3. row[n].status \in Status /\ kind \in EventKind
      BY <3>1 DEF Row
    <3>4. claims[n] > 0
      BY <2>1, <2>4 DEF LeaseInv, WorkUnderLease
    <3>5. n \notin undone
      BY <3>1, <3>4, <1>a DEF Good
    <3>6. /\ row'[n].token = 0 /\ row'[n].next = None /\ row'[n].undo = row[n].undo
          /\ row'[n].status = StatusAfter(row[n].status, kind) /\ row'[n].dead = row[n].dead
      BY <3>1, <3>2 DEF Row
    <3> QED
      BY <2>2, <3>1, <3>3, <3>4, <3>5, <3>6, <1>a, StatusAfterEvent DEF Good
  <2> QED
    BY <2>3, <2>4
<1>8. CASE Tick
  <2>1. row'[n] = [row[n] EXCEPT !.undo = Later(@), !.lease = Later(@), !.next = Later(@)]
    BY <1>8 DEF Tick
  <2>2. row[n] \in Row /\ Good(row[n], claims[n], n \in undone)
        /\ UNCHANGED <<claims, undone>>
    BY <1>8, <1>a DEF Tick
  <2>3. Good([row[n] EXCEPT !.undo = Later(@), !.lease = Later(@), !.next = Later(@)],
             claims[n], n \in undone)
    BY <2>2 DEF Good, Row, Time, Later
  <2>4. QED
    BY <2>1, <2>2, <2>3
<1>9. CASE UNCHANGED <<row, claims, undone>>
  BY <1>9, <1>a
<1>10. ASSUME NEW a \in Actor, OffboardActor(a) PROVE Good(row'[n], claims'[n], n \in undone')
  <2>1. /\ OffboardedRow(n)
        /\ UNCHANGED <<claims, undone>>
    BY <1>10, OffboardStep DEF OffboardActor
  <2> QED
    BY <2>1, <1>a DEF Row, Good, OffboardedRow
<1>11. QED
  BY <1>1, <1>2, <1>3, <1>4, <1>5, <1>6, <1>7, <1>8, <1>9, <1>10
     DEF Next, DispatchStep, vars, CheckRecipients, PreparationFails, DeliverLocal, Send,
         SendAccepted, SendRejected, SendLost, AcknowledgeTooLate, Crash, RemoveSuppression

-----------------------------------------------------------------------------
(* What the statements that only touch rows have in common: a row enters   *)
(* the queue before its first lease or for a new round of review, and none *)
(* becomes leased.                                                         *)
RowsOnly ==
  \/ \E m \in Message : Sender(m) \/ ReplayOutbound(m)
  \/ \E w \in Worker : ClaimNothing(w)
  \/ Feedback
  \/ \E a \in Actor : OffboardActor(a)
  \/ Tick

RowsOnlyEffect(n) ==
  /\ review'[n] \in {review[n], review[n] + 1}
  /\ row'[n].status = "queued" =>
       \/ row[n].status = "queued" /\ review'[n] = review[n]
       \/ claims[n] = 0
       \/ review'[n] = review[n] + 1
  /\ row'[n].status = "sending" =>
       /\ row[n].status = "sending"
       /\ row'[n].token = row[n].token
       /\ review'[n] = review[n]
  /\ row'[n].status = "cancelled" =>
       row[n].status \in {"queued", "cancelled"} /\ review'[n] = review[n]
  /\ row'[n].provider = row[n].provider \/ claims[n] = 0

LEMMA RowsOnlyStep ==
  ASSUME LeaseInv, RowsOnly
  PROVE  /\ UNCHANGED <<worker, filed, handoffs, claims>>
         /\ \A n \in Message : RowsOnlyEffect(n)
<1> USE MailAssumption
<1>a. \A m \in Message : row[m] \in Row /\ claims[m] \in Nat /\ review[m] \in Nat
                           /\ Good(row[m], claims[m], m \in undone)
  BY GoodRows DEF LeaseInv, TypeOK
<1>b. TypeOK
  BY DEF LeaseInv
<1>1. UNCHANGED <<worker, filed, handoffs, claims>>
  BY DEF RowsOnly, Sender, CreateOutbound, CancelOutbound, RescheduleSend, RetryOutbound,
         ReplayOutbound, ClaimNothing, Feedback, RecordEvent, OffboardActor, Tick
<1>2. SUFFICES ASSUME NEW n \in Message PROVE RowsOnlyEffect(n)
  BY <1>1
<1>3. ASSUME NEW m \in Message, Sender(m) PROVE RowsOnlyEffect(n)
  <2>1. ASSUME NEW delay \in 0 .. MaxUndo, NEW scheduled \in BOOLEAN,
               CreateOutbound(m, delay, scheduled)
        PROVE  RowsOnlyEffect(n)
    BY <2>1, <1>a, <1>b DEF CreateOutbound, EmptyRow, TypeOK, Good, RowsOnlyEffect
  <2>2. CASE CancelOutbound(m)
    BY <2>2, <1>a, <1>b DEF CancelOutbound, Row, TypeOK, RowsOnlyEffect
  <2>3. ASSUME NEW delay \in 0 .. MaxUndo, RescheduleSend(m, delay)
        PROVE  RowsOnlyEffect(n)
    BY <2>3, <1>a, <1>b DEF RescheduleSend, Row, TypeOK, RowsOnlyEffect
  <2>4. CASE RetryOutbound(m)
    BY <2>4, <1>a, <1>b DEF RetryOutbound, Row, TypeOK, RowsOnlyEffect
  <2>5. QED
    BY <1>3, <2>1, <2>2, <2>3, <2>4 DEF Sender
<1>4. ASSUME NEW m \in Message, ReplayOutbound(m) PROVE RowsOnlyEffect(n)
  BY <1>4, <1>a, <1>b DEF ReplayOutbound, Row, TypeOK, RowsOnlyEffect
<1>5. ASSUME NEW w \in Worker, ClaimNothing(w) PROVE RowsOnlyEffect(n)
  <2>1. UNCHANGED <<claims, review>> /\ row[n] \in Row
        /\ \/ row'[n] = row[n]
           \/ row'[n] = [row[n] EXCEPT !.status = "failed", !.dead = TRUE, !.token = 0,
                                       !.next = None]
    BY <1>5, <1>a DEF ClaimNothing, Swept
  <2>2. CASE row'[n] = row[n]
    BY <2>1, <2>2 DEF RowsOnlyEffect
  <2>3. CASE row'[n] = [row[n] EXCEPT !.status = "failed", !.dead = TRUE, !.token = 0,
                                      !.next = None]
    <3>1. row'[n].status = "failed" /\ row'[n].provider = row[n].provider
      BY <2>1, <2>3 DEF Row
    <3> QED BY <2>1, <3>1 DEF RowsOnlyEffect
  <2> QED BY <2>1, <2>2, <2>3
<1>6. CASE Feedback
  BY <1>6, <1>a, <1>b, StatusAfterEvent
     DEF Feedback, RecordEvent, Row, Handoff, TypeOK, RowsOnlyEffect
<1>7. CASE Tick
  <2>1. UNCHANGED <<claims, review>> /\ row[n] \in Row
        /\ row'[n] = [row[n] EXCEPT !.undo = Later(@), !.lease = Later(@), !.next = Later(@)]
    BY <1>7, <1>a DEF Tick
  <2>2. row'[n].status = row[n].status /\ row'[n].token = row[n].token
        /\ row'[n].provider = row[n].provider
    BY <2>1 DEF Row
  <2> QED BY <2>1, <2>2 DEF RowsOnlyEffect
<1>8. ASSUME NEW a \in Actor, OffboardActor(a) PROVE RowsOnlyEffect(n)
  <2>1. /\ OffboardedRow(n)
        /\ UNCHANGED <<claims, review>> /\ row[n] \in Row /\ review[n] \in Nat
    BY <1>8, <1>a, OffboardStep DEF OffboardActor
  <2> QED
    BY <2>1 DEF Row, RowsOnlyEffect, OffboardedRow
<1>9. QED
  BY <1>3, <1>4, <1>5, <1>6, <1>7, <1>8 DEF RowsOnly

(* What the steps of a dispatch have in common: the worker keeps message,  *)
(* lease and round until it is idle, is unsettled only if it already was,  *)
(* and no longer once the relay took a copy.  Its row goes back to the     *)
(* queue only if it held the lease, was unsettled and now is idle.         *)
Works(w) == DispatchStep(w) \/ Crash(w)

SameDispatch(d, e) == e.msg = d.msg /\ e.token = d.token /\ e.review = d.review

RowAfterWork(w) ==
  LET m == worker[w].msg IN
  /\ \A n \in Message : n # m => row'[n] = row[n]
  /\ row'[m].status = "queued" /\ row[m].status # "queued" =>
       Unsettled(w) /\ Holds(w) /\ worker'[w].pc = "idle"
  /\ row'[m].status = "sending" =>
       row[m].status = "sending" /\ row'[m].token = row[m].token
  /\ row'[m].status = "cancelled" <=> row[m].status = "cancelled"
  /\ row'[m].provider # row[m].provider =>
       /\ row[m].provider = None
       /\ handoffs' = handoffs
  /\ worker'[w].pc = "send" => row'[m].provider = worker'[w].via /\ worker'[w].via \in Provider

HandoffsAfterWork(w) ==
  \/ handoffs' = handoffs
  \/ /\ worker[w].pc = "send" /\ worker'[w].pc = "ack"
     /\ \E accepted, closed \in BOOLEAN :
          /\ handoffs' = handoffs \cup {HandoffBy(w, accepted, closed)}
          /\ FinalCopy(HandoffBy(w, accepted, closed)) => ~Unsettled(w)'

LEMMA WorksStep ==
  ASSUME LeaseInv, TypeOK', NEW w \in Worker, Works(w)
  PROVE  /\ Active(w) /\ worker[w].msg \in Message
         /\ \A v \in Worker : v # w => worker'[v] = worker[v]
         /\ worker'[w].pc = "idle" \/ SameDispatch(worker[w], worker'[w])
         /\ Unsettled(w)' => Unsettled(w)
         /\ filed' \subseteq filed \cup {worker[w].msg}
         /\ UNCHANGED <<claims, review, undone>>
         /\ RowAfterWork(w)
         /\ HandoffsAfterWork(w)
<1> USE MailAssumption
<1>a. TypeOK /\ worker[w] \in Dispatch
  BY DEF LeaseInv, TypeOK
<1>b. Active(w)
  BY DEF Works, Crash, Active, DispatchStep, CheckRecipients, PreparationFails, DeliverLocal,
         BindProvider, Send, SendAccepted, SendRejected, SendLost, Acknowledge,
         AcknowledgeTooLate
<1>c. worker[w].msg \in Message
  BY <1>a, <1>b, BusyWorker DEF Active
<1>d. row[worker[w].msg] \in Row
  BY <1>a, <1>c DEF TypeOK
<1> DEFINE WorkerPart ==
             /\ \A v \in Worker : v # w => worker'[v] = worker[v]
             /\ worker'[w].pc = "idle" \/ SameDispatch(worker[w], worker'[w])
             /\ Unsettled(w)' => Unsettled(w)
           Rest ==
             /\ filed' \subseteq filed \cup {worker[w].msg}
             /\ UNCHANGED <<claims, review, undone>>
             /\ RowAfterWork(w)
             /\ HandoffsAfterWork(w)
<1>1. ASSUME CheckRecipients(w)
      PROVE  WorkerPart /\ Rest
  <2>1. WorkerPart /\ worker'[w].pc = "local"
    BY <1>1, <1>a DEF CheckRecipients, TypeOK, Dispatch, SameDispatch, Unsettled
  <2>2. Rest
    BY <1>1, <2>1 DEF CheckRecipients, RowAfterWork, HandoffsAfterWork
  <2>3. QED
    BY <2>1, <2>2
<1>2. ASSUME NEW terminal \in BOOLEAN, PreparationFails(w, terminal)
      PROVE  WorkerPart /\ Rest
  <2>1. WorkerPart /\ worker'[w].pc = "ack"
    BY <1>2, <1>a DEF PreparationFails, Fail, TypeOK, Dispatch, SameDispatch, Unsettled
  <2>2. Rest
    BY <1>2, <2>1 DEF PreparationFails, RowAfterWork, HandoffsAfterWork
  <2>3. QED
    BY <2>1, <2>2
<1>3. ASSUME DeliverLocal(w)
      PROVE  WorkerPart /\ Rest
  <2>1. worker[w].pc = "local" /\ UNCHANGED <<row, handoffs, claims, review, undone>>
    BY <1>3 DEF DeliverLocal
  <2>2. /\ worker'[w].pc = "bind" \/ worker'[w].pc = "ack"
        /\ SameDispatch(worker[w], worker'[w])
        /\ \A v \in Worker : v # w => worker'[v] = worker[v]
    <3>1. CASE Fail(w, TRUE)
      BY <3>1, <1>a DEF Fail, SameDispatch, TypeOK, Dispatch
    <3>2. CASE ~Fail(w, TRUE)
      <4>1. \/ worker' = [worker EXCEPT ![w].pc = "bind"]
            \/ worker' = [worker EXCEPT ![w].pc = "ack", ![w].result = "sent"]
        BY <1>3, <3>2 DEF DeliverLocal
      <4>2. QED
        BY <4>1, <1>a DEF SameDispatch, TypeOK, Dispatch
    <3>3. QED
      BY <3>1, <3>2
  <2>3. WorkerPart /\ worker'[w].pc # "send"
    BY <2>1, <2>2 DEF Unsettled
  <2>4. Rest
    BY <1>3, <2>1, <2>3 DEF DeliverLocal, RowAfterWork, HandoffsAfterWork
  <2>5. QED
    BY <2>3, <2>4
<1>4. ASSUME NEW p \in Provider, BindProvider(w, p) PROVE WorkerPart /\ Rest
  <2>1. CASE UNCHANGED row /\ Fail(w, TRUE)
    <3>1. WorkerPart /\ worker'[w].pc = "ack"
      BY <1>4, <2>1, <1>a DEF BindProvider, Fail, TypeOK, Dispatch, SameDispatch, Unsettled
    <3>2. Rest
      BY <1>4, <2>1, <3>1 DEF BindProvider, RowAfterWork, HandoffsAfterWork
    <3>3. QED
      BY <3>1, <3>2
  <2>2. CASE ~(UNCHANGED row /\ Fail(w, TRUE))
    <3>1. /\ row' = [row EXCEPT ![worker[w].msg] = [row[worker[w].msg] EXCEPT !.provider = p]]
          /\ worker' = [worker EXCEPT ![w] = [worker[w] EXCEPT !.pc = "send", !.via = p]]
          /\ row[worker[w].msg].provider \in {None, p}
          /\ worker[w].pc = "bind"
          /\ UNCHANGED <<filed, handoffs, claims, review, undone>>
      BY <1>4, <2>2, <1>a, <1>c DEF BindProvider, TypeOK
    <3>2. WorkerPart /\ worker'[w].pc = "send" /\ worker'[w].via = p
      BY <3>1, <1>a DEF TypeOK, Dispatch, SameDispatch, Unsettled
    <3>3. /\ row'[worker[w].msg] = [row[worker[w].msg] EXCEPT !.provider = p]
          /\ \A n \in Message : n # worker[w].msg => row'[n] = row[n]
      BY <3>1, <1>a, <1>c DEF TypeOK
    <3>4. Rest
      BY <3>1, <3>2, <3>3, <1>d DEF Row, RowAfterWork, HandoffsAfterWork
    <3>5. QED
      BY <3>2, <3>4
  <2>3. QED
    BY <2>1, <2>2
<1>5. ASSUME Send(w)
      PROVE  WorkerPart /\ Rest
  <2>1. worker[w].pc = "send" /\ UNCHANGED <<row, filed, claims, review, undone>>
    BY <1>5 DEF Send, SendAccepted, SendRejected, SendLost
  <2>2. PICK accepted, closed \in BOOLEAN, result \in {"sent", "retry", "dead"} :
          /\ handoffs' = handoffs \cup {HandoffBy(w, accepted, closed)}
          /\ worker' = [worker EXCEPT ![w].pc = "ack", ![w].result = result]
          /\ accepted /\ ~closed /\ worker[w].via \notin Managed => result # "retry"
    BY <1>5 DEF Send, SendAccepted, SendRejected, SendLost, Fail, Failure
  <2>3. WorkerPart /\ worker'[w].pc = "ack" /\ worker'[w].result = result
    BY <2>1, <2>2, <1>a DEF TypeOK, Dispatch, SameDispatch, Unsettled
  <2>4. FinalCopy(HandoffBy(w, accepted, closed)) => ~Unsettled(w)'
    BY <2>2, <2>3 DEF FinalCopy, Copy, HandoffBy, Unsettled
  <2>5. Rest
    BY <2>1, <2>2, <2>3, <2>4 DEF RowAfterWork, HandoffsAfterWork
  <2>6. QED
    BY <2>3, <2>5
<1>6. ASSUME NEW backoff \in 1 .. MaxBackoff, Acknowledge(w, backoff)
      PROVE  WorkerPart /\ Rest
  <2>1. /\ worker[w].pc = "ack" /\ Holds(w) /\ worker' = [worker EXCEPT ![w] = Idle]
        /\ row' = [row EXCEPT ![worker[w].msg] =
                     Acknowledged(row[worker[w].msg], w, backoff)]
        /\ UNCHANGED <<filed, handoffs, claims, review, undone>>
    BY <1>6 DEF Acknowledge
  <2>2. WorkerPart /\ worker'[w].pc = "idle"
    BY <2>1, <1>a DEF TypeOK, Unsettled, Idle
  <2>3. /\ \A n \in Message : n # worker[w].msg => row'[n] = row[n]
        /\ row'[worker[w].msg] = Acknowledged(row[worker[w].msg], w, backoff)
    BY <2>1, <1>a, <1>c DEF TypeOK
  <2>4. worker[w].result \in {"sent", "retry", "dead"} /\ row[worker[w].msg].status = "sending"
    BY <2>1, <1>a DEF Dispatch, Holds
  <2>5. /\ row'[worker[w].msg].status \in {"accepted", "queued", "failed"}
        /\ row'[worker[w].msg].status = "queued" => worker[w].result = "retry"
        /\ row'[worker[w].msg].provider = row[worker[w].msg].provider
    BY <2>3, <2>4, <1>d DEF Acknowledged, Row
  <2>6. Rest
    BY <2>1, <2>2, <2>3, <2>4, <2>5 DEF RowAfterWork, HandoffsAfterWork, Unsettled
  <2>7. QED
    BY <2>2, <2>6
<1>7. ASSUME AcknowledgeTooLate(w) \/ Crash(w)
      PROVE  WorkerPart /\ Rest
  <2>1. WorkerPart /\ worker'[w].pc = "idle"
    BY <1>7, <1>a DEF AcknowledgeTooLate, Crash, TypeOK, Unsettled, Idle
  <2>2. Rest
    BY <1>7, <2>1 DEF AcknowledgeTooLate, Crash, RowAfterWork, HandoffsAfterWork
  <2>3. QED
    BY <2>1, <2>2
<1>8. QED
  BY <1>b, <1>c, <1>1, <1>2, <1>3, <1>4, <1>5, <1>6, <1>7 DEF Works, DispatchStep

(* A claim leases a queued row to an idle worker for the current round, and*)
(* puts no other row in the queue or under a lease.                        *)
ClaimEffect(w, m) ==
  /\ row[m].status = "queued"
  /\ claims' = [claims EXCEPT ![m] = @ + 1]
  /\ ~Active(w)
  /\ worker'[w].pc = "check"
  /\ worker'[w].msg = m
  /\ worker'[w].token = claims[m] + 1
  /\ worker'[w].review = review[m]
  /\ \A v \in Worker : v # w => worker'[v] = worker[v]
  /\ row'[m].status = "sending"
  /\ row'[m].token = claims[m] + 1
  /\ \A n \in Message :
       /\ row'[n].provider = row[n].provider
       /\ row'[n].status = "queued" => row[n].status = "queued"
       /\ row'[n].status = "cancelled" <=> row[n].status = "cancelled"
       /\ row'[n].status = "sending" /\ n # m =>
            row[n].status = "sending" /\ row'[n].token = row[n].token
  /\ UNCHANGED <<filed, handoffs, review, undone>>

LEMMA ClaimStep ==
  ASSUME LeaseInv, NEW w \in Worker, ClaimDue(w)
  PROVE  \E m \in Message : ClaimEffect(w, m)
<1>a. TypeOK
  BY DEF LeaseInv
<1>1. PICK m \in Due(Swept) :
        /\ row' = [Swept EXCEPT ![m] =
                     [row[m] EXCEPT !.status = "sending", !.attempts = @ + 1, !.next = None,
                                    !.token = claims[m] + 1, !.lease = LeaseTime]]
        /\ claims' = [claims EXCEPT ![m] = @ + 1]
        /\ worker' = [worker EXCEPT ![w] =
                        [pc |-> "check", msg |-> m, token |-> claims[m] + 1,
                         attempt |-> row[m].attempts + 1, lock |-> row[m].provider,
                         via |-> None, result |-> "none", review |-> review[m],
                         barred |-> AddressOf[m] \in suppressed]]
  BY DEF ClaimDue
<1>2. m \in Message /\ Swept[m] = row[m] /\ row[m].status = "queued" /\ row[m] \in Row
  BY <1>a DEF Due, Swept, TypeOK
<1>3. row'[m] = [row[m] EXCEPT !.status = "sending", !.attempts = @ + 1, !.next = None,
                               !.token = claims[m] + 1, !.lease = LeaseTime]
  BY <1>1, <1>2, <1>a, SweptType
<1>4. ASSUME NEW n \in Message, n # m
      PROVE  /\ row'[n].provider = row[n].provider
             /\ row'[n].status = "queued" => row[n].status = "queued"
             /\ row'[n].status = "cancelled" <=> row[n].status = "cancelled"
             /\ row'[n].status = "sending" =>
                  row[n].status = "sending" /\ row'[n].token = row[n].token
  <2>1. row'[n] = Swept[n] /\ row[n] \in Row
    BY <1>1, <1>4, <1>a, SweptType DEF TypeOK
  <2>2. QED
    BY <2>1 DEF Swept, Expired, Row
<1>5. /\ row'[m].status = "sending"
      /\ row'[m].token = claims[m] + 1
      /\ row'[m].provider = row[m].provider
  BY <1>2, <1>3 DEF Row
<1>6. /\ worker'[w].pc = "check"
      /\ worker'[w].msg = m
      /\ worker'[w].token = claims[m] + 1
      /\ worker'[w].review = review[m]
      /\ \A v \in Worker : v # w => worker'[v] = worker[v]
  BY <1>1, <1>a DEF TypeOK
<1>7. ClaimEffect(w, m)
  BY <1>1, <1>2, <1>4, <1>5, <1>6 DEF ClaimDue, ClaimEffect, Active
<1>8. QED
  BY <1>2, <1>7

(* The remaining steps leave everything alone but the suppression list and *)
(* what dispatches remember of it.                                         *)
Untouched ==
  /\ UNCHANGED <<row, filed, handoffs, claims, review, undone>>
  /\ \A w \in Worker :
       /\ worker'[w].pc = worker[w].pc
       /\ worker'[w].result = worker[w].result
       /\ worker'[w].via = worker[w].via
       /\ SameDispatch(worker[w], worker'[w])

LEMMA StepKinds ==
  ASSUME TypeOK, [Next]_vars
  PROVE  \/ RowsOnly
         \/ \E w \in Worker : ClaimDue(w)
         \/ \E w \in Worker : Works(w)
         \/ Untouched
<1>1. ASSUME NEW a \in Address, RemoveSuppression(a) PROVE Untouched
  BY <1>1 DEF RemoveSuppression, Untouched, SameDispatch, TypeOK, Dispatch
<1>2. CASE UNCHANGED vars
  BY <1>2 DEF vars, Untouched, SameDispatch
<1>3. QED
  BY <1>1, <1>2 DEF Next, RowsOnly, Works

-----------------------------------------------------------------------------
LEMMA HandoffFields ==
  \A w \in Worker, accepted, closed \in BOOLEAN :
    /\ HandoffBy(w, accepted, closed).msg = worker[w].msg
    /\ HandoffBy(w, accepted, closed).token = worker[w].token
    /\ HandoffBy(w, accepted, closed).review = worker[w].review
    /\ HandoffBy(w, accepted, closed).provider = worker[w].via
  BY DEF HandoffBy

LEMMA WorkUnderLeaseStep ==
  LeaseInv /\ TypeOK' /\ [Next]_vars => WorkUnderLease'
<1> SUFFICES ASSUME LeaseInv, TypeOK', [Next]_vars PROVE WorkUnderLease'
  OBVIOUS
<1>a. TypeOK /\ WorkUnderLease
  BY DEF LeaseInv
<1>b. /\ \A m \in Message : claims[m] \in Nat /\ review[m] \in Nat /\ claims'[m] \in Nat
      /\ \A w \in Worker : /\ worker[w].token \in Nat
                           /\ worker[w].review \in Nat
                           /\ Active(w) => worker[w].msg \in Message
      /\ \A h \in handoffs : h.msg \in Message /\ h.review \in Nat
      /\ filed \subseteq Message
  BY <1>a, BusyWorker DEF TypeOK, Dispatch, Handoff, Active
<1>1. CASE RowsOnly
  BY <1>1, <1>a, <1>b, RowsOnlyStep DEF RowsOnlyEffect, WorkUnderLease, Active
<1>2. ASSUME NEW w \in Worker, NEW m \in Message, ClaimEffect(w, m) PROVE WorkUnderLease'
  <2>1. \A n \in Message : claims'[n] >= claims[n] /\ (n = m => claims'[n] = claims[n] + 1)
    BY <1>2, <1>a, <1>b DEF ClaimEffect, TypeOK
  <2>2. QED
    BY <1>2, <2>1, <1>a, <1>b DEF ClaimEffect, WorkUnderLease, Active
<1>3. ASSUME NEW w \in Worker, Works(w) PROVE WorkUnderLease'
  <2>1. /\ Active(w) /\ worker[w].msg \in Message
        /\ \A v \in Worker : v # w => worker'[v] = worker[v]
        /\ worker'[w].pc = "idle" \/ SameDispatch(worker[w], worker'[w])
        /\ filed' \subseteq filed \cup {worker[w].msg}
        /\ UNCHANGED <<claims, review>>
        /\ HandoffsAfterWork(w)
    BY <1>3, WorksStep
  <2>2. claims[worker[w].msg] > 0 /\ worker[w].review <= review[worker[w].msg]
    BY <2>1, <1>a, <1>b DEF WorkUnderLease
  <2>3. \A h \in handoffs' : claims'[h.msg] > 0 /\ h.review <= review'[h.msg]
    BY <2>1, <2>2, <1>a, <1>b, HandoffFields DEF HandoffsAfterWork, WorkUnderLease
  <2>4. QED
    BY <2>1, <2>2, <2>3, <1>a, <1>b DEF WorkUnderLease, Active, SameDispatch
<1>4. CASE Untouched
  BY <1>4, <1>a DEF Untouched, SameDispatch, WorkUnderLease, Active
<1>5. QED
  BY <1>1, <1>2, <1>3, <1>4, <1>a, StepKinds, ClaimStep

LEMMA LeaseIsCurrentStep ==
  LeaseInv /\ TypeOK' /\ [Next]_vars => LeaseIsCurrent'
<1> SUFFICES ASSUME LeaseInv, TypeOK', [Next]_vars PROVE LeaseIsCurrent'
  OBVIOUS
<1>a. TypeOK /\ WorkUnderLease /\ LeaseIsCurrent
  BY DEF LeaseInv
<1>b. /\ \A m \in Message : claims[m] \in Nat /\ review[m] \in Nat
      /\ \A w \in Worker : /\ worker[w].token \in Nat
                           /\ Active(w) => worker[w].msg \in Message
  BY <1>a, BusyWorker DEF TypeOK, Dispatch, Active
<1>1. CASE RowsOnly
  BY <1>1, <1>a, <1>b, RowsOnlyStep DEF RowsOnlyEffect, LeaseIsCurrent, Holds, Active
<1>2. ASSUME NEW w \in Worker, NEW m \in Message, ClaimEffect(w, m) PROVE LeaseIsCurrent'
  BY <1>2, <1>a, <1>b DEF ClaimEffect, LeaseIsCurrent, WorkUnderLease, Holds, Active
<1>3. ASSUME NEW w \in Worker, Works(w) PROVE LeaseIsCurrent'
  <2>1. /\ Active(w) /\ worker[w].msg \in Message
        /\ \A v \in Worker : v # w => worker'[v] = worker[v]
        /\ worker'[w].pc = "idle" \/ SameDispatch(worker[w], worker'[w])
        /\ UNCHANGED <<claims, review>>
        /\ RowAfterWork(w)
    BY <1>3, WorksStep
  <2>2. QED
    BY <2>1, <1>a, <1>b DEF RowAfterWork, LeaseIsCurrent, Holds, Active, SameDispatch
<1>4. CASE Untouched
  BY <1>4, <1>a DEF Untouched, SameDispatch, LeaseIsCurrent, Holds, Active
<1>5. QED
  BY <1>1, <1>2, <1>3, <1>4, <1>a, StepKinds, ClaimStep

LEMMA BoundBeforeHandoffStep ==
  LeaseInv /\ TypeOK' /\ [Next]_vars => BoundBeforeHandoff'
<1> SUFFICES ASSUME LeaseInv, TypeOK', [Next]_vars PROVE BoundBeforeHandoff'
  OBVIOUS
<1>a. TypeOK /\ WorkUnderLease /\ BoundBeforeHandoff
  BY DEF LeaseInv
<1>b. /\ \A m \in Message : claims[m] \in Nat
      /\ \A w \in Worker : /\ worker[w].token \in Nat
                           /\ Active(w) => worker[w].msg \in Message /\ claims[worker[w].msg] > 0
      /\ \A h \in handoffs : h.msg \in Message /\ h.provider \in Provider /\ claims[h.msg] > 0
  BY <1>a, BusyWorker DEF TypeOK, Dispatch, Handoff, Active, WorkUnderLease
<1>1. CASE RowsOnly
  BY <1>1, <1>a, <1>b, RowsOnlyStep DEF RowsOnlyEffect, BoundBeforeHandoff, Active
<1>2. ASSUME NEW w \in Worker, NEW m \in Message, ClaimEffect(w, m) PROVE BoundBeforeHandoff'
  BY <1>2, <1>a, <1>b DEF ClaimEffect, BoundBeforeHandoff, Active
<1>3. ASSUME NEW w \in Worker, Works(w) PROVE BoundBeforeHandoff'
  <2>1. /\ worker[w].msg \in Message
        /\ \A v \in Worker : v # w => worker'[v] = worker[v]
        /\ worker'[w].pc = "idle" \/ SameDispatch(worker[w], worker'[w])
        /\ RowAfterWork(w)
        /\ HandoffsAfterWork(w)
    BY <1>3, WorksStep
  <2>2. None \notin Provider
    BY MailAssumption
  <2>3. \A h \in handoffs : row'[h.msg].provider = h.provider
    BY <2>1, <2>2, <1>a, <1>b DEF RowAfterWork, BoundBeforeHandoff
  <2>4. \A h \in handoffs' : row'[h.msg].provider = h.provider
    <3>1. CASE handoffs' = handoffs
      BY <2>3, <3>1
    <3>2. ASSUME worker[w].pc = "send", NEW accepted \in BOOLEAN,
                 NEW closed \in BOOLEAN,
                 handoffs' = handoffs \cup {HandoffBy(w, accepted, closed)}
          PROVE  \A h \in handoffs' : row'[h.msg].provider = h.provider
      <4>1. row[worker[w].msg].provider = worker[w].via /\ worker[w].via \in Provider
        BY <3>2, <1>a DEF BoundBeforeHandoff
      <4>2. row'[worker[w].msg].provider = worker[w].via
        BY <2>1, <2>2, <4>1 DEF RowAfterWork
      <4>3. QED
        BY <2>3, <3>2, <4>2, HandoffFields
    <3>3. QED
      BY <2>1, <3>1, <3>2 DEF HandoffsAfterWork
  <2>5. \A v \in Worker : worker'[v].pc = "send" =>
          worker'[v].via \in Provider /\ row'[worker'[v].msg].provider = worker'[v].via
    <3>1. ASSUME NEW v \in Worker, v # w, worker[v].pc = "send"
          PROVE  row'[worker[v].msg].provider = worker[v].via /\ worker[v].via \in Provider
      <4>1. /\ row[worker[v].msg].provider = worker[v].via
            /\ worker[v].via \in Provider /\ worker[v].msg \in Message
        BY <3>1, <1>a, <1>b DEF BoundBeforeHandoff, Active
      <4>2. QED
        BY <2>1, <2>2, <4>1 DEF RowAfterWork
    <3>2. QED
      BY <2>1, <3>1 DEF RowAfterWork, SameDispatch
  <2>6. QED
    BY <2>4, <2>5 DEF BoundBeforeHandoff
<1>4. CASE Untouched
  BY <1>4, <1>a DEF Untouched, SameDispatch, BoundBeforeHandoff
<1>5. QED
  BY <1>1, <1>2, <1>3, <1>4, <1>a, StepKinds, ClaimStep

LEMMA OneDispatchStep ==
  LeaseInv /\ TypeOK' /\ [Next]_vars => OneDispatchPerReview' /\ OneCopyPerReview'
<1> SUFFICES ASSUME LeaseInv, TypeOK', [Next]_vars
             PROVE  OneDispatchPerReview' /\ OneCopyPerReview'
  OBVIOUS
<1>a. /\ TypeOK /\ WorkUnderLease /\ LeaseIsCurrent
      /\ OneDispatchPerReview /\ OneCopyPerReview
  BY DEF LeaseInv
<1>b. /\ \A m \in Message : claims[m] \in Nat /\ review[m] \in Nat
      /\ \A w \in Worker :
           /\ Unsettled(w) => Active(w)
           /\ worker[w].token \in Nat /\ worker[w].review \in Nat
           /\ Active(w) => /\ worker[w].msg \in Message
                           /\ claims[worker[w].msg] > 0
                           /\ worker[w].review <= review[worker[w].msg]
      /\ \A h \in handoffs : /\ h.msg \in Message /\ claims[h.msg] > 0
                             /\ h.review \in Nat /\ h.review <= review[h.msg]
  BY <1>a, BusyWorker DEF TypeOK, Dispatch, Handoff, Active, Unsettled, WorkUnderLease
<1>1. CASE RowsOnly
  BY <1>1, <1>a, <1>b, RowsOnlyStep
     DEF RowsOnlyEffect, OneDispatchPerReview, OneCopyPerReview, Unsettled
<1>2. ASSUME NEW w \in Worker, NEW m \in Message, ClaimEffect(w, m)
      PROVE  OneDispatchPerReview' /\ OneCopyPerReview'
  BY <1>2, <1>a, <1>b
     DEF ClaimEffect, OneDispatchPerReview, OneCopyPerReview, Unsettled, Active
<1>3. ASSUME NEW w \in Worker, Works(w)
      PROVE  OneDispatchPerReview' /\ OneCopyPerReview'
  <2>1. /\ Active(w) /\ worker[w].msg \in Message
        /\ \A v \in Worker : v # w => worker'[v] = worker[v]
        /\ worker'[w].pc = "idle" \/ SameDispatch(worker[w], worker'[w])
        /\ Unsettled(w)' => Unsettled(w)
        /\ UNCHANGED <<claims, review>>
        /\ RowAfterWork(w)
        /\ HandoffsAfterWork(w)
    BY <1>3, WorksStep
  <2>2. \A v \in Worker : Unsettled(v)' =>
          /\ Unsettled(v) /\ worker'[v].pc # "idle"
          /\ worker'[v].msg = worker[v].msg /\ worker'[v].review = worker[v].review
    <3>1. \A v \in Worker : v # w /\ Unsettled(v)' => Unsettled(v)
      BY <2>1 DEF Unsettled
    <3>2. QED
      BY <2>1, <3>1 DEF Unsettled, SameDispatch
  <2>3. \A u, v \in Worker :
          Unsettled(u)' /\ Unsettled(v)' /\ worker'[u].msg = worker'[v].msg
            /\ worker'[u].review = worker'[v].review => u = v
    BY <2>2, <1>a DEF OneDispatchPerReview
  <2>4. \A h \in handoffs' :
          \/ h \in handoffs
          \/ /\ Unsettled(w) /\ worker'[w].pc = "ack"
             /\ h.msg = worker[w].msg /\ h.review = worker[w].review
             /\ FinalCopy(h) => ~Unsettled(w)'
             /\ handoffs' = handoffs \cup {h}
    BY <2>1, HandoffFields DEF HandoffsAfterWork, Unsettled
  <2>5. \A v \in Worker, h \in handoffs' :
          Unsettled(v)' /\ FinalCopy(h) => ~(h.msg = worker'[v].msg /\ h.review = worker'[v].review)
    BY <2>2, <2>4, <1>a DEF OneDispatchPerReview
  <2>6. ASSUME NEW m \in Message, row'[m].status \in {"queued", "cancelled"}
        PROVE  /\ \A v \in Worker :
                    Unsettled(v)' => ~(worker'[v].msg = m /\ worker'[v].review = review'[m])
               /\ \A h \in handoffs' : FinalCopy(h) => ~(h.msg = m /\ h.review = review'[m])
    <3>1. CASE row[m].status \in {"queued", "cancelled"}
      BY <2>1, <2>2, <2>4, <3>1, <1>a DEF OneDispatchPerReview
    <3>2. CASE row[m].status \notin {"queued", "cancelled"}
      <4>1. /\ m = worker[w].msg
            /\ Unsettled(w) /\ Holds(w) /\ worker'[w].pc = "idle"
        BY <2>1, <2>6, <3>2 DEF RowAfterWork
      <4>2. worker[w].review = review[m]
        BY <2>1, <4>1, <1>a DEF LeaseIsCurrent
      <4>3. \A h \in handoffs' : h \in handoffs
        BY <2>4, <4>1
      <4>4. QED
        BY <2>1, <2>2, <4>1, <4>2, <4>3, <1>a DEF OneDispatchPerReview
    <3>3. QED
      BY <3>1, <3>2
  <2>7. OneDispatchPerReview'
    BY <2>3, <2>5, <2>6 DEF OneDispatchPerReview, FinalCopy, Copy
  <2>8. OneCopyPerReview'
    BY <2>4, <1>a DEF OneDispatchPerReview, OneCopyPerReview, FinalCopy, Copy
  <2>9. QED
    BY <2>7, <2>8
<1>4. CASE Untouched
  BY <1>4, <1>a
     DEF Untouched, SameDispatch, OneDispatchPerReview, OneCopyPerReview, Unsettled
<1>5. QED
  BY <1>1, <1>2, <1>3, <1>4, <1>a, StepKinds, ClaimStep

-----------------------------------------------------------------------------
LEMMA LeaseInvInit == Init => LeaseInv
<1> SUFFICES ASSUME Init PROVE LeaseInv
  OBVIOUS
<1>1. TypeOK
  BY TypeInit
<1>2. \A m \in Message : claims[m] = 0 /\ review[m] = 0 /\
        row[m] \in {EmptyRow, [EmptyRow EXCEPT !.status = "failed"]}
  BY DEF Init
<1>3. \A m \in Message : Good(row[m], claims[m], m \in undone) /\ row[m].status \notin {"queued", "cancelled"}
  <2>1. Good(EmptyRow, 0, FALSE) /\ Good([EmptyRow EXCEPT !.status = "failed"], 0, FALSE)
    BY DEF EmptyRow, Good
  <2>2. /\ EmptyRow.status \notin {"queued", "cancelled"}
        /\ [EmptyRow EXCEPT !.status = "failed"].status \notin {"queued", "cancelled"}
    BY DEF EmptyRow
  <2>3. undone = {}
    BY DEF Init
  <2>4. \A m \in Message : (m \in undone) = FALSE
    BY <2>3
  <2>5. QED
    BY <1>2, <2>1, <2>2, <2>4
<1>4. \A w \in Worker : worker[w].pc = "idle"
  BY DEF Init, Idle
<1>5. handoffs = {} /\ filed = {}
  BY DEF Init
<1>6. QED
  BY <1>1, <1>3, <1>4, <1>5, GoodRows
     DEF LeaseInv, WorkUnderLease, LeaseIsCurrent, OneDispatchPerReview, BoundBeforeHandoff,
         OneCopyPerReview, Active, Unsettled

LEMMA LeaseInvStep == LeaseInv /\ [Next]_vars => LeaseInv'
<1> SUFFICES ASSUME LeaseInv, [Next]_vars PROVE LeaseInv'
  OBVIOUS
<1>1. TypeOK'
  BY TypeStep DEF LeaseInv
<1>2. QED
  BY <1>1, RowStep, WorkUnderLeaseStep, LeaseIsCurrentStep, BoundBeforeHandoffStep,
     OneDispatchStep DEF LeaseInv

(* The conjunction LeaseInv holds in every reachable state of the queue.       *)
THEOREM LeaseInvariance == Spec => []LeaseInv
  BY LeaseInvInit, LeaseInvStep, PTL DEF Spec

(* Rows, dispatches and histories keep their types.                        *)
THEOREM TypeCorrect == Spec => []TypeOK
<1>1. LeaseInv => TypeOK
  BY DEF LeaseInv
<1>2. QED
  BY <1>1, LeaseInvariance, PTL

(* No statement writes a row that mail_outbound_lease_state_check rejects. *)
THEOREM LeaseStateChecked == Spec => []LeaseStateCheck
<1>1. LeaseInv => LeaseStateCheck
  BY DEF LeaseInv
<1>2. QED
  BY <1>1, LeaseInvariance, PTL

(* The environment relay accepts a message at most once per review round,  *)
(* for any number of workers, stalled or crashed at any point, not counting*)
(* copies it took on a connection that it then closed in an orderly way    *)
(* without an answer.                                                      *)
THEOREM OneCopy == Spec => []OneCopyPerReview
<1>1. LeaseInv => OneCopyPerReview
  BY DEF LeaseInv
<1>2. QED
  BY <1>1, LeaseInvariance, PTL

(* A message its sender took back has not been and will not be handed over *)
(* or filed, and stays cancelled.                                          *)
THEOREM UndoIsFinal == Spec => []UndoneNeverSent
<1>1. LeaseInv => UndoneNeverSent
  <2>1. SUFFICES ASSUME LeaseInv, NEW m \in undone
                 PROVE  /\ row[m].status = "cancelled"
                        /\ m \notin filed
                        /\ \A h \in handoffs : h.msg # m
                        /\ \A w \in Worker : worker[w].msg # m
    BY DEF UndoneNeverSent
  <2>2. m \in Message /\ claims[m] = 0 /\ row[m].status = "cancelled"
        /\ TypeOK /\ WorkUnderLease
    BY <2>1 DEF LeaseInv, TypeOK, LeasesStartAfterUndo
  <2>3. \A w \in Worker : worker[w].msg = m => Active(w)
    BY <2>2, MailAssumption DEF TypeOK, Dispatch, Active
  <2>4. QED
    BY <2>2, <2>3 DEF WorkUnderLease
<1>2. QED
  BY <1>1, LeaseInvariance, PTL

(* A cancelled row, undone or offboarded, is handed over by nobody but a   *)
(* worker of an earlier review round that lost its lease.                  *)
THEOREM CancelIsQuiet == Spec => []CancelledIsQuiet
<1>1. LeaseInv => CancelledIsQuiet
  <2>1. SUFFICES ASSUME LeaseInv, NEW m \in Message, NEW w \in Worker,
                        row[m].status = "cancelled", worker[w].msg = m, BeforeHandoff(w)
                 PROVE  worker[w].review < review[m]
    BY DEF CancelledIsQuiet
  <2>2. Active(w) /\ Unsettled(w)
    BY <2>1 DEF BeforeHandoff, Active, Unsettled
  <2>3. /\ worker[w].review <= review[m] /\ worker[w].review # review[m]
        /\ worker[w].review \in Nat /\ review[m] \in Nat
    BY <2>1, <2>2 DEF LeaseInv, WorkUnderLease, OneDispatchPerReview, TypeOK, Dispatch
  <2>4. QED
    BY <2>3
<1>2. QED
  BY <1>1, LeaseInvariance, PTL

(* Every handoff of a message goes through the provider it was bound to.   *)
THEOREM OneProvider == Spec => []OneProviderPerMessage
<1>1. LeaseInv => OneProviderPerMessage
  BY DEF LeaseInv, BoundBeforeHandoff, OneProviderPerMessage
<1>2. QED
  BY <1>1, LeaseInvariance, PTL

-----------------------------------------------------------------------------
(* Refinement: a send that the relay accepts is Deliver, an undo Withdraw, *)
(* a replay or retry PutBack, and any other step changes nothing.          *)
LEMMA UndoneUnleased ==
  ASSUME LeaseInv, NEW m \in undone
  PROVE  /\ m \in Message
         /\ row[m].status = "cancelled"
         /\ ~row[m].dead
         /\ \A h \in handoffs : h.msg # m
         /\ \A w \in Worker : Active(w) => worker[w].msg # m
  BY DEF LeaseInv, TypeOK, LeasesStartAfterUndo, WorkUnderLease

LEMMA RefineRowsOnly ==
  ASSUME LeaseInv, RowsOnly
  PROVE  [Promise!Next]_(Promise!vars)
<1>a. TypeOK
  BY DEF LeaseInv
<1>b. Copies' = Copies
  BY RowsOnlyStep DEF Copies, Copy, CopyOf
<1> DEFINE Same == UNCHANGED <<Copies, undone, review>>
<1>1. ASSUME NEW m \in Message, Sender(m) PROVE [Promise!Next]_(Promise!vars)
  <2>1. ASSUME NEW delay \in 0 .. MaxUndo, NEW scheduled \in BOOLEAN,
               CreateOutbound(m, delay, scheduled) \/ RescheduleSend(m, delay)
        PROVE  Same
    BY <2>1, <1>b DEF CreateOutbound, RescheduleSend
  <2>2. CASE CancelOutbound(m)
    <3>1. \A c \in Copies : c.msg # m
      <4>1. claims[m] = 0
        BY <2>2, <1>a DEF CancelOutbound, LeaseInv, LeasesStartAfterUndo, TypeOK
      <4>2. QED
        BY <4>1 DEF LeaseInv, WorkUnderLease, Copies, CopyOf
    <3>2. Promise!Withdraw(m)
      BY <2>2, <3>1, <1>b DEF CancelOutbound, Promise!Withdraw
    <3>3. QED
      BY <3>2 DEF Promise!Next
  <2>3. ASSUME NEW delay \in 0 .. MaxUndo, RescheduleSend(m, delay) PROVE Same
    BY <2>3, <1>b DEF RescheduleSend
  <2>4. CASE RetryOutbound(m)
    <3>1. m \notin undone
      BY <2>4, UndoneUnleased DEF RetryOutbound
    <3>2. Promise!PutBack(m)
      BY <2>4, <3>1, <1>b DEF RetryOutbound, Promise!PutBack
    <3>3. QED
      BY <3>2 DEF Promise!Next
  <2>5. QED
    BY <1>1, <2>1, <2>2, <2>3, <2>4 DEF Sender, Promise!vars
<1>2. ASSUME NEW m \in Message, ReplayOutbound(m) PROVE [Promise!Next]_(Promise!vars)
  <2>1. m \notin undone
    BY <1>2, UndoneUnleased DEF ReplayOutbound
  <2>2. Promise!PutBack(m)
    BY <1>2, <2>1, <1>b DEF ReplayOutbound, Promise!PutBack
  <2>3. QED
    BY <2>2 DEF Promise!Next
<1>3. CASE Feedback \/ Tick \/ (\E w \in Worker : ClaimNothing(w))
             \/ (\E a \in Actor : OffboardActor(a))
  <2>1. Same
    BY <1>3, <1>b DEF Feedback, RecordEvent, Tick, ClaimNothing, OffboardActor
  <2>2. QED
    BY <2>1 DEF Promise!vars
<1>4. QED
  BY <1>1, <1>2, <1>3 DEF RowsOnly

LEMMA RefineStep ==
  ASSUME LeaseInv, TypeOK', [Next]_vars
  PROVE  [Promise!Next]_(Promise!vars)
<1>a. TypeOK
  BY DEF LeaseInv
<1>1. CASE RowsOnly
  BY <1>1, RefineRowsOnly
<1>2. ASSUME NEW w \in Worker, ClaimDue(w) PROVE UNCHANGED <<Copies, undone, review>>
  <2>1. PICK m \in Message : ClaimEffect(w, m)
    BY <1>2, ClaimStep
  <2>2. QED
    BY <2>1 DEF ClaimEffect, Copies, Copy, CopyOf
<1>3. ASSUME NEW w \in Worker, Works(w) PROVE [Promise!Next]_(Promise!vars)
  <2>1. /\ Active(w) /\ worker[w].msg \in Message
        /\ UNCHANGED <<claims, review, undone>>
        /\ HandoffsAfterWork(w)
    BY <1>3, WorksStep
  <2>2. CASE Copies' = Copies
    BY <2>1, <2>2 DEF Promise!vars
  <2>3. CASE Copies' # Copies
    <3>1. PICK accepted, closed \in BOOLEAN :
            /\ worker[w].pc = "send"
            /\ handoffs' = handoffs \cup {HandoffBy(w, accepted, closed)}
      BY <2>1, <2>3 DEF HandoffsAfterWork, Copies, Copy
    <3> DEFINE h == HandoffBy(w, accepted, closed)
               copy == CopyOf(h)
    <3>2. Copy(h) /\ Copies' = Copies \cup {copy}
      BY <2>3, <3>1 DEF Copies, Copy
    <3>3. Unsettled(w)
      BY <3>1 DEF Unsettled
    <3>4. /\ copy.msg = worker[w].msg /\ copy.review = worker[w].review
          /\ copy.token = worker[w].token /\ copy.closed = closed
      BY HandoffFields DEF CopyOf, HandoffBy
    <3>5. copy \in Promise!Copy
      BY <1>a, <2>1, <3>4 DEF CopyOf, TypeOK, Dispatch, Promise!Copy
    <3>6. copy.msg \notin undone
      BY <2>1, <3>4, UndoneUnleased
    <3>7. copy.review <= review[copy.msg]
      BY <2>1, <3>4 DEF LeaseInv, WorkUnderLease
    <3>8. \A c \in Copies : c.msg = copy.msg /\ c.review = copy.review => c.closed
      <4> SUFFICES ASSUME NEW g \in handoffs, Copy(g), g.msg = copy.msg, g.review = copy.review
                   PROVE  g.closed
        BY DEF Copies, CopyOf
      <4> QED
        BY <3>3, <3>4 DEF FinalCopy, LeaseInv, OneDispatchPerReview
    <3>9. Promise!Deliver(copy)
      BY <2>1, <3>2, <3>5, <3>6, <3>7, <3>8 DEF Promise!Deliver
    <3>10. QED
      BY <3>2, <3>9 DEF Promise!Next
  <2>4. QED
    BY <2>2, <2>3
<1>4. CASE Untouched
  BY <1>4 DEF Untouched, Copies, Copy, CopyOf, Promise!vars
<1>5. QED
  BY <1>1, <1>2, <1>3, <1>4, <1>a, StepKinds DEF Promise!vars

(* The queue implements MailPromise, for any number of messages, workers,  *)
(* attempts and reviews: a copy is accepted only while every earlier one of*)
(* its round ended in an orderly close, and none of an undone message.     *)
THEOREM Refinement == Spec => PromiseKept
<1>1. Init => Promise!Init
  <2>1. ASSUME Init PROVE Copies = {} /\ undone = {} /\ review = [m \in Message |-> 0]
    BY <2>1 DEF Init, Copies
  <2>2. QED
    BY <2>1 DEF Promise!Init
<1>2. LeaseInv /\ TypeOK' /\ [Next]_vars => [Promise!Next]_(Promise!vars)
  BY RefineStep
<1>3. LeaseInv => TypeOK
  BY DEF LeaseInv
<1>4. QED
  BY <1>1, <1>2, <1>3, LeaseInvariance, PTL DEF Spec, PromiseKept, Promise!Spec
-----------------------------------------------------------------------------
(* Why a message reported sent arrived somewhere.                          *)

\* What has arrived stays so.
LEMMA ReachedStays ==
  ASSUME TypeOK, [Next]_vars
  PROVE  filed \subseteq filed' /\ handoffs \subseteq handoffs'
<1>1. ASSUME NEW m \in Message, Sender(m) \/ ReplayOutbound(m)
      PROVE  UNCHANGED <<filed, handoffs>>
  BY <1>1 DEF Sender, CreateOutbound, CancelOutbound, RescheduleSend, RetryOutbound,
              ReplayOutbound
<1>2. ASSUME NEW w \in Worker, ClaimDue(w) \/ ClaimNothing(w) \/ Crash(w)
      PROVE  UNCHANGED <<filed, handoffs>>
  BY <1>2 DEF ClaimDue, ClaimNothing, Crash
<1>3. ASSUME NEW w \in Worker, DispatchStep(w)
      PROVE  filed \subseteq filed' /\ handoffs \subseteq handoffs'
  <2>1. CASE DeliverLocal(w)
    BY <2>1 DEF DeliverLocal
  <2>2. CASE Send(w)
    BY <2>2 DEF Send, SendAccepted, SendRejected, SendLost
  <2>3. CASE ~DeliverLocal(w) /\ ~Send(w)
    BY <1>3, <2>3 DEF DispatchStep, CheckRecipients, PreparationFails, BindProvider,
                      Acknowledge, AcknowledgeTooLate
  <2> QED
    BY <2>1, <2>2, <2>3
<1>4. CASE Feedback
  BY <1>4 DEF Feedback, RecordEvent
<1>5. CASE Tick \/ (\E a \in Address : RemoveSuppression(a))
             \/ (\E a \in Actor : OffboardActor(a)) \/ UNCHANGED vars
  BY <1>5 DEF Tick, RemoveSuppression, OffboardActor, vars
<1> QED
  BY <1>1, <1>2, <1>3, <1>4, <1>5 DEF Next

Arrived == {"accepted", "delivered", "deferred", "bounced", "complained"}

\* The steps that write a row and neither acknowledge nor record feedback report
\* nothing as sent.
LEMMA OnlySentBy ==
  ASSUME TypeOK, [Next]_vars, NEW n \in Message, row'[n].status \in Arrived
  PROVE  \/ row[n].status \in Arrived
         \/ Feedback
         \/ \E w \in Worker, backoff \in 1 .. MaxBackoff : Acknowledge(w, backoff)
<1>a. row \in [Message -> Row] /\ row[n] \in Row
  BY DEF TypeOK
<1>b. row[n].status \in Status
  BY <1>a DEF Row
<1>1. ASSUME NEW m \in Message, Sender(m) PROVE row[n].status \in Arrived
  <2>1. ASSUME NEW delay \in 0 .. MaxUndo, NEW scheduled \in BOOLEAN,
               CreateOutbound(m, delay, scheduled)
        PROVE  row[n].status \in Arrived
    BY <2>1, <1>a DEF CreateOutbound, EmptyRow, Arrived
  <2>2. CASE CancelOutbound(m)
    BY <2>2, <1>a DEF CancelOutbound, Row, Arrived
  <2>3. ASSUME NEW delay \in 0 .. MaxUndo, RescheduleSend(m, delay)
        PROVE  row[n].status \in Arrived
    BY <2>3, <1>a DEF RescheduleSend, Row
  <2>4. CASE RetryOutbound(m)
    BY <2>4, <1>a DEF RetryOutbound, Row, Arrived
  <2> QED
    BY <1>1, <2>1, <2>2, <2>3, <2>4 DEF Sender
<1>2. ASSUME NEW m \in Message, ReplayOutbound(m) PROVE row[n].status \in Arrived
  BY <1>2, <1>a DEF ReplayOutbound, Row, Arrived
<1>3. row[n].status \in Arrived \/ Swept[n].status \notin Arrived
  BY <1>a DEF Swept, Row, Arrived
<1>4. ASSUME NEW w \in Worker, ClaimDue(w) PROVE row[n].status \in Arrived
  <2>1. PICK m \in Due(Swept) :
          row' = [Swept EXCEPT ![m] =
                    [row[m] EXCEPT !.status = "sending", !.attempts = @ + 1, !.next = None,
                                   !.token = claims[m] + 1, !.lease = LeaseTime]]
    BY <1>4 DEF ClaimDue
  <2>2. m \in Message /\ row[m] \in Row
    BY <1>a DEF Due
  <2>3. [row[m] EXCEPT !.status = "sending", !.attempts = @ + 1, !.next = None,
                       !.token = claims[m] + 1, !.lease = LeaseTime].status = "sending"
    BY <2>2 DEF Row
  <2>4. n # m
    BY <2>1, <2>2, <2>3, SweptType DEF Arrived
  <2>5. row'[n] = Swept[n]
    BY <2>1, <2>4, SweptType
  <2> QED
    BY <1>3, <2>5
<1>5. ASSUME NEW w \in Worker, ClaimNothing(w) PROVE row[n].status \in Arrived
  BY <1>3, <1>5 DEF ClaimNothing
<1>6. ASSUME NEW w \in Worker, NEW p \in Provider, BindProvider(w, p)
      PROVE  row[n].status \in Arrived
  <2>1. \/ row' = row
        \/ row' = [row EXCEPT ![worker[w].msg] = [row[worker[w].msg] EXCEPT !.provider = p]]
    BY <1>6 DEF BindProvider
  <2> QED
    BY <1>a, <2>1 DEF Row
<1>7. CASE Tick
  BY <1>7, <1>a DEF Tick, Row
<1>8. CASE UNCHANGED row
  BY <1>8
<1>9. ASSUME NEW a \in Actor, OffboardActor(a) PROVE row[n].status \in Arrived
  BY <1>9, <1>a, OffboardStep DEF OffboardedRow, Row, Arrived
<1> QED
  BY <1>1, <1>2, <1>4, <1>5, <1>6, <1>7, <1>8, <1>9
     DEF Next, DispatchStep, vars, CheckRecipients, PreparationFails, DeliverLocal, Send,
         SendAccepted, SendRejected, SendLost, AcknowledgeTooLate, Crash, RemoveSuppression

LEMMA SentIsTrueStep ==
  ASSUME LeaseInv, SentInv, [Next]_vars
  PROVE  SentIsTrue'
<1>a. TypeOK /\ SentIsTrue
  BY DEF LeaseInv, SentInv
<1>b. \A m : Reached(m) => Reached(m)'
  BY <1>a, ReachedStays DEF Reached
<1> SUFFICES ASSUME NEW n \in Message, row'[n].status \in Arrived
             PROVE  Reached(n)'
  BY DEF SentIsTrue, Arrived
<1>1. CASE row[n].status \in Arrived
  BY <1>a, <1>b, <1>1 DEF SentIsTrue, Arrived
<1>2. CASE Feedback /\ row[n].status \notin Arrived
  <2>1. PICK h \in handoffs, kind \in Reports, suppress \in BOOLEAN :
          RecordEvent(h, kind, suppress)
    BY <1>2 DEF Feedback
  <2>2. h.msg = n
    BY <1>2, <2>1, <1>a DEF RecordEvent, TypeOK
  <2>3. Reached(n)
    BY <2>1, <2>2 DEF RecordEvent, Reached
  <2> QED
    BY <1>b, <2>3
<1>3. ASSUME row[n].status \notin Arrived, NEW w \in Worker, NEW backoff \in 1 .. MaxBackoff,
             Acknowledge(w, backoff)
      PROVE  Reached(n)'
  <2>1. /\ worker[w].pc = "ack" /\ row[worker[w].msg].status = "sending"
        /\ row' = [row EXCEPT ![worker[w].msg] = Acknowledged(row[worker[w].msg], w, backoff)]
    BY <1>3 DEF Acknowledge, Holds
  <2>2. worker[w].msg = n
    BY <1>3, <2>1, <1>a DEF TypeOK
  <2>3. row[n] \in Row /\ worker[w].result \in {"sent", "retry", "dead"}
    BY <2>1, <1>a DEF TypeOK, Dispatch
  <2>4. row'[n] = Acknowledged(row[n], w, backoff)
    BY <2>1, <2>2, <1>a DEF TypeOK
  <2>5. worker[w].result = "sent"
    BY <2>3, <2>4 DEF Acknowledged, Row, Arrived
  <2>6. Reached(n)
    BY <2>1, <2>2, <2>5 DEF SentInv
  <2> QED
    BY <1>b, <2>6
<1> QED
  BY <1>a, <1>1, <1>2, <1>3, OnlySentBy

LEMMA SentResultStep ==
  ASSUME LeaseInv, SentInv, [Next]_vars, NEW v \in Worker,
         worker'[v].pc = "ack", worker'[v].result = "sent"
  PROVE  Reached(worker[v].msg)'
<1>a. TypeOK /\ worker \in [Worker -> Dispatch] /\ worker[v] \in Dispatch
  BY DEF LeaseInv, TypeOK
<1>b. \A m : Reached(m) => Reached(m)'
  BY <1>a, ReachedStays DEF Reached
<1>1. CASE worker'[v].pc = worker[v].pc /\ worker'[v].result = worker[v].result
           /\ worker'[v].msg = worker[v].msg
  <2>1. Reached(worker[v].msg)
    BY <1>1 DEF SentInv
  <2> QED
    BY <1>b, <1>1, <2>1 DEF Reached
<1>2. CASE UNCHANGED vars \/ (\E m \in Message : Sender(m) \/ ReplayOutbound(m)) \/ Feedback
             \/ Tick \/ (\E w \in Worker : ClaimNothing(w))
             \/ (\E a \in Actor : OffboardActor(a))
  <2>1. worker' = worker
    BY <1>2 DEF vars, Sender, CreateOutbound, CancelOutbound, RescheduleSend, RetryOutbound,
                ReplayOutbound, ClaimNothing, Feedback, RecordEvent, Tick, OffboardActor
  <2> QED
    BY <1>1, <2>1
<1>3. ASSUME NEW a \in Address, RemoveSuppression(a) PROVE Reached(worker[v].msg)'
  <2>1. worker'[v] = [worker[v] EXCEPT !.barred = @ /\ AddressOf[worker[v].msg] # a]
    BY <1>3 DEF RemoveSuppression
  <2> QED
    BY <1>a, <1>1, <2>1 DEF Dispatch
<1>4. ASSUME NEW w \in Worker, ClaimDue(w) PROVE Reached(worker[v].msg)'
  <2>1. \A u \in Worker : worker'[u] = worker[u] \/ worker'[u].pc = "check"
    <3>1. LeaseInv
      OBVIOUS
    <3>2. PICK m \in Message : ClaimEffect(w, m)
      BY <1>4, ClaimStep
    <3> QED
      BY <3>2 DEF ClaimEffect
  <2> QED
    BY <1>1, <2>1
<1>5. ASSUME NEW w \in Worker, DispatchStep(w) \/ Crash(w), v # w
      PROVE  Reached(worker[v].msg)'
  <2>1. TypeOK'
    BY <1>a, TypeStep
  <2>2. worker'[v] = worker[v]
    BY <1>5, <2>1, WorksStep DEF Works
  <2> QED
    BY <1>1, <2>2
<1>6. CASE DispatchStep(v) \/ Crash(v)
  <2>1. CASE CheckRecipients(v)
    BY <1>a, <2>1 DEF CheckRecipients, Dispatch
  <2>2. ASSUME NEW terminal \in BOOLEAN, Fail(v, terminal) PROVE FALSE
    BY <1>a, <2>2 DEF Fail, Failure, Dispatch
  <2>3. CASE \E terminal \in BOOLEAN : PreparationFails(v, terminal)
    BY <2>2, <2>3 DEF PreparationFails
  <2>4. CASE DeliverLocal(v)
    <3>1. Holds(v) /\ row[worker[v].msg].lease > 0
      BY <2>2, <2>4 DEF DeliverLocal
    <3>2. /\ filed' = IF worker[v].msg \in HasLocal THEN filed \cup {worker[v].msg} ELSE filed
          /\ worker' = IF worker[v].msg \in HasRemote
                       THEN [worker EXCEPT ![v] = [worker[v] EXCEPT !.pc = "bind"]]
                       ELSE [worker EXCEPT ![v] = [worker[v] EXCEPT !.pc = "ack",
                                                                    !.result = "sent"]]
      BY <2>4, <3>1, <1>a DEF DeliverLocal
    <3>3. worker[v].msg \notin HasRemote
      BY <1>a, <3>2 DEF Dispatch
    <3>4. worker'[v].msg = worker[v].msg
      BY <1>a, <3>2, <3>3 DEF Dispatch
    <3>5. worker[v].msg \in HasLocal
      BY <2>4, <3>3, <1>a, MailAssumption DEF DeliverLocal, Dispatch
    <3> QED
      BY <3>2, <3>4, <3>5 DEF Reached
  <2>5. ASSUME NEW p \in Provider, BindProvider(v, p) PROVE Reached(worker[v].msg)'
    <3>1. worker' = [worker EXCEPT ![v] = [worker[v] EXCEPT !.pc = "send", !.via = p]]
      BY <2>2, <2>5, <1>a DEF BindProvider
    <3> QED
      BY <1>a, <3>1 DEF Dispatch
  <2>6. CASE Send(v)
    <3>1. SendAccepted(v)
      BY <2>2, <2>6 DEF Send, SendRejected, SendLost
    <3>2. /\ handoffs' = handoffs \cup {HandoffBy(v, TRUE, FALSE)}
          /\ worker' = [worker EXCEPT ![v] = [worker[v] EXCEPT !.pc = "ack", !.result = "sent"]]
      BY <3>1, <1>a DEF SendAccepted
    <3>3. worker'[v].msg = worker[v].msg
      BY <1>a, <3>2 DEF Dispatch
    <3>4. HandoffBy(v, TRUE, FALSE).msg = worker[v].msg /\ HandoffBy(v, TRUE, FALSE).accepted
      BY DEF HandoffBy
    <3> QED
      BY <3>2, <3>3, <3>4 DEF Reached
  <2>7. CASE AcknowledgeTooLate(v) \/ Crash(v)
             \/ \E backoff \in 1 .. MaxBackoff : Acknowledge(v, backoff)
    <3>1. worker'[v].pc = "idle"
      BY <1>a, <2>7 DEF AcknowledgeTooLate, Crash, Acknowledge, Idle
    <3> QED
      BY <3>1
  <2> QED
    BY <1>6, <2>1, <2>3, <2>4, <2>5, <2>6, <2>7 DEF DispatchStep
<1> QED
  BY <1>2, <1>3, <1>4, <1>5, <1>6 DEF Next

LEMMA SentInit == Init => SentInv
<1> SUFFICES ASSUME Init PROVE SentInv
  OBVIOUS
<1>1. \A m \in Message : row[m].status \in {"absent", "failed"}
  <2>1. EmptyRow.status = "absent" /\ [EmptyRow EXCEPT !.status = "failed"].status = "failed"
    BY DEF EmptyRow
  <2> QED
    BY <2>1 DEF Init
<1>2. \A w \in Worker : worker[w].pc = "idle"
  BY DEF Init, Idle
<1> QED
  BY <1>1, <1>2 DEF SentInv, SentIsTrue
LEMMA SentStep == LeaseInv /\ SentInv /\ [Next]_vars => SentInv'
<1> SUFFICES ASSUME LeaseInv, SentInv, [Next]_vars PROVE SentInv'
  OBVIOUS
<1>1. ASSUME NEW v \in Worker, worker'[v].pc = "ack", worker'[v].result = "sent"
      PROVE  worker'[v].msg = worker[v].msg
  <2>a. TypeOK /\ TypeOK'
    BY TypeStep DEF LeaseInv
  <2>b. worker \in [Worker -> Dispatch] /\ worker[v] \in Dispatch
    BY <2>a DEF TypeOK
  <2>1. ASSUME NEW w \in Worker, Works(w) PROVE worker'[v].msg = worker[v].msg
    BY <1>1, <2>1, <2>a, WorksStep DEF SameDispatch
  <2>2. ASSUME NEW w \in Worker, ClaimDue(w) PROVE worker'[v].msg = worker[v].msg
    BY <1>1, <2>2, ClaimStep DEF ClaimEffect
  <2>3. CASE RowsOnly
    BY <2>3, RowsOnlyStep
  <2>4. CASE Untouched
    BY <2>4 DEF Untouched, SameDispatch
  <2> QED
    BY <2>a, <2>1, <2>2, <2>3, <2>4, StepKinds
<1>2. ASSUME NEW v \in Worker, worker'[v].pc = "ack", worker'[v].result = "sent"
      PROVE  Reached(worker[v].msg)'
  BY <1>2, SentResultStep
<1> QED
  BY <1>1, <1>2, SentIsTrueStep DEF SentInv, Reached

-----------------------------------------------------------------------------
(* Why a suppression holds for the dispatches that started under it: they  *)
(* stop at the check of their recipients as long as it lasts.              *)
LEMMA BarredInit == Init => BarredInv
  BY DEF Init, Idle, BarredInv, SuppressionHolds

\* A dispatch that goes on keeps its message and what it remembers of suppressions,
\* and a suppressed recipient stops it at the check.
LEMMA BarredDispatch ==
  ASSUME TypeOK, NEW w \in Worker, DispatchStep(w) \/ Crash(w)
  PROVE  /\ \A v \in Worker : v # w => worker'[v] = worker[v]
         /\ UNCHANGED suppressed
         /\ worker'[w].barred =>
              /\ worker[w].barred
              /\ worker'[w].msg = worker[w].msg
              /\ worker'[w].pc \notin {"check", "ack"} =>
                   \/ worker[w].pc \notin {"check", "ack"}
                   \/ AddressOf[worker[w].msg] \notin suppressed
<1>a. worker \in [Worker -> Dispatch] /\ worker[w] \in Dispatch
  BY DEF TypeOK
<1> DEFINE Goal == /\ \A v \in Worker : v # w => worker'[v] = worker[v]
                   /\ worker'[w].barred =>
                        /\ worker[w].barred
                        /\ worker'[w].msg = worker[w].msg
                        /\ worker'[w].pc \notin {"check", "ack"} =>
                             \/ worker[w].pc \notin {"check", "ack"}
                             \/ AddressOf[worker[w].msg] \notin suppressed
<1>1. ASSUME NEW pc, worker' = [worker EXCEPT ![w] = [worker[w] EXCEPT !.pc = pc]],
             \/ worker[w].pc \notin {"check", "ack"}
             \/ AddressOf[worker[w].msg] \notin suppressed
      PROVE  Goal
  BY <1>a, <1>1 DEF Dispatch
<1>2. ASSUME NEW result,
             worker' = [worker EXCEPT ![w] = [worker[w] EXCEPT !.pc = "ack", !.result = result]]
      PROVE  Goal
  BY <1>a, <1>2 DEF Dispatch
<1>3. ASSUME worker' = [worker EXCEPT ![w] = Idle] PROVE Goal
  BY <1>a, <1>3 DEF Idle
<1>4. ASSUME NEW terminal \in BOOLEAN, Fail(w, terminal) PROVE Goal
  <2>1. worker' = [worker EXCEPT ![w] =
                     [worker[w] EXCEPT !.pc = "ack", !.result = Failure(w, terminal)]]
    BY <1>a, <1>4 DEF Fail
  <2> QED
    BY <1>2, <2>1
<1>5. CASE CheckRecipients(w)
  <2>1. worker' = [worker EXCEPT ![w] = [worker[w] EXCEPT !.pc = "local"]]
        /\ AddressOf[worker[w].msg] \notin suppressed /\ UNCHANGED suppressed
    BY <1>5 DEF CheckRecipients
  <2> QED
    BY <1>1, <2>1
<1>6. CASE \E terminal \in BOOLEAN : PreparationFails(w, terminal)
  BY <1>4, <1>6 DEF PreparationFails
<1>7. CASE DeliverLocal(w)
  <2>1. worker[w].pc = "local" /\ UNCHANGED suppressed
    BY <1>7 DEF DeliverLocal
  <2>2. \/ Fail(w, TRUE)
        \/ worker' = [worker EXCEPT ![w] = [worker[w] EXCEPT !.pc = "bind"]]
        \/ worker' = [worker EXCEPT ![w] = [worker[w] EXCEPT !.pc = "ack", !.result = "sent"]]
    BY <1>7, <1>a DEF DeliverLocal
  <2> QED
    BY <1>1, <1>2, <1>4, <2>1, <2>2
<1>8. ASSUME NEW p \in Provider, BindProvider(w, p) PROVE Goal /\ UNCHANGED suppressed
  <2>1. worker[w].pc = "bind" /\ UNCHANGED suppressed
    BY <1>8 DEF BindProvider
  <2>2. \/ Fail(w, TRUE)
        \/ worker' = [worker EXCEPT ![w] = [worker[w] EXCEPT !.pc = "send", !.via = p]]
    BY <1>8, <1>a DEF BindProvider
  <2>3. CASE worker' = [worker EXCEPT ![w] = [worker[w] EXCEPT !.pc = "send", !.via = p]]
    BY <1>a, <2>1, <2>3 DEF Dispatch
  <2> QED
    BY <1>4, <2>1, <2>2, <2>3
<1>9. CASE Send(w)
  <2>1. UNCHANGED suppressed
    BY <1>9 DEF Send, SendAccepted, SendRejected, SendLost
  <2>2. \/ \E terminal \in BOOLEAN : Fail(w, terminal)
        \/ worker' = [worker EXCEPT ![w] = [worker[w] EXCEPT !.pc = "ack", !.result = "sent"]]
    BY <1>9, <1>a DEF Send, SendAccepted, SendRejected, SendLost
  <2> QED
    BY <1>2, <1>4, <2>1, <2>2
<1>10. CASE AcknowledgeTooLate(w) \/ Crash(w)
              \/ \E backoff \in 1 .. MaxBackoff : Acknowledge(w, backoff)
  BY <1>3, <1>10 DEF AcknowledgeTooLate, Crash, Acknowledge
<1> QED
  BY <1>5, <1>6, <1>7, <1>8, <1>9, <1>10 DEF DispatchStep, PreparationFails, CheckRecipients

LEMMA BarredStep == TypeOK /\ BarredInv /\ [Next]_vars => BarredInv'
<1> SUFFICES ASSUME TypeOK, BarredInv, [Next]_vars, NEW v \in Worker, worker'[v].barred
             PROVE  /\ worker'[v].pc \in {"check", "ack"}
                    /\ AddressOf[worker'[v].msg] \in suppressed'
  BY DEF BarredInv, SuppressionHolds
<1>a. worker \in [Worker -> Dispatch] /\ worker[v] \in Dispatch
  BY DEF TypeOK
<1>1. worker[v].barred => /\ worker[v].pc \in {"check", "ack"}
                          /\ AddressOf[worker[v].msg] \in suppressed
  BY DEF BarredInv, SuppressionHolds
<1>2. CASE worker'[v] = worker[v] /\ suppressed \subseteq suppressed'
  BY <1>1, <1>2
<1>3. ASSUME NEW w \in Worker, DispatchStep(w) \/ Crash(w)
      PROVE  /\ worker'[v].pc \in {"check", "ack"}
             /\ AddressOf[worker'[v].msg] \in suppressed'
  <2>1. CASE v # w
    BY <1>2, <1>3, <2>1, BarredDispatch
  <2>2. CASE v = w
    BY <1>1, <1>3, <2>2, BarredDispatch
  <2> QED
    BY <2>1, <2>2
<1>4. ASSUME NEW w \in Worker, ClaimDue(w)
      PROVE  /\ worker'[v].pc \in {"check", "ack"}
             /\ AddressOf[worker'[v].msg] \in suppressed'
  <2>1. PICK m \in Due(Swept) :
          worker' = [worker EXCEPT ![w] =
                       [pc |-> "check", msg |-> m, token |-> claims[m] + 1,
                        attempt |-> row[m].attempts + 1, lock |-> row[m].provider,
                        via |-> None, result |-> "none", review |-> review[m],
                        barred |-> AddressOf[m] \in suppressed]]
    BY <1>4 DEF ClaimDue
  <2>2. UNCHANGED suppressed
    BY <1>4 DEF ClaimDue
  <2>3. CASE v # w
    BY <1>a, <1>2, <2>1, <2>2, <2>3
  <2>4. CASE v = w
    BY <1>a, <2>1, <2>2, <2>4
  <2> QED
    BY <2>3, <2>4
<1>5. ASSUME NEW a \in Address, RemoveSuppression(a)
      PROVE  /\ worker'[v].pc \in {"check", "ack"}
             /\ AddressOf[worker'[v].msg] \in suppressed'
  <2>1. /\ worker'[v] = [worker[v] EXCEPT !.barred = @ /\ AddressOf[worker[v].msg] # a]
        /\ suppressed' = suppressed \ {a}
    BY <1>5 DEF RemoveSuppression
  <2>2. worker'[v].pc = worker[v].pc /\ worker'[v].msg = worker[v].msg
    BY <1>a, <2>1 DEF Dispatch
  <2>3. worker[v].barred /\ AddressOf[worker[v].msg] # a
    <3>1. DOMAIN worker[v] = {"pc", "msg", "token", "attempt", "lock", "via", "result", "review",
                              "barred"}
      BY <1>a DEF Dispatch
    <3>2. worker'[v].barred = (worker[v].barred /\ AddressOf[worker[v].msg] # a)
      BY <2>1, <3>1, Zenon
    <3> QED
      BY <3>2
  <2> QED
    BY <1>1, <2>1, <2>2, <2>3
<1>6. CASE UNCHANGED vars \/ (\E m \in Message : Sender(m) \/ ReplayOutbound(m)) \/ Feedback
             \/ Tick \/ (\E w \in Worker : ClaimNothing(w))
             \/ (\E a \in Actor : OffboardActor(a))
  <2>1. worker' = worker /\ suppressed \subseteq suppressed'
    <3>1. CASE UNCHANGED vars \/ Tick \/ (\E w \in Worker : ClaimNothing(w))
                 \/ (\E a \in Actor : OffboardActor(a))
      BY <3>1 DEF vars, Tick, ClaimNothing, OffboardActor
    <3>2. CASE \E m \in Message : Sender(m) \/ ReplayOutbound(m)
      BY <3>2 DEF Sender, CreateOutbound, CancelOutbound, RescheduleSend, RetryOutbound,
                  ReplayOutbound
    <3>3. CASE Feedback
      BY <3>3 DEF Feedback, RecordEvent
    <3> QED
      BY <1>6, <3>1, <3>2, <3>3
  <2> QED
    BY <1>2, <2>1
<1> QED
  BY <1>3, <1>4, <1>5, <1>6 DEF Next
-----------------------------------------------------------------------------
(* Why feedback settles a message: a lease carries one handoff, so nothing *)
(* is handed over again under a lease that was reported on, and a reported *)
(* row only goes back to the queue for a new round of review.              *)
LEMMA FeedbackInit == Init => FeedbackInv
  BY DEF Init, Idle, FeedbackInv, HandoffPerLease, ReportsOnHandoffs, FeedbackSettles, Active,
         BeforeHandoff

\* Only feedback is recorded.
LEMMA RecordedStays ==
  ASSUME [Next]_vars, ~Feedback
  PROVE  UNCHANGED recorded
<1>1. ASSUME NEW m \in Message, Sender(m) \/ ReplayOutbound(m) PROVE UNCHANGED recorded
  BY <1>1 DEF Sender, CreateOutbound, CancelOutbound, RescheduleSend, RetryOutbound,
              ReplayOutbound
<1>2. ASSUME NEW w \in Worker, ClaimDue(w) \/ ClaimNothing(w) \/ Crash(w)
      PROVE  UNCHANGED recorded
  BY <1>2 DEF ClaimDue, ClaimNothing, Crash
<1>3. ASSUME NEW w \in Worker, DispatchStep(w) PROVE UNCHANGED recorded
  BY <1>3 DEF DispatchStep, CheckRecipients, PreparationFails, DeliverLocal, BindProvider, Send,
              SendAccepted, SendRejected, SendLost, Acknowledge, AcknowledgeTooLate
<1>4. CASE Tick \/ (\E a \in Address : RemoveSuppression(a))
             \/ (\E a \in Actor : OffboardActor(a)) \/ UNCHANGED vars
  BY <1>4 DEF Tick, RemoveSuppression, OffboardActor, vars
<1> QED
  BY <1>1, <1>2, <1>3, <1>4 DEF Next

\* A dispatch calls the provider once.
LEMMA HandoffIsLast ==
  ASSUME TypeOK, NEW w \in Worker, Works(w), BeforeHandoff(w)'
  PROVE  BeforeHandoff(w) /\ handoffs' = handoffs
<1>a. worker \in [Worker -> Dispatch] /\ worker[w] \in Dispatch
  BY DEF TypeOK
<1>1. ASSUME NEW result, worker' = [worker EXCEPT ![w].pc = "ack", ![w].result = result]
      PROVE  FALSE
  BY <1>a, <1>1 DEF Dispatch, BeforeHandoff
<1>2. ~ \E terminal \in BOOLEAN : Fail(w, terminal)
  BY <1>1 DEF Fail
<1>3. ~Send(w) /\ ~AcknowledgeTooLate(w) /\ ~Crash(w)
      /\ ~ \E backoff \in 1 .. MaxBackoff : Acknowledge(w, backoff)
  <2>1. ~Send(w)
    BY <1>1, <1>2 DEF Send, SendAccepted, SendRejected, SendLost
  <2>2. worker'[w].pc # "idle"
    BY DEF BeforeHandoff
  <2> QED
    BY <1>a, <2>1, <2>2 DEF AcknowledgeTooLate, Crash, Acknowledge, Idle
<1>4. CheckRecipients(w) \/ DeliverLocal(w) \/ \E p \in Provider : BindProvider(w, p)
  BY <1>2, <1>3 DEF Works, DispatchStep, PreparationFails
<1> QED
  BY <1>4 DEF CheckRecipients, DeliverLocal, BindProvider, BeforeHandoff

LEMMA HandoffPerLeaseStep ==
  ASSUME LeaseInv, HandoffPerLease, [Next]_vars
  PROVE  HandoffPerLease'
<1>a. TypeOK /\ WorkUnderLease /\ TypeOK'
  BY TypeStep DEF LeaseInv
<1>b. /\ \A m \in Message : claims[m] \in Nat
      /\ \A w \in Worker : /\ worker[w].token \in Nat
                           /\ Active(w) => /\ worker[w].msg \in Message
                                           /\ worker[w].token <= claims[worker[w].msg]
      /\ \A h \in handoffs : h.msg \in Message /\ h.token \in Nat
  BY <1>a, BusyWorker DEF TypeOK, Dispatch, Handoff, Active, WorkUnderLease
<1>c. \A w \in Worker : BeforeHandoff(w) => Active(w)
  BY DEF BeforeHandoff, Active
<1>1. CASE RowsOnly
  BY <1>1, RowsOnlyStep DEF HandoffPerLease, Active, BeforeHandoff
<1>2. ASSUME NEW w \in Worker, NEW m \in Message, ClaimEffect(w, m) PROVE HandoffPerLease'
  <2>1. /\ claims'[m] = claims[m] + 1
        /\ \A n \in Message : claims'[n] >= claims[n]
        /\ handoffs' = handoffs
        /\ worker'[w].msg = m /\ worker'[w].token = claims[m] + 1
        /\ \A v \in Worker : v # w => worker'[v] = worker[v]
    BY <1>2, <1>a, <1>b DEF ClaimEffect, TypeOK
  <2>2. \A v \in Worker : v # w => (Active(v)' <=> Active(v))
                                   /\ (BeforeHandoff(v)' <=> BeforeHandoff(v))
    BY <2>1 DEF Active, BeforeHandoff
  <2>3. ASSUME NEW u \in Worker, NEW v \in Worker, Active(u)', Active(v)',
               worker'[u].msg = worker'[v].msg, worker'[u].token = worker'[v].token
        PROVE  u = v
    <3>1. ASSUME NEW x \in Worker, x # w, Active(x)', worker'[x].msg = m
          PROVE  worker'[x].token # claims[m] + 1
      BY <1>b, <2>1, <2>2, <3>1
    <3>2. CASE u = w \/ v = w
      BY <2>1, <2>3, <3>1, <3>2
    <3>3. CASE u # w /\ v # w
      BY <2>1, <2>2, <2>3, <3>3 DEF HandoffPerLease
    <3> QED
      BY <3>2, <3>3
  <2>4. \A h \in handoffs' : h.token <= claims'[h.msg]
    <3> SUFFICES ASSUME NEW h \in handoffs PROVE h.token <= claims'[h.msg]
      BY <2>1
    <3>1. h.token <= claims[h.msg] /\ claims'[h.msg] >= claims[h.msg] /\ claims'[h.msg] \in Nat
      BY <1>a, <1>b, <2>1 DEF HandoffPerLease, TypeOK
    <3> QED
      BY <1>b, <3>1
  <2>5. ASSUME NEW v \in Worker, NEW h \in handoffs', BeforeHandoff(v)'
        PROVE  ~(h.msg = worker'[v].msg /\ h.token = worker'[v].token)
    <3>1. CASE v = w
      BY <1>b, <2>1, <2>5, <3>1 DEF HandoffPerLease
    <3>2. CASE v # w
      BY <2>1, <2>2, <2>5, <3>2 DEF HandoffPerLease
    <3> QED
      BY <3>1, <3>2
  <2> QED
    BY <2>3, <2>4, <2>5 DEF HandoffPerLease
<1>3. ASSUME NEW w \in Worker, Works(w) PROVE HandoffPerLease'
  <2>1. /\ Active(w) /\ worker[w].msg \in Message
        /\ \A v \in Worker : v # w => worker'[v] = worker[v]
        /\ worker'[w].pc = "idle" \/ SameDispatch(worker[w], worker'[w])
        /\ UNCHANGED claims
        /\ HandoffsAfterWork(w)
    BY <1>3, <1>a, WorksStep
  <2>2. \A v \in Worker : Active(v)' =>
          Active(v) /\ worker'[v].msg = worker[v].msg /\ worker'[v].token = worker[v].token
    BY <2>1 DEF Active, SameDispatch
  <2>3. \A v \in Worker : BeforeHandoff(v)' =>
          Active(v)' /\ BeforeHandoff(v) /\ (v = w => handoffs' = handoffs)
    BY <1>3, <1>a, <2>1, HandoffIsLast DEF BeforeHandoff, Active
  <2>4. \A h \in handoffs' :
          \/ h \in handoffs
          \/ h.msg = worker[w].msg /\ h.token = worker[w].token /\ handoffs' # handoffs
    <3> SUFFICES ASSUME NEW h \in handoffs', h \notin handoffs
                 PROVE  h.msg = worker[w].msg /\ h.token = worker[w].token
                        /\ handoffs' # handoffs
      OBVIOUS
    <3>1. PICK accepted, closed \in BOOLEAN :
            handoffs' = handoffs \cup {HandoffBy(w, accepted, closed)}
      BY <2>1 DEF HandoffsAfterWork
    <3>2. h = HandoffBy(w, accepted, closed)
      BY <3>1
    <3>3. handoffs' # handoffs
      OBVIOUS
    <3> QED
      BY <3>2, <3>3, HandoffFields
  <2>5. \A u, v \in Worker :
          Active(u)' /\ Active(v)' /\ worker'[u].msg = worker'[v].msg
            /\ worker'[u].token = worker'[v].token => u = v
    BY <2>2 DEF HandoffPerLease
  <2>6. \A h \in handoffs' : h.token <= claims'[h.msg]
    BY <1>b, <2>1, <2>4 DEF HandoffPerLease
  <2>7. ASSUME NEW v \in Worker, NEW h \in handoffs', BeforeHandoff(v)'
        PROVE  ~(h.msg = worker'[v].msg /\ h.token = worker'[v].token)
    <3>1. CASE h \in handoffs
      BY <2>2, <2>3, <2>7, <3>1 DEF HandoffPerLease
    <3>2. CASE h \notin handoffs
      BY <2>1, <2>2, <2>3, <2>4, <2>7, <3>2 DEF HandoffPerLease
    <3> QED
      BY <3>1, <3>2
  <2> QED
    BY <2>5, <2>6, <2>7 DEF HandoffPerLease
<1>4. CASE Untouched
  BY <1>4 DEF Untouched, SameDispatch, HandoffPerLease, Active, BeforeHandoff
<1> QED
  BY <1>1, <1>2, <1>3, <1>4, <1>a, StepKinds, ClaimStep

\* A row in the queue or under a lease was so before, unless a person put it there
\* or it was never leased.
LEMMA BackInQueue ==
  ASSUME LeaseInv, [Next]_vars, NEW n \in Message, row'[n].status \in {"queued", "sending"}
  PROVE  \/ row[n].status \in {"queued", "sending"} /\ review'[n] = review[n]
         \/ claims[n] = 0
         \/ review'[n] = review[n] + 1
<1>a. TypeOK /\ TypeOK'
  BY TypeStep DEF LeaseInv
<1>1. CASE RowsOnly
  BY <1>1, RowsOnlyStep DEF RowsOnlyEffect
<1>2. ASSUME NEW w \in Worker, NEW m \in Message, ClaimEffect(w, m)
      PROVE  row[n].status \in {"queued", "sending"} /\ review'[n] = review[n]
  BY <1>2 DEF ClaimEffect
<1>3. ASSUME NEW w \in Worker, Works(w)
      PROVE  row[n].status \in {"queued", "sending"} /\ review'[n] = review[n]
  BY <1>3, <1>a, WorksStep DEF RowAfterWork, Holds
<1>4. CASE Untouched
  BY <1>4 DEF Untouched
<1> QED
  BY <1>1, <1>2, <1>3, <1>4, <1>a, StepKinds, ClaimStep

\* A new handoff has a lease of its own.
LEMMA NewHandoff ==
  ASSUME LeaseInv, HandoffPerLease, [Next]_vars, NEW g \in handoffs', g \notin handoffs
  PROVE  /\ UNCHANGED recorded
         /\ \A h \in handoffs : ~(h.msg = g.msg /\ h.token = g.token)
<1>a. TypeOK /\ TypeOK'
  BY TypeStep DEF LeaseInv
<1>1. ASSUME NEW w \in Worker, Works(w)
      PROVE  \A h \in handoffs : ~(h.msg = g.msg /\ h.token = g.token)
  <2>1. HandoffsAfterWork(w)
    BY <1>1, <1>a, WorksStep
  <2>2. worker[w].pc = "send" /\ g.msg = worker[w].msg /\ g.token = worker[w].token
    BY <2>1, HandoffFields DEF HandoffsAfterWork
  <2> QED
    BY <2>2 DEF HandoffPerLease, BeforeHandoff
<1>2. ~RowsOnly /\ ~Untouched /\ ~Feedback
  BY RowsOnlyStep DEF Untouched, RowsOnly
<1>3. ~ \E w \in Worker : ClaimDue(w)
  BY DEF ClaimDue
<1> QED
  BY <1>1, <1>2, <1>3, <1>a, StepKinds, RecordedStays

LEMMA FeedbackStep == LeaseInv /\ FeedbackInv /\ [Next]_vars => FeedbackInv'
<1> SUFFICES ASSUME LeaseInv, FeedbackInv, [Next]_vars PROVE FeedbackInv'
  OBVIOUS
<1>a. /\ TypeOK /\ WorkUnderLease
      /\ HandoffPerLease /\ ReportsOnHandoffs /\ FeedbackSettles
  BY DEF LeaseInv, FeedbackInv
<1>b. \A h \in handoffs : /\ h.msg \in Message /\ h.review \in Nat
                          /\ claims[h.msg] > 0 /\ h.review <= review[h.msg]
  BY <1>a DEF TypeOK, Handoff, WorkUnderLease
<1>c. handoffs \subseteq handoffs'
  BY <1>a, ReachedStays
<1>1. HandoffPerLease'
  BY <1>a, HandoffPerLeaseStep
<1>2. ReportsOnHandoffs'
  <2> SUFFICES ASSUME NEW e \in recorded'
               PROVE  \E h \in handoffs' : h.msg = e.msg /\ h.token = e.token
    BY DEF ReportsOnHandoffs
  <2>1. CASE e \in recorded
    BY <1>a, <1>c, <2>1 DEF ReportsOnHandoffs
  <2>2. CASE e \notin recorded
    <3>1. PICK h \in handoffs, kind \in Reports, suppress \in BOOLEAN :
            RecordEvent(h, kind, suppress)
      BY <2>2, RecordedStays DEF Feedback
    <3>2. e = [msg |-> h.msg, token |-> h.token, kind |-> kind]
      BY <2>2, <3>1 DEF RecordEvent
    <3> QED
      BY <1>c, <3>2
  <2> QED
    BY <2>1, <2>2
<1>3. ASSUME NEW g \in handoffs', Reported(g)', g.review = review'[g.msg],
             row'[g.msg].status \in {"queued", "sending"}
      PROVE  FALSE
  <2>1. PICK kind \in Reports :
          [msg |-> g.msg, token |-> g.token, kind |-> kind] \in recorded'
    BY <1>3 DEF Reported
  <2> DEFINE e == [msg |-> g.msg, token |-> g.token, kind |-> kind]
  <2>2. CASE g \notin handoffs
    <3>1. e \in recorded /\ \A h \in handoffs : ~(h.msg = g.msg /\ h.token = g.token)
      BY <1>3, <1>a, <2>1, <2>2, NewHandoff
    <3> QED
      BY <3>1, <1>a DEF ReportsOnHandoffs
  <2>3. CASE g \in handoffs
    <3>1. row[g.msg].status \in {"queued", "sending"} /\ review'[g.msg] = review[g.msg]
      <4>1. g.msg \in Message /\ claims[g.msg] > 0 /\ g.review <= review[g.msg]
            /\ g.review \in Nat /\ review[g.msg] \in Nat
        BY <1>a, <1>b, <2>3 DEF TypeOK
      <4>2. g.review # review[g.msg] + 1
        BY <4>1
      <4> QED
        BY <1>3, <1>a, <4>1, <4>2, BackInQueue DEF TypeOK
    <3>2. CASE Feedback
      <4>1. PICK h \in handoffs, k \in Reports, suppress \in BOOLEAN :
              RecordEvent(h, k, suppress)
        BY <3>2 DEF Feedback
      <4>2. h.msg \in Message /\ row \in [Message -> Row] /\ row[h.msg] \in Row
        BY <1>a, <1>b DEF TypeOK
      <4>3. row' = [row EXCEPT ![h.msg] =
                      [row[h.msg] EXCEPT !.status = StatusAfter(row[h.msg].status, k),
                                         !.token = 0, !.lease = 0, !.next = None]]
            /\ recorded' = recorded \cup {[msg |-> h.msg, token |-> h.token, kind |-> k]}
        BY <4>1, <4>2 DEF RecordEvent, Row
      <4>4. StatusAfter(row[h.msg].status, k) \notin {"queued", "sending"}
        BY StatusAfterEvent, MailAssumption
      <4>5. g.msg # h.msg
        BY <1>3, <4>2, <4>3, <4>4 DEF Row
      <4>6. e \in recorded
        BY <2>1, <4>3, <4>5
      <4> QED
        BY <1>3, <1>a, <2>3, <3>1, <4>6 DEF FeedbackSettles, Reported
    <3>3. CASE ~Feedback
      <4>1. e \in recorded
        BY <2>1, <3>3, RecordedStays
      <4> QED
        BY <1>3, <1>a, <2>3, <3>1, <4>1 DEF FeedbackSettles, Reported
    <3> QED
      BY <3>2, <3>3
  <2> QED
    BY <2>2, <2>3
<1> QED
  BY <1>1, <1>2, <1>3 DEF FeedbackInv, FeedbackSettles, Reported
-----------------------------------------------------------------------------
(* Why an outcome is not taken back: an acknowledgement finds the row still*)
(* sending, and an event keeps or raises the rank.                         *)
LEMMA RankOfOthers ==
  /\ \A s \in Status \ {"delivered", "bounced", "complained"} : Rank(s) = 0
  /\ \A s : Rank(s) \in 0 .. 3
BY DEF Rank, Status

LEMMA EventKeepsRank ==
  ASSUME NEW s \in Status, NEW kind \in EventKind
  PROVE  Rank(StatusAfter(s, kind)) >= Rank(s)
<1>1. CASE kind = "complained"
  BY <1>1, RankOfOthers DEF StatusAfter, Rank
<1>2. CASE kind = "bounced"
  BY <1>2 DEF StatusAfter, Rank
<1>3. CASE kind = "delivered"
  BY <1>3 DEF StatusAfter, Rank
<1>4. CASE kind = "deferred"
  BY <1>4 DEF StatusAfter, Rank
<1>5. CASE kind = "accepted"
  BY <1>5 DEF StatusAfter, Rank
<1> QED
  BY <1>1, <1>2, <1>3, <1>4, <1>5 DEF EventKind

LEMMA RankStep ==
  ASSUME TypeOK, [Next]_vars, NEW n \in Message, review'[n] = review[n]
  PROVE  Rank(row'[n].status) >= Rank(row[n].status)
<1>a. row \in [Message -> Row] /\ row[n] \in Row /\ row[n].status \in Status
      /\ review \in [Message -> Nat]
  BY DEF TypeOK, Row
<1>b. Rank(row[n].status) \in 0 .. 3 /\ Rank(row'[n].status) \in 0 .. 3
  BY RankOfOthers
<1>c. row[n].status \notin {"delivered", "bounced", "complained"} => Rank(row[n].status) = 0
  BY <1>a, RankOfOthers
<1>1. CASE row'[n].status = row[n].status
  BY <1>b, <1>1
<1>2. CASE row[n].status \notin {"delivered", "bounced", "complained"}
  BY <1>b, <1>c, <1>2
<1>d. row'[n].status = row[n].status \/ row[n].status \notin {"delivered", "bounced", "complained"}
        => Rank(row'[n].status) >= Rank(row[n].status)
  BY <1>1, <1>2
<1>3. ASSUME NEW m \in Message, Sender(m) PROVE Rank(row'[n].status) >= Rank(row[n].status)
  <2>1. CASE m # n
    <3>1. row'[n] = row[n]
      BY <1>3, <2>1, <1>a DEF Sender, CreateOutbound, CancelOutbound, RescheduleSend,
                              RetryOutbound
    <3> QED
      BY <1>d, <3>1
  <2>2. CASE m = n
    <3>1. ASSUME NEW delay, RescheduleSend(n, delay)
          PROVE  row[n].status \notin {"delivered", "bounced", "complained"}
      BY <3>1 DEF RescheduleSend
    <3>2. row[n].status \notin {"delivered", "bounced", "complained"}
      BY <1>3, <2>2, <3>1 DEF Sender, CreateOutbound, CancelOutbound, RetryOutbound
    <3> QED
      BY <1>d, <3>2
  <2> QED
    BY <2>1, <2>2
<1>4. ASSUME NEW m \in Message, ReplayOutbound(m)
      PROVE  Rank(row'[n].status) >= Rank(row[n].status)
  <2>1. m # n
    BY <1>4, <1>a DEF ReplayOutbound
  <2>2. row'[n] = row[n]
    BY <1>4, <1>a, <2>1 DEF ReplayOutbound
  <2> QED
    BY <1>d, <2>2
<1>5. Swept[n].status = row[n].status
      \/ row[n].status \notin {"delivered", "bounced", "complained"}
  BY <1>a DEF Swept, Expired
<1>6. ASSUME NEW w \in Worker, ClaimDue(w) PROVE Rank(row'[n].status) >= Rank(row[n].status)
  <2>1. PICK m \in Due(Swept) :
          row' = [Swept EXCEPT ![m] =
                    [row[m] EXCEPT !.status = "sending", !.attempts = @ + 1, !.next = None,
                                   !.token = claims[m] + 1, !.lease = LeaseTime]]
    BY <1>6 DEF ClaimDue
  <2>2. CASE n = m
    <3>1. Swept[n].status = "queued"
      BY <2>2 DEF Due
    <3> QED
      BY <1>5, <1>d, <3>1
  <2>3. CASE n # m
    <3>1. row'[n] = Swept[n]
      BY <2>1, <2>3, SweptType
    <3> QED
      BY <1>5, <1>d, <3>1
  <2> QED
    BY <2>2, <2>3
<1>7. ASSUME NEW w \in Worker, ClaimNothing(w)
      PROVE  Rank(row'[n].status) >= Rank(row[n].status)
  BY <1>5, <1>7, <1>d DEF ClaimNothing
<1>8. ASSUME NEW w \in Worker, NEW p \in Provider, BindProvider(w, p)
      PROVE  Rank(row'[n].status) >= Rank(row[n].status)
  <2>1. \/ row' = row
        \/ row' = [row EXCEPT ![worker[w].msg] = [row[worker[w].msg] EXCEPT !.provider = p]]
    BY <1>8 DEF BindProvider
  <2>2. row'[n].status = row[n].status
    BY <1>a, <2>1 DEF Row
  <2> QED
    BY <1>d, <2>2
<1>9. ASSUME NEW w \in Worker, NEW backoff \in 1 .. MaxBackoff, Acknowledge(w, backoff)
      PROVE  Rank(row'[n].status) >= Rank(row[n].status)
  <2>1. /\ row[worker[w].msg].status = "sending"
        /\ row' = [row EXCEPT ![worker[w].msg] = Acknowledged(row[worker[w].msg], w, backoff)]
    BY <1>9 DEF Acknowledge, Holds
  <2>2. row'[n] = row[n] \/ row[n].status = "sending"
    BY <1>a, <2>1
  <2> QED
    BY <1>d, <2>2
<1>10. CASE Feedback
  <2>1. PICK h \in handoffs, kind \in Reports, suppress \in BOOLEAN :
          RecordEvent(h, kind, suppress)
    BY <1>10 DEF Feedback
  <2>2. row' = [row EXCEPT ![h.msg] =
                  [row[h.msg] EXCEPT !.status = StatusAfter(@, kind), !.token = 0, !.lease = 0,
                                     !.next = None]]
    BY <2>1 DEF RecordEvent
  <2>3. CASE n # h.msg
    BY <1>a, <1>d, <2>2, <2>3
  <2>4. CASE n = h.msg
    <3>1. row'[n].status = StatusAfter(row[n].status, kind)
      BY <1>a, <2>2, <2>4 DEF Row
    <3> QED
      BY <1>a, <3>1, EventKeepsRank, MailAssumption
  <2> QED
    BY <2>3, <2>4
<1>11. CASE Tick
  <2>1. row'[n] = [row[n] EXCEPT !.undo = Later(@), !.lease = Later(@), !.next = Later(@)]
    BY <1>11 DEF Tick
  <2>2. row'[n].status = row[n].status
    BY <1>a, <2>1 DEF Row
  <2> QED
    BY <1>d, <2>2
<1>12. CASE UNCHANGED row
  BY <1>12, <1>d
<1>13. ASSUME NEW a \in Actor, OffboardActor(a)
       PROVE  Rank(row'[n].status) >= Rank(row[n].status)
  <2>1. row'[n].status = row[n].status \/ row[n].status = "queued"
    BY <1>13, OffboardStep DEF OffboardedRow
  <2> QED
    BY <1>d, <2>1
<1> QED
  BY <1>3, <1>4, <1>6, <1>7, <1>8, <1>9, <1>10, <1>11, <1>12, <1>13
     DEF Next, DispatchStep, vars, CheckRecipients, PreparationFails, DeliverLocal, Send,
         SendAccepted, SendRejected, SendLost, AcknowledgeTooLate, Crash, RemoveSuppression

-----------------------------------------------------------------------------
(* The whole inductive invariant holds in every reachable state.           *)
THEOREM Invariance == Spec => []IInv
<1>1. LeaseInv => TypeOK
  BY DEF LeaseInv
<1>2. Spec => []SentInv
  BY SentInit, SentStep, LeaseInvariance, PTL DEF Spec
<1>3. Spec => []BarredInv
  BY <1>1, BarredInit, BarredStep, LeaseInvariance, PTL DEF Spec
<1>4. Spec => []FeedbackInv
  BY FeedbackInit, FeedbackStep, LeaseInvariance, PTL DEF Spec
<1> QED
  BY <1>2, <1>3, <1>4, LeaseInvariance, PTL DEF IInv

(* A message that the queue reports sent, delivered, deferred or bounced is*)
(* in a local mailbox or was taken by a provider.                          *)
THEOREM SentMeansReached == Spec => []SentIsTrue
<1>1. IInv => SentIsTrue
  BY DEF IInv, SentInv
<1> QED
  BY <1>1, Invariance, PTL

(* A dispatch that started under a suppression of its recipient files and  *)
(* hands over nothing while the suppression lasts.                         *)
THEOREM SuppressionStops == Spec => []SuppressionHolds
<1>1. IInv => SuppressionHolds
  BY DEF IInv, BarredInv
<1> QED
  BY <1>1, Invariance, PTL

(* A message that the provider reported on is neither queued nor leased    *)
(* again before a person reviews it, however events and acknowledgements   *)
(* overtake one another.                                                   *)
THEOREM FeedbackIsFinal == Spec => []FeedbackSettles
<1>1. IInv => FeedbackSettles
  BY DEF IInv, FeedbackInv
<1> QED
  BY <1>1, Invariance, PTL

(* No step but a replay lowers the outcome of a message.                   *)
THEOREM OutcomeStands == Spec => OutcomeNeverTakenBack
<1>1. TypeOK /\ [Next]_vars =>
        [\A m \in Message :
           review'[m] = review[m] => Rank(row'[m].status) >= Rank(row[m].status)]_vars
  BY RankStep
<1> QED
  BY <1>1, TypeCorrect, PTL DEF Spec, OutcomeNeverTakenBack
=============================================================================
