---------------------------- MODULE MailOutbound ----------------------------
(***************************************************************************)
(* The durable outbound mail queue: rows of mail_outbound_messages, the    *)
(* workers that lease and dispatch them, the provider's delivery feedback, *)
(* the administrator's replay and the offboarding of a sender.             *)
(*                                                                         *)
(* A row is leased under a fresh token, handed to local mailboxes and/or   *)
(* one provider outside any transaction, and acknowledged by a statement   *)
(* that names the token.  Between any two database statements a worker may *)
(* stop, the lease may run out, feedback may arrive and an administrator   *)
(* may act.                                                                *)
(*                                                                         *)
(* Time is kept as what remains of each deadline: undo, next and lease     *)
(* count down in Tick and a deadline is reached at 0.  The worker's clock  *)
(* and the database's now() are one clock.  One tenant is modelled: the    *)
(* worker visits the active tenants in turn and each claim is confined to  *)
(* one of them.                                                            *)
(***************************************************************************)
EXTENDS Naturals

CONSTANTS
  Message,       \* outbound messages (one per idempotency key)
  Worker,        \* dispatching processes
  Provider,      \* outbound providers a message can be routed to
  Managed,       \* the tenant-configured ones; the others are environment relays
  Actor,         \* senders
  ActorOf,       \* the sender of each message
  Address,       \* recipient addresses
  AddressOf,     \* the recipient of each message
  HasLocal,      \* messages with a recipient in the sender's own tenant
  HasRemote,     \* messages with a recipient that only a provider reaches
  LegacyFailed,  \* rows a release without dead letters may have left failed
  MaxAttempts,   \* dispatch attempts before a transient failure is final
  MaxUndo,       \* longest undo window or schedule
  MaxBackoff,    \* longest retry delay
  LeaseTime,     \* lease duration
  MaxReviews,    \* bound on administrator replays and retries of a message
  Reports,       \* kinds of feedback the managed providers send
  None           \* SQL null, and "no message" / "no provider"

EventKind == {"accepted", "delivered", "deferred", "bounced", "complained"}

ASSUME MailAssumption ==
  /\ Managed \subseteq Provider
  /\ ActorOf \in [Message -> Actor]
  /\ AddressOf \in [Message -> Address]
  /\ HasLocal \subseteq Message
  /\ HasRemote \subseteq Message
  /\ Message \subseteq HasLocal \cup HasRemote
  /\ LegacyFailed \subseteq Message
  /\ MaxAttempts \in Nat \ {0}
  /\ MaxUndo \in Nat
  /\ MaxBackoff \in Nat \ {0}
  /\ LeaseTime \in Nat \ {0}
  /\ MaxReviews \in Nat
  /\ Reports \subseteq EventKind
  /\ None \notin Nat
  /\ None \notin Message
  /\ None \notin Provider

VARIABLES
  row,         \* row[m]: the queue row of message m
  worker,      \* worker[w]: the dispatch worker w is executing
  filed,       \* messages delivered to their local mailboxes
  handoffs,    \* what providers received, and whether they accepted it
  recorded,    \* feedback events already stored (the unique index)
  suppressed,  \* addresses with an active suppression
  claims,      \* claims[m]: leases ever granted on m; the last one is the newest token
  review,      \* review[m]: how often a person put m back in the queue
  undone       \* history: messages taken back by their sender

vars == <<row, worker, filed, handoffs, recorded, suppressed, claims, review,
          undone>>

Status == {"absent", "queued", "cancelled", "sending", "accepted", "delivered",
           "deferred", "bounced", "complained", "failed"}

Time == Nat \cup {None}

\* token 0 stands for lease_owner, lease_token and lease_expires_at all null.
Row == [status    : Status,
        attempts  : Nat,
        next      : Time,
        undo      : Nat,
        scheduled : BOOLEAN,
        token     : Nat,
        lease     : Nat,
        dead      : BOOLEAN,
        provider  : Provider \cup {None}]

\* lock is the provider the claimed record was already bound to, via the one
\* this dispatch uses; review and barred are history: the review round of the
\* claim, and that its recipient has been suppressed ever since.
\* A worker is idle exactly when it has no message, sends through a provider and
\* acknowledges a result.
Dispatch ==
  {d \in [pc      : {"idle", "check", "local", "bind", "send", "ack"},
          msg     : Message \cup {None},
          token   : Nat,
          attempt : Nat,
          lock    : Provider \cup {None},
          via     : Provider \cup {None},
          result  : {"none", "sent", "retry", "dead"},
          review  : Nat,
          barred  : BOOLEAN] :
     /\ d.pc = "idle" <=> d.msg = None
     /\ d.pc = "send" => d.via # None
     /\ d.pc = "ack" => d.result # "none"}

\* closed: the environment relay took the message and then ended the connection in
\* an orderly way (nodemailer's ECONNECTION) without an answer.
Handoff == [msg : Message, token : Nat, review : Nat, provider : Provider,
            accepted : BOOLEAN, closed : BOOLEAN]

Event == [msg : Message, token : Nat, kind : Reports]

Idle == [pc |-> "idle", msg |-> None, token |-> 0, attempt |-> 0, lock |-> None,
         via |-> None, result |-> "none", review |-> 0, barred |-> FALSE]

EmptyRow == [status |-> "absent", attempts |-> 0, next |-> None, undo |-> 0,
             scheduled |-> FALSE, token |-> 0, lease |-> 0, dead |-> FALSE,
             provider |-> None]

Init ==
  /\ \E legacy \in SUBSET LegacyFailed :
       row = [m \in Message |-> IF m \in legacy THEN [EmptyRow EXCEPT !.status = "failed"]
                                                ELSE EmptyRow]
  /\ worker = [w \in Worker |-> Idle]
  /\ filed = {}
  /\ handoffs = {}
  /\ recorded = {}
  /\ suppressed = {}
  /\ claims = [m \in Message |-> 0]
  /\ review = [m \in Message |-> 0]
  /\ undone = {}

-----------------------------------------------------------------------------
(* The sender: queue, undo, reschedule.                                    *)

\* A send is queued with its undo window (or schedule) as first attempt time;
\* a suppressed recipient is refused.  A repeated key returns the existing row.
CreateOutbound(m, delay, scheduled) ==
  /\ row[m].status = "absent"
  /\ AddressOf[m] \notin suppressed
  /\ scheduled => delay > 0
  /\ row' = [row EXCEPT ![m] = [EmptyRow EXCEPT !.status = "queued", !.next = delay,
                                  !.undo = delay, !.scheduled = scheduled]]
  /\ UNCHANGED <<worker, filed, handoffs, recorded, suppressed, claims, review, undone>>

CancelOutbound(m) ==
  /\ row[m].status = "queued"
  /\ row[m].undo > 0
  /\ row' = [row EXCEPT ![m].status = "cancelled"]
  /\ undone' = undone \cup {m}
  /\ UNCHANGED <<worker, filed, handoffs, recorded, suppressed, claims, review>>

\* Mutant: the first attempt keeps its old time.
RescheduleUndoOnly(m, delay) ==
  /\ row[m].status = "queued"
  /\ row[m].scheduled
  /\ row[m].undo > 0
  /\ delay > 0
  /\ row' = [row EXCEPT ![m].undo = delay]
  /\ UNCHANGED <<worker, filed, handoffs, recorded, suppressed, claims, review, undone>>

RescheduleSend(m, delay) ==
  /\ row[m].status = "queued"
  /\ row[m].scheduled
  /\ row[m].undo > 0
  /\ delay > 0
  /\ row' = [row EXCEPT ![m].undo = delay, ![m].next = delay]
  /\ UNCHANGED <<worker, filed, handoffs, recorded, suppressed, claims, review, undone>>

-----------------------------------------------------------------------------
(* The worker: claim, dispatch, acknowledge.                               *)

Expired(m) == row[m].status = "sending" /\ row[m].lease = 0 /\ ~row[m].dead

\* Mutants: expired leases go back to the queue; are left alone.
SweptRequeues ==
  [m \in Message |->
     IF Expired(m) THEN [row[m] EXCEPT !.status = "queued", !.token = 0, !.next = 0]
                   ELSE row[m]]
SweptNever == row

\* First statement of a claim: an expired lease may have reached SMTP, so the
\* row is held for review instead of being sent again.
Swept ==
  [m \in Message |->
     IF Expired(m)
     THEN [row[m] EXCEPT !.status = "failed", !.dead = TRUE, !.token = 0, !.next = None]
     ELSE row[m]]

Due(r) == {m \in Message : r[m].status = "queued" /\ ~r[m].dead /\ r[m].next = 0}

\* Any due row: "skip locked" passes over the earliest one while it is locked.
ClaimDue(w) ==
  /\ worker[w].pc = "idle"
  /\ \E m \in Due(Swept) :
       /\ row' = [Swept EXCEPT ![m] =
                    [row[m] EXCEPT !.status = "sending", !.attempts = @ + 1, !.next = None,
                                   !.token = claims[m] + 1, !.lease = LeaseTime]]
       /\ claims' = [claims EXCEPT ![m] = @ + 1]
       /\ worker' = [worker EXCEPT ![w] =
                       [pc |-> "check", msg |-> m, token |-> claims[m] + 1,
                        attempt |-> row[m].attempts + 1, lock |-> row[m].provider,
                        via |-> None, result |-> "none", review |-> review[m],
                        barred |-> AddressOf[m] \in suppressed]]
  /\ UNCHANGED <<filed, handoffs, recorded, suppressed, review, undone>>

ClaimNothing(w) ==
  /\ worker[w].pc = "idle"
  /\ Due(Swept) = {}
  /\ row # Swept
  /\ row' = Swept
  /\ UNCHANGED <<worker, filed, handoffs, recorded, suppressed, claims, review, undone>>

\* The acknowledgement a failed attempt asks for.
Failure(w, terminal) ==
  IF terminal \/ worker[w].attempt >= MaxAttempts THEN "dead" ELSE "retry"

Fail(w, terminal) ==
  worker' = [worker EXCEPT ![w].pc = "ack", ![w].result = Failure(w, terminal)]

\* Mutant: any lease will do.
HoldsByStatus(w) == row[worker[w].msg].status = "sending"

\* The row is still leased to the dispatch of worker w.
Holds(w) ==
  LET m == worker[w].msg IN
  /\ row[m].status = "sending"
  /\ row[m].token = worker[w].token

\* Mutant: the suppression list is only consulted when the message is queued.
CheckSenderOnly(w) ==
  /\ worker[w].pc = "check"
  /\ worker' = [worker EXCEPT ![w].pc = "local"]
  /\ UNCHANGED <<row, filed, handoffs, recorded, suppressed, claims, review, undone>>

\* Sender authorised, recipient not suppressed, attachments resolved.
CheckRecipients(w) ==
  /\ worker[w].pc = "check"
  /\ AddressOf[worker[w].msg] \notin suppressed
  /\ worker' = [worker EXCEPT ![w].pc = "local"]
  /\ UNCHANGED <<row, filed, handoffs, recorded, suppressed, claims, review, undone>>

\* Anything thrown before the provider is called: a revoked sender, a
\* suppressed recipient or a missing attachment is terminal, a database or
\* storage error is not.
PreparationFails(w, terminal) ==
  /\ worker[w].pc \in {"check", "local", "bind"}
  /\ Fail(w, terminal)
  /\ UNCHANGED <<row, filed, handoffs, recorded, suppressed, claims, review, undone>>

\* Local mailboxes are filled in a transaction that locks the leased row.
DeliverLocal(w) ==
  /\ worker[w].pc = "local"
  /\ LET m == worker[w].msg IN
     IF Holds(w) /\ row[m].lease > 0
     THEN /\ filed' = IF m \in HasLocal THEN filed \cup {m} ELSE filed
          /\ worker' = IF m \in HasRemote
                       THEN [worker EXCEPT ![w].pc = "bind"]
                       ELSE [worker EXCEPT ![w].pc = "ack", ![w].result = "sent"]
     ELSE /\ Fail(w, TRUE)
          /\ UNCHANGED filed
  /\ UNCHANGED <<row, handoffs, recorded, suppressed, claims, review, undone>>

\* Routing picks the provider the record was bound to when it was claimed, or else
\* the one configured now.
Routed(w, p) == worker[w].lock \in {None, p}

\* Binding it needs the live lease and no other binding.
BindProvider(w, p) ==
  /\ worker[w].pc = "bind"
  /\ Routed(w, p)
  /\ LET m == worker[w].msg IN
     IF Holds(w) /\ row[m].lease > 0 /\ row[m].provider \in {None, p}
     THEN /\ row' = [row EXCEPT ![m].provider = p]
          /\ worker' = [worker EXCEPT ![w].pc = "send", ![w].via = p]
     ELSE /\ Fail(w, TRUE)
          /\ UNCHANGED row
  /\ UNCHANGED <<filed, handoffs, recorded, suppressed, claims, review, undone>>

HandoffBy(w, accepted, closed) ==
  [msg |-> worker[w].msg, token |-> worker[w].token, review |-> worker[w].review,
   provider |-> worker[w].via, accepted |-> accepted, closed |-> closed]

SendAccepted(w) ==
  /\ worker[w].pc = "send"
  /\ handoffs' = handoffs \cup {HandoffBy(w, TRUE, FALSE)}
  /\ worker' = [worker EXCEPT ![w].pc = "ack", ![w].result = "sent"]
  /\ UNCHANGED <<row, filed, recorded, suppressed, claims, review, undone>>

\* Mutant: the provider's answer is not looked at.
SendUnchecked(w, terminal) ==
  /\ worker[w].pc = "send"
  /\ handoffs' = handoffs \cup {HandoffBy(w, FALSE, FALSE)}
  /\ worker' = [worker EXCEPT ![w].pc = "ack", ![w].result = "sent"]
  /\ UNCHANGED <<row, filed, recorded, suppressed, claims, review, undone>>

\* The provider answers that it did not take the message.
SendRejected(w, terminal) ==
  /\ worker[w].pc = "send"
  /\ handoffs' = handoffs \cup {HandoffBy(w, FALSE, FALSE)}
  /\ Fail(w, terminal)
  /\ UNCHANGED <<row, filed, recorded, suppressed, claims, review, undone>>

\* The connection ends before an answer: the message may have been taken.  The
\* environment relay's transport calls a timeout, a reset and a socket error
\* terminal; an orderly close, and all a managed provider's transport throws, is
\* an error the dispatcher takes for a transient one.  An orderly close of a
\* message that was not taken is like a transient rejection.
SendLost(w, accepted, closed) ==
  /\ worker[w].pc = "send"
  /\ closed => accepted /\ worker[w].via \notin Managed
  /\ handoffs' = handoffs \cup {HandoffBy(w, accepted, closed)}
  /\ Fail(w, worker[w].via \notin Managed /\ ~closed)
  /\ UNCHANGED <<row, filed, recorded, suppressed, claims, review, undone>>

\* markOutboundSent / markOutboundRetry / markOutboundDeadLettered: each is one
\* statement that matches only while the row is leased to this dispatch.
Acknowledged(r, w, backoff) ==
  CASE worker[w].result = "sent" ->
         [r EXCEPT !.status = "accepted", !.token = 0, !.lease = 0]
    [] worker[w].result = "retry" ->
         [r EXCEPT !.status = "queued", !.next = backoff, !.token = 0, !.lease = 0]
    [] worker[w].result = "dead" ->
         [r EXCEPT !.status = "failed", !.dead = TRUE, !.token = 0, !.lease = 0]

Acknowledge(w, backoff) ==
  /\ worker[w].pc = "ack"
  /\ Holds(w)
  /\ LET m == worker[w].msg IN
     row' = [row EXCEPT ![m] = Acknowledged(row[m], w, backoff)]
  /\ worker' = [worker EXCEPT ![w] = Idle]
  /\ UNCHANGED <<filed, handoffs, recorded, suppressed, claims, review, undone>>

AcknowledgeTooLate(w) ==
  /\ worker[w].pc = "ack"
  /\ ~Holds(w)
  /\ worker' = [worker EXCEPT ![w] = Idle]
  /\ UNCHANGED <<row, filed, handoffs, recorded, suppressed, claims, review, undone>>

\* The process stops, or a database error ends the dispatch: nothing is recorded.
Crash(w) ==
  /\ worker[w].pc # "idle"
  /\ worker' = [worker EXCEPT ![w] = Idle]
  /\ UNCHANGED <<row, filed, handoffs, recorded, suppressed, claims, review, undone>>

-----------------------------------------------------------------------------
(* Provider feedback, suppressions, administrators and time.               *)

\* Mutants: the last event wins; a deferral is only noted once acknowledged.
StatusOfLastEvent(status, kind) == kind
StatusIfAcknowledged(status, kind) ==
  IF kind = "deferred" /\ status \notin {"accepted", "deferred"} THEN status ELSE kind

\* Status after an event: a complaint outranks a bounce, a bounce a delivery.
StatusAfter(status, kind) ==
  CASE kind = "complained" -> "complained"
    [] kind = "bounced" /\ status # "complained" -> "bounced"
    [] kind = "delivered" /\ status \notin {"bounced", "complained"} -> "delivered"
    [] kind = "deferred" /\ status \in {"queued", "sending", "accepted", "deferred"}
         -> "deferred"
    [] kind = "accepted" /\ status \in {"queued", "sending", "accepted"} -> "accepted"
    [] OTHER -> status

\* An event about an accepted handoff, matched by the stable handoff key.  A
\* redelivered event hits the unique index and changes nothing.  Bounces and
\* complaints suppress the recipient, a bounce that is a policy rejection not.
RecordEvent(h, kind, suppress) ==
  LET event == [msg |-> h.msg, token |-> h.token, kind |-> kind] IN
  /\ h.accepted
  /\ h.provider \in Managed
  /\ row[h.msg].provider = h.provider
  /\ event \notin recorded
  /\ recorded' = recorded \cup {event}
  /\ row' = [row EXCEPT ![h.msg] =
               [row[h.msg] EXCEPT !.status = StatusAfter(@, kind), !.token = 0, !.lease = 0,
                                  !.next = None]]
  /\ suppress => kind \in {"bounced", "complained"}
  /\ kind = "complained" => suppress
  /\ suppressed' = IF suppress THEN suppressed \cup {AddressOf[h.msg]} ELSE suppressed
  /\ UNCHANGED <<worker, filed, handoffs, claims, review, undone>>

RemoveSuppression(a) ==
  /\ a \in suppressed
  /\ suppressed' = suppressed \ {a}
  /\ worker' = [w \in Worker |->
                  [worker[w] EXCEPT !.barred = @ /\ AddressOf[worker[w].msg] # a]]
  /\ UNCHANGED <<row, filed, handoffs, recorded, claims, review, undone>>

\* Mutant: the replayed message may be routed anew.
ReplayUnbound(m) ==
  /\ row[m].dead
  /\ review[m] < MaxReviews
  /\ row' = [row EXCEPT ![m] = [row[m] EXCEPT !.status = "queued", !.attempts = 0, !.next = 0,
                                  !.dead = FALSE, !.provider = None]]
  /\ review' = [review EXCEPT ![m] = @ + 1]
  /\ UNCHANGED <<worker, filed, handoffs, recorded, suppressed, claims, undone>>

\* An administrator puts a dead-lettered message back in the queue.
ReplayOutbound(m) ==
  /\ row[m].dead
  /\ review[m] < MaxReviews
  /\ row' = [row EXCEPT ![m] = [row[m] EXCEPT !.status = "queued", !.attempts = 0, !.next = 0,
                                  !.dead = FALSE, !.token = 0, !.lease = 0]]
  /\ review' = [review EXCEPT ![m] = @ + 1]
  /\ UNCHANGED <<worker, filed, handoffs, recorded, suppressed, claims, undone>>

\* The sender retries a failed message that was never dead-lettered.
RetryOutbound(m) ==
  /\ row[m].status = "failed"
  /\ ~row[m].dead
  /\ review[m] < MaxReviews
  /\ row' = [row EXCEPT ![m] = [row[m] EXCEPT !.status = "queued", !.attempts = 0, !.next = 0]]
  /\ review' = [review EXCEPT ![m] = @ + 1]
  /\ UNCHANGED <<worker, filed, handoffs, recorded, suppressed, claims, undone>>

\* Mutant: rows that are being sent do not block it and are cancelled with the rest.
OffboardSending(a) ==
  /\ row' = [m \in Message |->
               IF ActorOf[m] = a /\ row[m].status \in {"queued", "sending"}
               THEN [row[m] EXCEPT !.status = "cancelled", !.token = 0, !.lease = 0]
               ELSE row[m]]
  /\ UNCHANGED <<worker, filed, handoffs, recorded, suppressed, claims, review, undone>>

\* An offboarded sender's queued rows are cancelled, whatever was done with them
\* before; a row that is being sent blocks the offboarding.
OffboardActor(a) ==
  /\ \A m \in Message : ActorOf[m] = a => row[m].status # "sending"
  /\ row' = [m \in Message |->
               IF ActorOf[m] = a /\ row[m].status = "queued"
               THEN [row[m] EXCEPT !.status = "cancelled"]
               ELSE row[m]]
  /\ UNCHANGED <<worker, filed, handoffs, recorded, suppressed, claims, review, undone>>

Later(t) == IF t = None \/ t = 0 THEN t ELSE t - 1

Tick ==
  /\ \E m \in Message : row[m].undo > 0 \/ row[m].lease > 0 \/ row[m].next \notin {None, 0}
  /\ row' = [m \in Message |-> [row[m] EXCEPT !.undo = Later(@), !.lease = Later(@),
                                              !.next = Later(@)]]
  /\ UNCHANGED <<worker, filed, handoffs, recorded, suppressed, claims, review, undone>>

-----------------------------------------------------------------------------
Send(w) ==
  \/ SendAccepted(w)
  \/ \E terminal \in BOOLEAN : SendRejected(w, terminal)
  \/ \E accepted, closed \in BOOLEAN : SendLost(w, accepted, closed)

\* One step of the dispatch worker w is executing.
DispatchStep(w) ==
  \/ CheckRecipients(w)
  \/ \E terminal \in BOOLEAN : PreparationFails(w, terminal)
  \/ DeliverLocal(w)
  \/ \E p \in Provider : BindProvider(w, p)
  \/ Send(w)
  \/ \E backoff \in 1 .. MaxBackoff : Acknowledge(w, backoff)
  \/ AcknowledgeTooLate(w)

Sender(m) ==
  \/ \E delay \in 0 .. MaxUndo, scheduled \in BOOLEAN : CreateOutbound(m, delay, scheduled)
  \/ CancelOutbound(m)
  \/ \E delay \in 0 .. MaxUndo : RescheduleSend(m, delay)
  \/ RetryOutbound(m)

Feedback ==
  \E h \in handoffs, kind \in Reports, suppress \in BOOLEAN :
    RecordEvent(h, kind, suppress)

Next ==
  \/ \E m \in Message : Sender(m) \/ ReplayOutbound(m)
  \/ \E w \in Worker : ClaimDue(w) \/ ClaimNothing(w) \/ DispatchStep(w) \/ Crash(w)
  \/ Feedback
  \/ \E a \in Address : RemoveSuppression(a)
  \/ \E a \in Actor : OffboardActor(a)
  \/ Tick

Spec == Init /\ [][Next]_vars

\* Time passes, and every worker polls and carries on with what it has started
\* (OutboundMailWorker drains on a timer, sockets time out).  Senders,
\* administrators, feedback and crashes are not obliged to happen.
Fairness ==
  /\ WF_vars(Tick)
  /\ \A w \in Worker : /\ WF_vars(ClaimDue(w) \/ ClaimNothing(w))
                       /\ WF_vars(DispatchStep(w))

FairSpec == Spec /\ Fairness

-----------------------------------------------------------------------------
(* Properties.                                                             *)

\* Every row, dispatch and history record has its type.
TypeOK ==
  /\ row \in [Message -> Row]
  /\ worker \in [Worker -> Dispatch]
  /\ filed \subseteq Message
  /\ handoffs \subseteq Handoff
  /\ recorded \subseteq Event
  /\ suppressed \subseteq Address
  /\ claims \in [Message -> Nat]
  /\ review \in [Message -> Nat]
  /\ undone \subseteq Message

\* No statement of the queue, the feedback store or the administrator leaves a
\* row that the table's mail_outbound_lease_state_check rejects: a lease exactly
\* while sending, and a next attempt time while queued and not while sending.
LeaseStateCheck ==
  \A m \in Message :
    /\ (row[m].token # 0) <=> (row[m].status = "sending")
    /\ row[m].status = "queued" => row[m].next # None
    /\ row[m].status = "sending" => row[m].next = None

\* The provider accepted the message in handoff h.
Copy(h) == h.accepted /\ h.provider \notin Managed

\* The message went with an answer, or with a loss that the worker treats as final.
FinalCopy(h) == Copy(h) /\ ~h.closed

\* Between two reviews by a person the environment relay accepts a message at
\* most once, whatever leases expire, workers stall or acknowledgements get lost,
\* except for copies it accepted on a connection that it then closed in an orderly
\* way without an answer: those the worker takes for not sent and sends again.
OneCopyPerReview ==
  \A g, h \in handoffs :
    FinalCopy(g) /\ FinalCopy(h) /\ g.msg = h.msg /\ g.review = h.review => g = h

\* The same promise for every provider, the managed ones included.
NoResendOfUnknownOutcome ==
  \A g, h \in handoffs :
    g.accepted /\ h.accepted /\ g.msg = h.msg /\ g.review = h.review => g = h

\* A message its sender took back was never handed to a provider or filed in a
\* mailbox, and no worker is about to: undo, reschedule, claim and retry never
\* overlap.  What offboarding cancels may have been filed or handed over before.
UndoneNeverSent ==
  \A m \in undone :
    /\ row[m].status = "cancelled"
    /\ m \notin filed
    /\ \A h \in handoffs : h.msg # m
    /\ \A w \in Worker : worker[w].msg # m

\* The provider has yet to be called by worker w.
BeforeHandoff(w) == worker[w].pc \in {"check", "local", "bind", "send"}

\* Once a row is cancelled, by undo or by offboarding, nobody is still handing the
\* message over, but for a worker of an earlier review round that lost its lease.
CancelledIsQuiet ==
  \A m \in Message, w \in Worker :
    row[m].status = "cancelled" /\ worker[w].msg = m /\ BeforeHandoff(w) =>
      worker[w].review < review[m]

\* All handoffs of a message, across retries, stale workers, routing changes and
\* replays, go through one provider, so that feedback and the provider's
\* idempotency key can recognise them.
OneProviderPerMessage ==
  \A g, h \in handoffs : g.msg = h.msg => g.provider = h.provider

\* Feedback about handoff h has been stored.
Reported(h) ==
  \E kind \in Reports : [msg |-> h.msg, token |-> h.token, kind |-> kind] \in recorded

\* Once the provider has reported on a message, the message is not sent again
\* until a person reviews it, even when the report overtakes the acknowledgement.
FeedbackSettles ==
  \A h \in handoffs :
    Reported(h) /\ h.review = review[h.msg] => row[h.msg].status \notin {"queued", "sending"}

\* The message is in a local mailbox or was taken by a provider.
Reached(m) == m \in filed \/ \E h \in handoffs : h.msg = m /\ h.accepted

\* A message reported sent reached a provider that took it or a local mailbox.
SentIsTrue ==
  \A m \in Message :
    row[m].status \in {"accepted", "delivered", "deferred", "bounced", "complained"} => Reached(m)

Rank(status) ==
  CASE status = "complained" -> 3
    [] status = "bounced" -> 2
    [] status = "delivered" -> 1
    [] OTHER -> 0

\* A message claimed after its recipient bounced or complained is neither filed
\* nor handed to a provider while the suppression lasts, whichever message of
\* whichever attempt the feedback was about.
SuppressionHolds ==
  \A w \in Worker : worker[w].barred => worker[w].pc \in {"check", "ack"}

-----------------------------------------------------------------------------
(* The inductive invariant behind OneCopyPerReview, UndoneNeverSent,       *)
(* CancelledIsQuiet, OneProviderPerMessage and LeaseStateCheck.            *)

Active(w) == worker[w].pc # "idle"

\* Worker w may yet hand its message to a provider, or ask to have it sent again.
Unsettled(w) ==
  \/ worker[w].pc \in {"check", "local", "bind", "send"}
  \/ worker[w].pc = "ack" /\ worker[w].result = "retry"

\* Undo ends before the first lease: a row that was ever leased has no undo left,
\* and one that was undone is never leased.
LeasesStartAfterUndo ==
  \A m \in Message :
    /\ row[m].token <= claims[m]
    /\ row[m].status = "absent" \/ m \in undone => claims[m] = 0
    /\ m \in undone => row[m].status = "cancelled"
    /\ row[m].status = "sending" \/ row[m].dead => claims[m] > 0
    /\ row[m].status = "failed" \/ claims[m] > 0 => row[m].undo = 0
    /\ row[m].status = "queued" => row[m].undo <= row[m].next

\* Whatever was done with a message was done under one of its leases.
WorkUnderLease ==
  /\ \A w \in Worker : Active(w) =>
       /\ worker[w].token \in 1 .. claims[worker[w].msg]
       /\ worker[w].review <= review[worker[w].msg]
  /\ \A h \in handoffs : claims[h.msg] > 0 /\ h.review <= review[h.msg]
  /\ \A m \in filed : claims[m] > 0

\* A worker holding the lease works for the current round of review.
LeaseIsCurrent ==
  \A w \in Worker :
    Active(w) /\ Holds(w) => worker[w].review = review[worker[w].msg]

\* At most one dispatch of a round is unsettled, none once the relay took a copy
\* for good, none and no such copy while the row waits in the queue or after it was
\* cancelled there.
OneDispatchPerReview ==
  /\ \A v, w \in Worker :
       Unsettled(v) /\ Unsettled(w) /\ worker[v].msg = worker[w].msg
         /\ worker[v].review = worker[w].review => v = w
  /\ \A w \in Worker, h \in handoffs :
       Unsettled(w) /\ FinalCopy(h) =>
         ~(h.msg = worker[w].msg /\ h.review = worker[w].review)
  /\ \A m \in Message : row[m].status \in {"queued", "cancelled"} =>
       /\ \A w \in Worker :
            Unsettled(w) => ~(worker[w].msg = m /\ worker[w].review = review[m])
       /\ \A h \in handoffs : FinalCopy(h) => ~(h.msg = m /\ h.review = review[m])

\* A provider is bound before the first handoff and for good.
BoundBeforeHandoff ==
  /\ \A w \in Worker : worker[w].pc = "send" =>
       worker[w].via \in Provider /\ row[worker[w].msg].provider = worker[w].via
  /\ \A h \in handoffs : row[h.msg].provider = h.provider

LeaseInv ==
  /\ TypeOK
  /\ LeaseStateCheck
  /\ LeasesStartAfterUndo
  /\ WorkUnderLease
  /\ LeaseIsCurrent
  /\ OneDispatchPerReview
  /\ BoundBeforeHandoff
  /\ OneCopyPerReview

-----------------------------------------------------------------------------
(* The inductive invariants behind SentIsTrue, SuppressionHolds and        *)
(* FeedbackSettles.                                                        *)

\* A worker about to acknowledge a message as sent has seen it arrive.
SentInv ==
  /\ SentIsTrue
  /\ \A w \in Worker :
       worker[w].pc = "ack" /\ worker[w].result = "sent" => Reached(worker[w].msg)

\* A suppression that a dispatch started under is still there.
BarredInv ==
  /\ SuppressionHolds
  /\ \A w \in Worker : worker[w].barred => AddressOf[worker[w].msg] \in suppressed

\* No two dispatches share a lease, and a lease is good for one handoff.
HandoffPerLease ==
  /\ \A v, w \in Worker :
       Active(v) /\ Active(w) /\ worker[v].msg = worker[w].msg
         /\ worker[v].token = worker[w].token => v = w
  /\ \A h \in handoffs : h.token <= claims[h.msg]
  /\ \A w \in Worker, h \in handoffs :
       BeforeHandoff(w) => ~(h.msg = worker[w].msg /\ h.token = worker[w].token)

\* Feedback is about a handoff.
ReportsOnHandoffs ==
  \A e \in recorded : \E h \in handoffs : h.msg = e.msg /\ h.token = e.token

FeedbackInv ==
  /\ HandoffPerLease
  /\ ReportsOnHandoffs
  /\ FeedbackSettles

IInv ==
  /\ LeaseInv
  /\ SentInv
  /\ BarredInv
  /\ FeedbackInv

-----------------------------------------------------------------------------
(* Refinement.                                                             *)

\* The queue as its abstract specification sees it.
CopyOf(h) == [msg |-> h.msg, review |-> h.review, token |-> h.token, closed |-> h.closed]

Copies == {CopyOf(h) : h \in {g \in handoffs : Copy(g)}}

Promise == INSTANCE MailPromise WITH copies <- Copies, withdrawn <- undone

\* The queue implements MailPromise: a copy is accepted only while all earlier ones
\* of its round ended in an orderly close, and undo and delivery exclude one another
\* for ever.
PromiseKept == Promise!Spec

\* Late acknowledgements and reordered events never take back a delivery, bounce
\* or complaint: only a replay does.
OutcomeNeverTakenBack ==
  [][\A m \in Message :
       review'[m] = review[m] => Rank(row'[m].status) >= Rank(row[m].status)]_vars

\* A message whose undo window is over leaves the queue: it is sent, reported on
\* or held for review.
QueueDrains ==
  \A m \in Message :
    (row[m].status \in {"queued", "sending"} /\ row[m].undo = 0)
      ~> (row[m].status \notin {"queued", "sending"})
=============================================================================
