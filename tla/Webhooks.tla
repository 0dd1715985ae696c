------------------------------- MODULE Webhooks -------------------------------
(***************************************************************************)
(* Deliveries of outbound webhooks of one organization.  The subscriber    *)
(* makes a delivery for every enabled webhook that wants an event and      *)
(* posts it; a timer claims the deliveries that are due again; a person    *)
(* may test an endpoint or replay what failed.  A delivery is read, posted *)
(* and recorded in separate transactions of the worker, but in the one     *)
(* transaction of its request when a person asked for it.                  *)
(***************************************************************************)
EXTENDS Naturals

CONSTANTS
  Webhook,
  Delivery,     \* delivery ids; each is used once
  Slot,         \* deliveries that may be worked on at the same time
  MaxAttempts,  \* of the retry policy
  MaxDelay,     \* bound on the ticks until a retry
  MaxUnsure,    \* bound on the updates whose answer is lost
  None

ASSUME WebhookAssumption ==
  /\ MaxAttempts \in Nat \ {0}
  /\ MaxDelay \in Nat \ {0}
  /\ MaxUnsure \in Nat
  /\ None \notin Webhook \cup Delivery \cup Nat

VARIABLES
  hook,     \* hook[h]: the endpoint's settings; withheld: disabled, or its policy
            \* excludes the events
  row,      \* row[d]: the row of webhook_deliveries
  slot,     \* slot[s]: the work on one delivery
  posts,    \* posts[d]: requests sent (history)
  taken,    \* deliveries of which the endpoint took a request (history)
  lost,     \* deliveries whose work ended half-way (history)
  unsure,   \* deliveries with an update that was committed, its answer lost (history)
  answers   \* answers to updates lost so far

vars == <<hook, row, slot, posts, taken, lost, unsure, answers>>

Settings == {"enabled", "withheld", "deleted"}
Row == [status  : {"none", "in_progress", "failed", "delivered", "abandoned"},
        attempt : Nat,
        wait    : Nat \cup {None},   \* ticks until next_attempt_at
        hook    : Webhook \cup {None}]

\* request: the work is part of a person's request, whose rows nobody sees yet.
\* catch: the update that follows the answer has failed, or seems to have.
Task == [step    : {"idle", "create", "look", "post", "record", "catch"},
         d       : Delivery \cup {None},
         hook    : Webhook \cup {None},
         attempt : Nat,
         request : BOOLEAN,
         result  : {"ok", "again", "no"}]

NoRow == [status |-> "none", attempt |-> 0, wait |-> None, hook |-> None]
Idle == [step |-> "idle", d |-> None, hook |-> None, attempt |-> 0, request |-> FALSE,
         result |-> "no"]

Init ==
  /\ hook = [h \in Webhook |-> "enabled"]
  /\ row = [d \in Delivery |-> NoRow]
  /\ slot = [s \in Slot |-> Idle]
  /\ posts = [d \in Delivery |-> 0]
  /\ taken = {}
  /\ lost = {}
  /\ unsure = {}
  /\ answers = 0

Fresh(d) ==
  /\ row[d].status = "none"
  /\ d \notin lost
  /\ posts[d] = 0
  /\ \A s \in Slot : slot[s].d # d

-----------------------------------------------------------------------------
(* The settings, each change a request.                                    *)

SetHook(h, v) ==
  /\ hook[h] # "deleted"
  /\ hook[h] # v
  /\ hook' = [hook EXCEPT ![h] = v]
  /\ UNCHANGED <<row, slot, posts, taken, lost, unsure, answers>>

\* Neither disabled nor deleted, and no policy of its own excludes the event.
Deliverable(h) == hook[h] = "enabled"

-----------------------------------------------------------------------------
(* The work on a delivery.                                                 *)

NewTask(step, d, h, request) ==
  [step |-> step, d |-> d, hook |-> h, attempt |-> 1, request |-> request, result |-> "no"]

\* An event the webhook wants, read with the settings of that moment.
Handle(s, d, h) ==
  /\ slot[s].step = "idle"
  /\ Deliverable(h)
  /\ Fresh(d)
  /\ slot' = [slot EXCEPT ![s] = NewTask("create", d, h, FALSE)]
  /\ UNCHANGED <<hook, row, posts, taken, lost, unsure, answers>>

CreateDelivery(s) ==
  /\ slot[s].step = "create"
  /\ row' = [row EXCEPT ![slot[s].d] = [status |-> "in_progress", attempt |-> 1, wait |-> None,
                                        hook |-> slot[s].hook]]
  /\ slot' = [slot EXCEPT ![s].step = "post"]
  /\ UNCHANGED <<hook, posts, taken, lost, unsure, answers>>

\* A person tests an enabled endpoint.
Test(s, d, h) ==
  /\ slot[s].step = "idle"
  /\ Deliverable(h)
  /\ Fresh(d)
  /\ slot' = [slot EXCEPT ![s] = NewTask("post", d, h, TRUE)]
  /\ UNCHANGED <<hook, row, posts, taken, lost, unsure, answers>>

\* Mutant: the replayed row is put back in the queue instead of copied.
ReplayInPlace(s, d0, d) ==
  /\ row[d0].status \in {"failed", "abandoned"}
  /\ Deliverable(row[d0].hook)
  /\ row' = [row EXCEPT ![d0].status = "failed", ![d0].wait = 0]
  /\ UNCHANGED <<hook, slot, posts, taken, lost, unsure, answers>>

\* A replay is a new delivery of the same payload.
Replay(s, d0, d) ==
  /\ row[d0].status \in {"failed", "abandoned"}
  /\ Deliverable(row[d0].hook)
  /\ slot[s].step = "idle"
  /\ Fresh(d)
  /\ slot' = [slot EXCEPT ![s] = NewTask("post", d, row[d0].hook, TRUE)]
  /\ UNCHANGED <<hook, row, posts, taken, lost, unsure, answers>>

Due(d) == row[d].status = "failed" /\ row[d].wait = 0

\* Mutant: the claimed delivery stays due.
ClaimLeavesDue(s, d) ==
  /\ slot[s].step = "idle"
  /\ Due(d)
  /\ row' = [row EXCEPT ![d].attempt = @ + 1]
  /\ slot' = [slot EXCEPT ![s] = [step |-> "look", d |-> d, hook |-> row[d].hook,
                                  attempt |-> row[d].attempt + 1, request |-> FALSE,
                                  result |-> "no"]]
  /\ UNCHANGED <<hook, posts, taken, lost, unsure, answers>>

ClaimDue(s, d) ==
  /\ slot[s].step = "idle"
  /\ Due(d)
  /\ row' = [row EXCEPT ![d].status = "in_progress", ![d].attempt = @ + 1, ![d].wait = None]
  /\ slot' = [slot EXCEPT ![s] = [step |-> "look", d |-> d, hook |-> row[d].hook,
                                  attempt |-> row[d].attempt + 1, request |-> FALSE,
                                  result |-> "no"]]
  /\ UNCHANGED <<hook, posts, taken, lost, unsure, answers>>

\* Mutant: a delivery whose webhook is gone is dropped, not abandoned.
LookDrops(s) ==
  /\ slot[s].step = "look"
  /\ slot' = [slot EXCEPT ![s] = IF Deliverable(slot[s].hook)
                                 THEN [slot[s] EXCEPT !.step = "post"] ELSE Idle]
  /\ UNCHANGED <<hook, row, posts, taken, lost, unsure, answers>>

\* The settings are read again before a retry.
Look(s) ==
  /\ slot[s].step = "look"
  /\ IF Deliverable(slot[s].hook)
     THEN /\ slot' = [slot EXCEPT ![s].step = "post"]
          /\ UNCHANGED row
     ELSE /\ row' = [row EXCEPT ![slot[s].d].status = "abandoned", ![slot[s].d].wait = None]
          /\ slot' = [slot EXCEPT ![s] = Idle]
  /\ UNCHANGED <<hook, posts, taken, lost, unsure, answers>>

\* ok: a 2xx answer.  no: an answer that is not worth a retry.  again: 408, 429,
\* 5xx, or no answer, after which the endpoint may have taken the request or not.
Post(s) ==
  /\ slot[s].step = "post"
  /\ posts' = [posts EXCEPT ![slot[s].d] = @ + 1]
  /\ \E result \in {"ok", "again", "no"}, took \in BOOLEAN :
       /\ result = "ok" => took
       /\ result = "no" => ~took
       /\ slot' = [slot EXCEPT ![s].step = "record", ![s].result = result]
       /\ taken' = IF took THEN taken \cup {slot[s].d} ELSE taken
  /\ UNCHANGED <<hook, row, lost, unsure, answers>>

Retries(t) == t.result = "again" /\ t.attempt < MaxAttempts

\* Mutant: a final failure stays failed.
StatusOfAnswer(t) == IF t.result = "ok" THEN "delivered" ELSE "failed"

AttemptStatus(t) ==
  IF t.result = "ok" THEN "delivered" ELSE IF Retries(t) THEN "failed" ELSE "abandoned"

\* updateDeliveryStatus is unconditional.
Update(t) ==
  \E delay \in 1..MaxDelay :
    row' = [row EXCEPT ![t.d] = [status  |-> AttemptStatus(t),
                                 attempt |-> t.attempt,
                                 wait    |-> IF Retries(t) THEN delay ELSE None,
                                 hook    |-> t.hook]]

\* The update after the answer, or that of the catch; a request's new row appears with
\* its end.
Record(s) ==
  /\ slot[s].step \in {"record", "catch"}
  /\ Update(slot[s])
  /\ slot' = [slot EXCEPT ![s] = Idle]
  /\ UNCHANGED <<hook, posts, taken, lost, unsure, answers>>

\* The update that follows the answer fails and the catch takes it for a failed
\* request.  In a request the transaction is lost with it.
RecordFails(s) ==
  /\ slot[s].step = "record"
  /\ ~slot[s].request
  /\ slot' = [slot EXCEPT ![s].step = "catch", ![s].result = "again"]
  /\ UNCHANGED <<hook, row, posts, taken, lost, unsure, answers>>

\* The same, but the update was committed and only its answer is lost.
RecordUnsure(s) ==
  /\ slot[s].step = "record"
  /\ ~slot[s].request
  /\ answers < MaxUnsure
  /\ Update(slot[s])
  /\ slot' = [slot EXCEPT ![s].step = "catch", ![s].result = "again"]
  /\ unsure' = unsure \cup {slot[s].d}
  /\ answers' = answers + 1
  /\ UNCHANGED <<hook, posts, taken, lost>>

\* A crash, a database error or a secret that cannot be read ends the work.
Lose(s) ==
  /\ slot[s].step # "idle"
  /\ slot' = [slot EXCEPT ![s] = Idle]
  /\ lost' = lost \cup {slot[s].d}
  /\ UNCHANGED <<hook, row, posts, taken, unsure, answers>>

Waits(d) == row[d].wait # None /\ row[d].wait # 0

Tick ==
  /\ \E d \in Delivery : Waits(d)
  /\ row' = [d \in Delivery |-> IF Waits(d) THEN [row[d] EXCEPT !.wait = row[d].wait - 1] ELSE row[d]]
  /\ UNCHANGED <<hook, slot, posts, taken, lost, unsure, answers>>

-----------------------------------------------------------------------------
Work(s) ==
  \/ CreateDelivery(s)
  \/ Look(s)
  \/ Post(s)
  \/ Record(s)

Next ==
  \/ \E h \in Webhook, v \in Settings : SetHook(h, v)
  \/ \E s \in Slot :
       \/ \E d \in Delivery, h \in Webhook : Handle(s, d, h) \/ Test(s, d, h)
       \/ \E d0, d \in Delivery : Replay(s, d0, d)
       \/ \E d \in Delivery : ClaimDue(s, d)
       \/ Work(s)
       \/ RecordFails(s)
       \/ RecordUnsure(s)
       \/ Lose(s)
  \/ Tick

Spec == Init /\ [][Next]_vars

\* The timer fires, its drain claims what is due, posts time out, time passes.
Fairness ==
  /\ WF_vars(Tick)
  /\ \A s \in Slot : WF_vars(Work(s))
  /\ \A d \in Delivery : WF_vars(\E s \in Slot : ClaimDue(s, d))

FairSpec == Spec /\ Fairness

-----------------------------------------------------------------------------
(* Properties.                                                             *)

TypeOK ==
  /\ hook \in [Webhook -> Settings]
  /\ row \in [Delivery -> Row]
  /\ slot \in [Slot -> Task]
  /\ posts \in [Delivery -> Nat]
  /\ taken \subseteq Delivery
  /\ lost \subseteq Delivery
  /\ unsure \subseteq Delivery
  /\ answers \in Nat

\* No delivery is posted more often than the policy allows, over claims, lost work
\* and updates that fail, as long as none of its updates lost its answer.
AttemptsBounded == \A d \in Delivery : d \notin unsure => posts[d] <= MaxAttempts

\* Two tasks work on the same delivery only after an update whose answer was lost: the
\* one whose catch is still to come, and one that claimed what it wrote.
OneTask ==
  \A s, t \in {u \in Slot : slot[u].step # "idle"} :
    slot[s].d = slot[t].d /\ slot[s].d \notin unsure => s = t

\* What is recorded as delivered was taken by the endpoint.
DeliveredIsTrue == \A d \in Delivery : row[d].status = "delivered" => d \in taken

\* A delivered or abandoned delivery stays as it is: what is left of a replay, a
\* retry, a lost task or an update that failed does not reopen it.  The one exception is
\* an update whose answer was lost: the catch overwrites what it wrote.
SettledIsFinal ==
  [][\A d \in Delivery :
       row[d].status \in {"delivered", "abandoned"} /\ d \notin unsure => row'[d] = row[d]]_vars

Stranded(d) ==
  /\ row[d].status \in {"in_progress", "failed"}
  /\ row[d].wait = None
  /\ \A s \in Slot : slot[s].step # "idle" => slot[s].d # d

\* "No further attempt scheduled means the delivery is done retrying": a delivery
\* that nobody works on and that waits for nothing is delivered or abandoned, unless
\* its work was lost; a change of settings, a replay, and an update that fails or loses
\* its answer leave none behind, even when two tasks write over each other.
OnlyLossStrands == \A d \in Delivery \ lost : ~Stranded(d)

\* Every delivery whose work is not lost ends up delivered or abandoned.
EveryDeliverySettles ==
  \A d \in Delivery :
    row[d].status # "none" ~> row[d].status \in {"delivered", "abandoned"} \/ d \in lost

-----------------------------------------------------------------------------
(* The inductive invariant.                                                *)

\* Work on a row holds it in progress, at the attempt the row counts, until an update
\* loses its answer.
WorkHoldsRow ==
  \A s \in Slot :
    slot[s].step # "idle" =>
      /\ slot[s].d \in Delivery /\ slot[s].hook \in Webhook
      /\ slot[s].attempt \in 1..MaxAttempts
      /\ slot[s].request => slot[s].step \in {"post", "record"}
      /\ IF slot[s].step = "create" \/ slot[s].request
         THEN row[slot[s].d].status = "none" /\ slot[s].attempt = 1
         ELSE /\ row[slot[s].d].status # "none"
              /\ slot[s].d \notin unsure => /\ row[slot[s].d].status = "in_progress"
                                          /\ row[slot[s].d].attempt = slot[s].attempt

\* A row that waits has an attempt left; one that is not there has no update.
RowsWithinPolicy ==
  \A d \in Delivery :
    /\ row[d].attempt <= MaxAttempts
    /\ row[d].status # "none" => row[d].hook \in Webhook
    /\ row[d].status = "failed" => row[d].attempt < MaxAttempts
    /\ row[d].status = "failed" <=> row[d].wait # None
    /\ row[d].status = "none" => d \notin unsure

PostsCounted ==
  /\ \A d \in Delivery :
       row[d].status # "none" /\ d \notin unsure => posts[d] <= row[d].attempt
  /\ \A s \in Slot :
       slot[s].step # "idle" /\ slot[s].d \notin unsure =>
         IF slot[s].step \in {"create", "look", "post"}
         THEN posts[slot[s].d] < slot[s].attempt
         ELSE posts[slot[s].d] <= slot[s].attempt

OkWasTaken ==
  \A s \in Slot :
    slot[s].step \in {"record", "catch"} /\ slot[s].result = "ok" => slot[s].d \in taken

IInv ==
  /\ TypeOK
  /\ OneTask
  /\ WorkHoldsRow
  /\ RowsWithinPolicy
  /\ PostsCounted
  /\ OkWasTaken
  /\ AttemptsBounded
  /\ DeliveredIsTrue
=============================================================================
