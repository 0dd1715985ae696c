--------------------------- MODULE WebhooksProofs ---------------------------
(***************************************************************************)
(* Proofs about Webhooks, for any number of endpoints, deliveries and      *)
(* tasks at the same time, and any retry policy.                           *)
(***************************************************************************)
EXTENDS Webhooks, TLAPS

-----------------------------------------------------------------------------
(* The inductive invariant, task by task and delivery by delivery.         *)

TaskAt(s) ==
  /\ slot[s] \in Task
  /\ slot[s].step # "idle" =>
       /\ slot[s].d \in Delivery /\ slot[s].hook \in Webhook
       /\ slot[s].attempt \in 1..MaxAttempts
       /\ slot[s].request => slot[s].step \in {"post", "record"}
       /\ IF slot[s].step = "create" \/ slot[s].request
          THEN row[slot[s].d].status = "none" /\ slot[s].attempt = 1
          ELSE /\ row[slot[s].d].status # "none"
               /\ slot[s].d \notin unsure =>
                    row[slot[s].d].status = "in_progress" /\ row[slot[s].d].attempt = slot[s].attempt
       /\ slot[s].d \notin unsure =>
            IF slot[s].step \in {"create", "look", "post"}
            THEN posts[slot[s].d] < slot[s].attempt
            ELSE posts[slot[s].d] <= slot[s].attempt
  /\ slot[s].step \in {"record", "catch"} /\ slot[s].result = "ok" => slot[s].d \in taken

DeliveryAt(d) ==
  /\ row[d] \in Row
  /\ posts[d] \in Nat
  /\ row[d].attempt <= MaxAttempts
  /\ row[d].status # "none" => row[d].hook \in Webhook
  /\ row[d].status # "none" /\ d \notin unsure => posts[d] <= row[d].attempt
  /\ row[d].status = "none" => d \notin unsure
  /\ row[d].status = "failed" => row[d].attempt < MaxAttempts
  /\ row[d].status = "failed" <=> row[d].wait # None
  /\ d \notin unsure => posts[d] <= MaxAttempts
  /\ row[d].status = "delivered" => d \in taken

Maps ==
  /\ hook \in [Webhook -> Settings]
  /\ row = [d \in Delivery |-> row[d]]
  /\ slot = [s \in Slot |-> slot[s]]
  /\ posts = [d \in Delivery |-> posts[d]]
  /\ taken \subseteq Delivery
  /\ lost \subseteq Delivery
  /\ unsure \subseteq Delivery
  /\ answers \in Nat

LEMMA InvByPart ==
  IInv <=> Maps /\ OneTask /\ (\A s \in Slot : TaskAt(s)) /\ (\A d \in Delivery : DeliveryAt(d))
<1>1. ASSUME IInv
      PROVE  Maps /\ OneTask /\ (\A s \in Slot : TaskAt(s)) /\ (\A d \in Delivery : DeliveryAt(d))
  <2>1. TypeOK /\ OneTask /\ WorkHoldsRow /\ RowsWithinPolicy /\ PostsCounted /\ OkWasTaken
        /\ AttemptsBounded /\ DeliveredIsTrue
    BY <1>1 DEF IInv
  <2>2. Maps
    BY <2>1 DEF TypeOK, Maps
  <2>3. \A s \in Slot : TaskAt(s)
    BY <2>1 DEF TypeOK, WorkHoldsRow, PostsCounted, OkWasTaken, TaskAt
  <2>4. \A d \in Delivery : DeliveryAt(d)
    BY <2>1 DEF TypeOK, RowsWithinPolicy, PostsCounted, AttemptsBounded, DeliveredIsTrue,
                DeliveryAt
  <2> QED
    BY <2>1, <2>2, <2>3, <2>4
<1>2. ASSUME Maps, OneTask, \A s \in Slot : TaskAt(s), \A d \in Delivery : DeliveryAt(d)
      PROVE  IInv
  <2>1. TypeOK
    BY <1>2 DEF Maps, TypeOK, TaskAt, DeliveryAt
  <2>2. WorkHoldsRow /\ OkWasTaken
    BY <1>2 DEF TaskAt, WorkHoldsRow, OkWasTaken
  <2>3. RowsWithinPolicy /\ AttemptsBounded /\ DeliveredIsTrue
    BY <1>2 DEF DeliveryAt, RowsWithinPolicy, AttemptsBounded, DeliveredIsTrue
  <2>4. PostsCounted
    BY <1>2 DEF TaskAt, DeliveryAt, PostsCounted
  <2> QED
    BY <1>2, <2>1, <2>2, <2>3, <2>4 DEF IInv
<1> QED
  BY <1>1, <1>2

LEMMA InitInv == Init => IInv
<1> SUFFICES ASSUME Init
             PROVE  /\ Maps /\ OneTask
                    /\ \A s \in Slot : TaskAt(s)
                    /\ \A d \in Delivery : DeliveryAt(d)
  BY InvByPart
<1>1. Maps
  BY DEF Init, Maps, Settings
<1>2. OneTask
  BY DEF Init, OneTask, Idle
<1>3. \A s \in Slot : TaskAt(s)
  BY DEF Init, TaskAt, Idle, Task
<1>4. \A d \in Delivery : DeliveryAt(d)
  BY WebhookAssumption DEF WebhookAssumption, Init, DeliveryAt, NoRow, Row
<1> QED
  BY <1>1, <1>2, <1>3, <1>4

\* The same of the state after a step.
LEMMA PartsGiveInv ==
  ASSUME Maps', OneTask', \A s \in Slot : TaskAt(s)', \A d \in Delivery : DeliveryAt(d)'
  PROVE  IInv'
<1>1. TypeOK'
  BY DEF Maps, TypeOK, TaskAt, DeliveryAt
<1>2. WorkHoldsRow' /\ OkWasTaken'
  BY DEF TaskAt, WorkHoldsRow, OkWasTaken
<1>3. RowsWithinPolicy' /\ AttemptsBounded' /\ DeliveredIsTrue'
  BY DEF DeliveryAt, RowsWithinPolicy, AttemptsBounded, DeliveredIsTrue
<1>4. PostsCounted'
  BY DEF TaskAt, DeliveryAt, PostsCounted
<1> QED
  BY <1>1, <1>2, <1>3, <1>4 DEF IInv

-----------------------------------------------------------------------------
(* A step of the task in slot s, which concerns delivery d.                *)

NobodyElse(s, d) ==
  d \notin unsure => \A t \in Slot \ {s} : slot[t].step # "idle" => slot[t].d # d

Step(s, d) ==
  /\ slot' = [slot EXCEPT ![s] = slot'[s]]
  /\ row' = [row EXCEPT ![d] = row'[d]]
  /\ posts' = [posts EXCEPT ![d] = posts'[d]]
  /\ taken \subseteq taken' /\ taken' \subseteq taken \cup {d}
  /\ lost' \subseteq lost \cup {d}
  /\ unsure \subseteq unsure' /\ unsure' \subseteq unsure \cup {d}
  /\ answers' \in Nat
  /\ UNCHANGED hook

LEMMA StepInv ==
  ASSUME IInv, NEW s \in Slot, NEW d \in Delivery, Step(s, d), NobodyElse(s, d),
         slot'[s].step = "idle" \/ slot'[s].d = d,
         TaskAt(s)', DeliveryAt(d)'
  PROVE  IInv'
<1>0. Maps /\ OneTask /\ (\A t \in Slot : TaskAt(t)) /\ (\A x \in Delivery : DeliveryAt(x))
  BY InvByPart
<1>1. Maps'
  BY <1>0 DEF Step, Maps
<1>2. \A t \in Slot \ {s} : slot'[t] = slot[t]
  BY <1>0 DEF Step, Maps
<1>3. \A x \in Delivery \ {d} :
        /\ row'[x] = row[x] /\ posts'[x] = posts[x]
        /\ x \in taken' <=> x \in taken
        /\ x \in unsure' <=> x \in unsure
  BY <1>0 DEF Step, Maps
<1>4. OneTask'
  BY <1>0, <1>2, <1>3 DEF OneTask, NobodyElse, Step, TaskAt
<1>5. ASSUME NEW t \in Slot PROVE TaskAt(t)'
  <2>1. CASE t = s
    BY <2>1
  <2>2. CASE t # s
    <3>1. TaskAt(t) /\ slot'[t] = slot[t]
      BY <1>0, <1>2, <2>2
    <3>2. CASE slot[t].step = "idle"
      <4>1. slot[t].d \in taken => slot[t].d \in taken'
        BY DEF Step
      <4> QED
        BY <3>1, <3>2, <4>1 DEF TaskAt
    <3>3. CASE slot[t].step # "idle" /\ slot[t].d # d
      <4>1. slot[t].d \in Delivery \ {d}
        BY <3>1, <3>3 DEF TaskAt
      <4>2. /\ row'[slot[t].d] = row[slot[t].d]
            /\ posts'[slot[t].d] = posts[slot[t].d]
            /\ slot[t].d \in taken' <=> slot[t].d \in taken
            /\ slot[t].d \in unsure' <=> slot[t].d \in unsure
        BY <1>3, <4>1
      <4> QED
        BY <3>1, <3>3, <4>2 DEF TaskAt
    <3>4. CASE slot[t].step # "idle" /\ slot[t].d = d
      <4>1. d \in unsure
        BY <2>2, <3>4 DEF NobodyElse
      <4>2. d \in unsure' /\ row[d].status # "none" /\ row'[d].status # "none"
        BY <1>0, <4>1 DEF DeliveryAt, Step
      <4>3. d \in taken => d \in taken'
        BY DEF Step
      <4> QED
        BY <3>1, <3>4, <4>1, <4>2, <4>3 DEF TaskAt
    <3> QED
      BY <3>2, <3>3, <3>4
  <2> QED
    BY <2>1, <2>2
<1>6. ASSUME NEW x \in Delivery PROVE DeliveryAt(x)'
  <2>1. CASE x = d
    BY <2>1
  <2>2. CASE x # d
    BY <1>0, <1>3, <2>2 DEF DeliveryAt
  <2> QED
    BY <2>1, <2>2
<1> QED
  BY <1>1, <1>4, <1>5, <1>6, PartsGiveInv

\* Whoever works on a delivery is alone with it.
LEMMA Alone ==
  ASSUME IInv, NEW s \in Slot, slot[s].step # "idle"
  PROVE  slot[s].d \in Delivery /\ NobodyElse(s, slot[s].d)
<1>1. OneTask /\ TaskAt(s)
  BY InvByPart
<1> QED
  BY <1>1 DEF OneTask, TaskAt, NobodyElse

LEMMA FreshAlone ==
  ASSUME NEW s \in Slot, NEW d \in Delivery, Fresh(d)
  PROVE  row[d].status = "none" /\ posts[d] = 0 /\ NobodyElse(s, d)
BY DEF Fresh, NobodyElse

\* What is due is not worked on.
LEMMA DueAlone ==
  ASSUME IInv, NEW s \in Slot, NEW d \in Delivery, Due(d)
  PROVE  NobodyElse(s, d)
<1>1. \A t \in Slot : TaskAt(t)
  BY InvByPart
<1> QED
  BY <1>1 DEF TaskAt, NobodyElse, Due

\* The frame of a step that changes slot s and may change the row of d.
LEMMA Frame ==
  ASSUME IInv, NEW s \in Slot, NEW d \in Delivery, NEW T, NEW R,
         slot' = [slot EXCEPT ![s] = T], row' = [row EXCEPT ![d] = R],
         UNCHANGED <<hook, posts, taken, lost, unsure, answers>>
  PROVE  /\ Step(s, d) /\ slot'[s] = T /\ row'[d] = R
         /\ posts'[d] = posts[d]
<1>1. Maps
  BY InvByPart
<1> QED
  BY <1>1 DEF Maps, Step

\* The same for a step that leaves the row alone.
LEMMA FrameOfSlot ==
  ASSUME IInv, NEW s \in Slot, NEW d \in Delivery, NEW T,
         slot' = [slot EXCEPT ![s] = T],
         UNCHANGED <<hook, row, posts, taken, lost, unsure, answers>>
  PROVE  Step(s, d) /\ slot'[s] = T /\ DeliveryAt(d)'
<1>1. Maps /\ DeliveryAt(d)
  BY InvByPart
<1>2. Step(s, d) /\ slot'[s] = T
  BY <1>1 DEF Maps, Step
<1>3. DeliveryAt(d)'
  BY <1>1 DEF DeliveryAt
<1> QED
  BY <1>2, <1>3

-----------------------------------------------------------------------------
(* One lemma per action.                                                   *)

\* A new task for a delivery nobody has heard of.
LEMMA NewTaskInv ==
  ASSUME IInv, NEW s \in Slot, NEW d \in Delivery, NEW h \in Webhook, NEW step, NEW request,
         Fresh(d),
         (step = "create" /\ request = FALSE) \/ (step = "post" /\ request = TRUE),
         slot' = [slot EXCEPT ![s] = NewTask(step, d, h, request)],
         UNCHANGED <<hook, row, posts, taken, lost, unsure, answers>>
  PROVE  IInv'
<1>1. Step(s, d) /\ slot'[s] = NewTask(step, d, h, request) /\ DeliveryAt(d)'
  BY FrameOfSlot
<1>2. row[d].status = "none" /\ posts[d] = 0 /\ NobodyElse(s, d)
  BY FreshAlone
<1>3. posts'[d] = 0 /\ row'[d].status = "none" /\ 1 \in 1..MaxAttempts
  BY <1>2, WebhookAssumption DEF WebhookAssumption
<1> DEFINE T == NewTask(step, d, h, request)
<1>4. /\ T \in Task /\ T.step = step /\ T.d = d /\ T.hook = h /\ T.attempt = 1
      /\ T.request = request
  BY DEF NewTask, Task
<1> HIDE DEF T
<1>5. slot'[s] = T
  BY <1>1 DEF T
<1>6. TaskAt(s)'
  <2>1. CASE step = "create" /\ request = FALSE
    BY <1>3, <1>4, <1>5, <2>1 DEF TaskAt
  <2>2. CASE step = "post" /\ request = TRUE
    <3>1. slot'[s].request
      BY <1>4, <1>5, <2>2, Zenon
    <3>2. /\ slot'[s] \in Task /\ slot'[s].step = "post" /\ slot'[s].d = d
          /\ slot'[s].hook = h /\ slot'[s].attempt = 1
      BY <1>4, <1>5, <2>2, Zenon
    <3> QED
      BY <1>3, <3>1, <3>2 DEF TaskAt
  <2> QED
    BY <2>1, <2>2
<1> QED
  BY <1>1, <1>2, <1>4, <1>5, <1>6, StepInv

LEMMA ReplayInv ==
  ASSUME IInv, NEW s \in Slot, NEW d0 \in Delivery, NEW d \in Delivery, Replay(s, d0, d)
  PROVE  IInv'
<1>1. row[d0].hook \in Webhook
  <2>1. DeliveryAt(d0)
    BY InvByPart
  <2> QED
    BY <2>1 DEF Replay, DeliveryAt
<1> QED
  BY <1>1, NewTaskInv DEF Replay

\* A step of the worker on the delivery in its hands: what must be shown of it.
LEMMA WorkStepInv ==
  ASSUME IInv, NEW s \in Slot, NEW d \in Delivery, slot[s].step # "idle", slot[s].d = d,
         Step(s, d), slot'[s].step = "idle" \/ slot'[s].d = d,
         TaskAt(s)', DeliveryAt(d)'
  PROVE  IInv'
<1>1. NobodyElse(s, d)
  BY Alone
<1> QED
  BY <1>1, StepInv

LEMMA IdleTask == Idle \in Task /\ Idle.step = "idle"
BY DEF Idle, Task

LEMMA CreateInv ==
  ASSUME IInv, NEW s \in Slot, CreateDelivery(s)
  PROVE  IInv'
<1>1. TaskAt(s) /\ slot[s].step = "create"
  BY InvByPart DEF CreateDelivery
<1>2. PICK d \in Delivery : slot[s].d = d
  BY <1>1 DEF TaskAt
<1> DEFINE T == [slot[s] EXCEPT !.step = "post"]
           R == [status |-> "in_progress", attempt |-> 1, wait |-> None, hook |-> slot[s].hook]
<1>3. slot' = [slot EXCEPT ![s] = T] /\ row' = [row EXCEPT ![d] = R]
      /\ UNCHANGED <<hook, posts, taken, lost, unsure, answers>>
  BY <1>2 DEF CreateDelivery
<1>4. /\ T \in Task /\ T.step = "post" /\ T.d = d /\ T.hook = slot[s].hook
      /\ T.attempt = slot[s].attempt /\ T.request = slot[s].request
  BY <1>1, <1>2 DEF TaskAt, Task
<1>5. R \in Row /\ R.status = "in_progress" /\ R.attempt = 1 /\ R.wait = None
      /\ R.hook \in Webhook
  BY <1>1 DEF TaskAt, Row
<1> HIDE DEF T, R
<1>6. /\ Step(s, d) /\ slot'[s] = T /\ row'[d] = R
      /\ posts'[d] = posts[d]
  BY <1>3, Frame
<1>7. /\ DeliveryAt(d) /\ slot[s].request = FALSE /\ slot[s].hook \in Webhook
      /\ slot[s].attempt = 1 /\ posts[d] = 0
  BY <1>1, <1>2, InvByPart DEF TaskAt, DeliveryAt, Task
<1>8. TaskAt(s)'
  BY <1>4, <1>5, <1>6, <1>7, WebhookAssumption DEF WebhookAssumption, TaskAt
<1>9. DeliveryAt(d)'
  BY <1>5, <1>6, <1>7, WebhookAssumption DEF WebhookAssumption, DeliveryAt
<1> QED
  BY <1>1, <1>2, <1>4, <1>6, <1>8, <1>9, WorkStepInv

LEMMA ClaimInv ==
  ASSUME IInv, NEW s \in Slot, NEW d \in Delivery, ClaimDue(s, d)
  PROVE  IInv'
<1> DEFINE T == [step |-> "look", d |-> d, hook |-> row[d].hook,
                 attempt |-> row[d].attempt + 1, request |-> FALSE, result |-> "no"]
           R == [row[d] EXCEPT !.status = "in_progress", !.attempt = row[d].attempt + 1,
                               !.wait = None]
<1>1. slot' = [slot EXCEPT ![s] = T] /\ row' = [row EXCEPT ![d] = R]
      /\ UNCHANGED <<hook, posts, taken, lost, unsure, answers>>
  BY DEF ClaimDue
<1>2. /\ DeliveryAt(d) /\ NobodyElse(s, d) /\ row[d].status = "failed"
  BY InvByPart, DueAlone DEF ClaimDue, Due
<1>3. /\ row[d] \in Row /\ row[d].hook \in Webhook /\ row[d].attempt \in Nat
      /\ row[d].attempt < MaxAttempts /\ posts[d] \in Nat
      /\ d \notin unsure => posts[d] <= row[d].attempt
  BY <1>2 DEF DeliveryAt, Row
<1>4. /\ T \in Task /\ T.step = "look" /\ T.d = d /\ T.hook \in Webhook
      /\ T.attempt = row[d].attempt + 1 /\ T.request = FALSE
  BY <1>3 DEF Task
<1>5. /\ R \in Row /\ R.status = "in_progress" /\ R.attempt = row[d].attempt + 1
      /\ R.wait = None /\ R.hook \in Webhook
  <2>1. \A r \in Row, n \in Nat :
          LET c == [r EXCEPT !.status = "in_progress", !.attempt = n, !.wait = None]
          IN  /\ c \in Row /\ c.status = "in_progress" /\ c.attempt = n /\ c.wait = None
              /\ c.hook = r.hook
    BY DEF Row
  <2>2. row[d].attempt + 1 \in Nat
    BY <1>3
  <2> QED
    BY <1>3, <2>1, <2>2
<1> HIDE DEF T, R
<1>6. /\ Step(s, d) /\ slot'[s] = T /\ row'[d] = R
      /\ posts'[d] = posts[d]
  BY <1>1, Frame
<1>7. row[d].attempt + 1 \in 1..MaxAttempts
  BY <1>3, WebhookAssumption DEF WebhookAssumption
<1>8. TaskAt(s)'
  BY <1>1, <1>3, <1>4, <1>5, <1>6, <1>7 DEF TaskAt
<1>9. DeliveryAt(d)'
  BY <1>1, <1>2, <1>3, <1>5, <1>6, <1>7, WebhookAssumption DEF WebhookAssumption, DeliveryAt
<1> QED
  BY <1>2, <1>4, <1>6, <1>8, <1>9, StepInv

LEMMA LookInv ==
  ASSUME IInv, NEW s \in Slot, Look(s)
  PROVE  IInv'
<1>1. TaskAt(s) /\ slot[s].step = "look"
  BY InvByPart DEF Look
<1>2. PICK d \in Delivery : slot[s].d = d
  BY <1>1 DEF TaskAt
<1>3. DeliveryAt(d) /\ row[d].status # "none"
  BY <1>1, <1>2, InvByPart DEF TaskAt
<1>4. CASE Deliverable(slot[s].hook)
  <2> DEFINE T == [slot[s] EXCEPT !.step = "post"]
  <2>1. slot' = [slot EXCEPT ![s] = T] /\ UNCHANGED <<hook, row, posts, taken, lost, unsure, answers>>
    BY <1>4 DEF Look
  <2>2. /\ T \in Task /\ T.step = "post" /\ T.d = d /\ T.hook = slot[s].hook
        /\ T.attempt = slot[s].attempt /\ T.request = slot[s].request
    BY <1>1, <1>2 DEF TaskAt, Task
  <2> HIDE DEF T
  <2>3. Step(s, d) /\ slot'[s] = T /\ DeliveryAt(d)'
    BY <2>1, FrameOfSlot
  <2>4. TaskAt(s)'
    BY <1>1, <1>2, <2>1, <2>2, <2>3 DEF TaskAt
  <2> QED
    BY <1>1, <1>2, <2>2, <2>3, <2>4, WorkStepInv
<1>5. CASE ~Deliverable(slot[s].hook)
  <2> DEFINE R == [row[d] EXCEPT !.status = "abandoned", !.wait = None]
  <2>1. slot' = [slot EXCEPT ![s] = Idle] /\ row' = [row EXCEPT ![d] = R]
        /\ UNCHANGED <<hook, posts, taken, lost, unsure, answers>>
    BY <1>2, <1>5 DEF Look
  <2>2. /\ R \in Row /\ R.status = "abandoned" /\ R.attempt = row[d].attempt
        /\ R.wait = None /\ R.hook = row[d].hook
    BY <1>3 DEF DeliveryAt, Row
  <2> HIDE DEF R
  <2>3. /\ Step(s, d) /\ slot'[s] = Idle /\ row'[d] = R
        /\ posts'[d] = posts[d]
    BY <2>1, Frame
  <2>4. TaskAt(s)'
    BY <2>3, IdleTask DEF TaskAt
  <2>5. DeliveryAt(d)'
    BY <1>3, <2>1, <2>2, <2>3 DEF DeliveryAt
  <2> QED
    BY <1>1, <1>2, <2>3, <2>4, <2>5, IdleTask, WorkStepInv
<1> QED
  BY <1>4, <1>5

LEMMA PostInv ==
  ASSUME IInv, NEW s \in Slot, Post(s)
  PROVE  IInv'
<1>1. TaskAt(s) /\ slot[s].step = "post"
  BY InvByPart DEF Post
<1>2. PICK d \in Delivery : slot[s].d = d
  BY <1>1 DEF TaskAt
<1>3. PICK result \in {"ok", "again", "no"}, took \in BOOLEAN :
        /\ result = "ok" => took
        /\ slot' = [slot EXCEPT ![s] = [slot[s] EXCEPT !.step = "record", !.result = result]]
        /\ taken' = IF took THEN taken \cup {d} ELSE taken
  <2>1. \E result \in {"ok", "again", "no"}, took \in BOOLEAN :
          /\ result = "ok" => took
          /\ slot' = [slot EXCEPT ![s].step = "record", ![s].result = result]
          /\ taken' = IF took THEN taken \cup {slot[s].d} ELSE taken
    BY DEF Post
  <2>2. PICK result \in {"ok", "again", "no"}, took \in BOOLEAN :
          /\ result = "ok" => took
          /\ slot' = [slot EXCEPT ![s].step = "record", ![s].result = result]
          /\ taken' = IF took THEN taken \cup {slot[s].d} ELSE taken
    BY <2>1
  <2>3. taken' = IF took THEN taken \cup {d} ELSE taken
    BY <1>2, <2>2
  <2>4. slot' = [slot EXCEPT ![s] = [slot[s] EXCEPT !.step = "record", !.result = result]]
    BY <2>2
  <2> QED
    BY <2>2, <2>3, <2>4
<1>4. DeliveryAt(d) /\ Maps
  BY InvByPart
<1> DEFINE T == [slot[s] EXCEPT !.step = "record", !.result = result]
<1>5. /\ T \in Task /\ T.step = "record" /\ T.d = d /\ T.hook = slot[s].hook
      /\ T.attempt = slot[s].attempt /\ T.request = slot[s].request /\ T.result = result
  BY <1>1, <1>2 DEF TaskAt, Task
<1>6. slot' = [slot EXCEPT ![s] = T] /\ posts' = [posts EXCEPT ![d] = posts[d] + 1]
      /\ UNCHANGED <<hook, row, lost, unsure, answers>>
  BY <1>2, <1>3 DEF Post
<1> HIDE DEF T
<1>7. /\ Step(s, d) /\ slot'[s] = T /\ row'[d] = row[d] /\ posts'[d] = posts[d] + 1
      /\ UNCHANGED unsure
  BY <1>3, <1>4, <1>6 DEF Maps, Step
<1>8. /\ d \in taken => d \in taken'
      /\ result = "ok" => d \in taken'
  BY <1>3
<1>9. /\ posts[d] \in Nat /\ slot[s].attempt \in 1..MaxAttempts
      /\ d \notin unsure => posts[d] < slot[s].attempt
  BY <1>1, <1>2, <1>4 DEF TaskAt, DeliveryAt
<1>10. /\ posts'[d] \in Nat
       /\ d \notin unsure => posts'[d] <= slot[s].attempt /\ posts'[d] <= MaxAttempts
  BY <1>7, <1>9, WebhookAssumption DEF WebhookAssumption
<1>11. TaskAt(s)'
  BY <1>1, <1>2, <1>5, <1>7, <1>8, <1>10 DEF TaskAt
<1>12. row[d].status # "none" /\ d \notin unsure => row[d].attempt = slot[s].attempt
  BY <1>1, <1>2 DEF TaskAt
<1>13. DeliveryAt(d)'
  BY <1>4, <1>7, <1>8, <1>10, <1>12 DEF DeliveryAt
<1> QED
  BY <1>1, <1>2, <1>5, <1>7, <1>11, <1>13, WorkStepInv

\* What is recorded: delivered after an ok answer only, failed with an attempt left.
LEMMA StatusFacts ==
  ASSUME NEW t, t.result \in {"ok", "again", "no"}, NEW delay \in 1..MaxDelay
  PROVE  /\ AttemptStatus(t) \in {"failed", "delivered", "abandoned"}
         /\ AttemptStatus(t) = "delivered" => t.result = "ok"
         /\ AttemptStatus(t) = "failed" => t.attempt < MaxAttempts
         /\ (IF Retries(t) THEN delay ELSE None) \in Nat \cup {None}
         /\ AttemptStatus(t) = "failed" <=> (IF Retries(t) THEN delay ELSE None) # None
<1>1. delay \in Nat /\ delay # None
  BY WebhookAssumption DEF WebhookAssumption
<1> QED
  BY <1>1 DEF AttemptStatus, Retries

\* An update by the task in slot s: what it writes, and that the row is then as the
\* invariant wants it, whatever it was.
LEMMA UpdateRow ==
  ASSUME IInv, NEW s \in Slot, slot[s].step \in {"record", "catch"}, Update(slot[s])
  PROVE  \E R \in Row :
           /\ row' = [row EXCEPT ![slot[s].d] = R]
           /\ R.status \in {"failed", "delivered", "abandoned"}
           /\ R.status = "delivered" => slot[s].result = "ok"
           /\ R.status = "failed" => R.attempt < MaxAttempts
           /\ R.status = "failed" <=> R.wait # None
           /\ R.attempt = slot[s].attempt /\ R.hook \in Webhook
<1>1. TaskAt(s)
  BY InvByPart
<1>2. PICK delay \in 1..MaxDelay :
        row' = [row EXCEPT ![slot[s].d] = [status  |-> AttemptStatus(slot[s]),
                                           attempt |-> slot[s].attempt,
                                           wait    |-> IF Retries(slot[s]) THEN delay ELSE None,
                                           hook    |-> slot[s].hook]]
  BY DEF Update
<1> DEFINE status == AttemptStatus(slot[s])
           wait == IF Retries(slot[s]) THEN delay ELSE None
           R == [status |-> status, attempt |-> slot[s].attempt, wait |-> wait,
                 hook |-> slot[s].hook]
<1>3. /\ status \in {"failed", "delivered", "abandoned"}
      /\ status = "delivered" => slot[s].result = "ok"
      /\ status = "failed" => slot[s].attempt < MaxAttempts
      /\ wait \in Nat \cup {None}
      /\ status = "failed" <=> wait # None
  BY <1>1, StatusFacts DEF TaskAt, Task
<1>4. row' = [row EXCEPT ![slot[s].d] = R]
  BY <1>2
<1> HIDE DEF status, wait
<1>5. slot[s].attempt \in Nat /\ slot[s].hook \in Webhook
  BY <1>1 DEF TaskAt, Task
<1>6. /\ R \in Row /\ R.status = status /\ R.attempt = slot[s].attempt /\ R.wait = wait
      /\ R.hook = slot[s].hook
  BY <1>3, <1>5 DEF Row
<1> HIDE DEF R
<1> QED
  BY <1>3, <1>4, <1>5, <1>6

LEMMA RecordInv ==
  ASSUME IInv, NEW s \in Slot, Record(s)
  PROVE  IInv'
<1>1. TaskAt(s) /\ slot[s].step \in {"record", "catch"} /\ Update(slot[s])
  BY InvByPart DEF Record
<1>2. PICK d \in Delivery : slot[s].d = d
  BY <1>1 DEF TaskAt
<1>3. PICK R \in Row :
        /\ row' = [row EXCEPT ![d] = R]
        /\ R.status \in {"failed", "delivered", "abandoned"}
        /\ R.status = "delivered" => slot[s].result = "ok"
        /\ R.status = "failed" => R.attempt < MaxAttempts
        /\ R.status = "failed" <=> R.wait # None
        /\ R.attempt = slot[s].attempt /\ R.hook \in Webhook
  BY <1>1, <1>2, UpdateRow
<1>5. slot' = [slot EXCEPT ![s] = Idle]
      /\ UNCHANGED <<hook, posts, taken, lost, unsure, answers>>
  BY DEF Record
<1>6. /\ slot[s].attempt \in Nat /\ slot[s].attempt <= MaxAttempts
      /\ d \notin unsure => posts[d] <= slot[s].attempt
      /\ slot[s].result = "ok" => d \in taken
  BY <1>1, <1>2, WebhookAssumption DEF WebhookAssumption, TaskAt, Task
<1>8. Step(s, d) /\ slot'[s] = Idle /\ row'[d] = R /\ posts'[d] = posts[d]
  BY <1>3, <1>5, Frame
<1>9. TaskAt(s)'
  BY <1>8, IdleTask DEF TaskAt
<1>10. DeliveryAt(d)
  BY InvByPart
<1>11. DeliveryAt(d)'
  BY <1>3, <1>5, <1>6, <1>8, <1>10 DEF DeliveryAt
<1> QED
  BY <1>1, <1>2, <1>8, <1>9, <1>11, IdleTask, WorkStepInv

LEMMA Caught ==
  ASSUME NEW t \in Task, NEW u, u = [t EXCEPT !.step = "catch", !.result = "again"]
  PROVE  /\ u \in Task /\ u.step = "catch" /\ u.d = t.d /\ u.hook = t.hook
         /\ u.attempt = t.attempt /\ u.request = t.request /\ u.result = "again"
BY DEF Task

LEMMA RecordFailsInv ==
  ASSUME IInv, NEW s \in Slot, RecordFails(s)
  PROVE  IInv'
<1>1. TaskAt(s) /\ slot[s].step = "record" /\ ~slot[s].request
  BY InvByPart DEF RecordFails
<1>2. PICK d \in Delivery : slot[s].d = d
  BY <1>1 DEF TaskAt
<1> DEFINE T == [slot[s] EXCEPT !.step = "catch", !.result = "again"]
<1>3. slot' = [slot EXCEPT ![s] = T] /\ UNCHANGED <<hook, row, posts, taken, lost, unsure, answers>>
  BY DEF RecordFails
<1>0. slot[s] \in Task /\ slot[s].d = d /\ T = [slot[s] EXCEPT !.step = "catch", !.result = "again"]
  BY <1>1, <1>2 DEF TaskAt
<1> HIDE DEF T
<1>4. /\ T \in Task /\ T.step = "catch" /\ T.d = d /\ T.hook = slot[s].hook
      /\ T.attempt = slot[s].attempt /\ T.request = slot[s].request /\ T.result = "again"
  BY <1>0, Caught
<1>5. Step(s, d) /\ slot'[s] = T /\ DeliveryAt(d)'
  BY <1>3, FrameOfSlot
<1>6. TaskAt(s)'
  BY <1>1, <1>2, <1>3, <1>4, <1>5 DEF TaskAt
<1> QED
  BY <1>1, <1>2, <1>4, <1>5, <1>6, WorkStepInv

\* From here on the delivery is one of those about which less is said.
LEMMA RecordUnsureInv ==
  ASSUME IInv, NEW s \in Slot, RecordUnsure(s)
  PROVE  IInv'
<1>1. TaskAt(s) /\ slot[s].step = "record" /\ ~slot[s].request /\ Update(slot[s])
  BY InvByPart DEF RecordUnsure
<1>2. PICK d \in Delivery : slot[s].d = d
  BY <1>1 DEF TaskAt
<1>3. PICK R \in Row :
        /\ row' = [row EXCEPT ![d] = R]
        /\ R.status \in {"failed", "delivered", "abandoned"}
        /\ R.status = "delivered" => slot[s].result = "ok"
        /\ R.status = "failed" => R.attempt < MaxAttempts
        /\ R.status = "failed" <=> R.wait # None
        /\ R.attempt = slot[s].attempt /\ R.hook \in Webhook
  BY <1>1, <1>2, UpdateRow
<1> DEFINE T == [slot[s] EXCEPT !.step = "catch", !.result = "again"]
<1>0. slot[s] \in Task /\ slot[s].d = d /\ T = [slot[s] EXCEPT !.step = "catch", !.result = "again"]
  BY <1>1, <1>2 DEF TaskAt
<1>5. /\ slot' = [slot EXCEPT ![s] = T] /\ unsure' = unsure \cup {d} /\ answers' = answers + 1
      /\ UNCHANGED <<hook, posts, taken, lost>>
  BY <1>2 DEF RecordUnsure
<1> HIDE DEF T
<1>4. /\ T \in Task /\ T.step = "catch" /\ T.d = d /\ T.hook = slot[s].hook
      /\ T.attempt = slot[s].attempt /\ T.request = slot[s].request /\ T.result = "again"
  BY <1>0, Caught
<1>6. /\ slot[s].attempt \in Nat /\ slot[s].attempt <= MaxAttempts
      /\ slot[s].result = "ok" => d \in taken
  BY <1>1, <1>2, WebhookAssumption DEF WebhookAssumption, TaskAt, Task
<1>7. Maps /\ DeliveryAt(d)
  BY InvByPart
<1>8. Step(s, d) /\ slot'[s] = T /\ row'[d] = R /\ posts'[d] = posts[d] /\ d \in unsure'
  BY <1>3, <1>5, <1>7 DEF Maps, Step
<1>9. TaskAt(s)'
  BY <1>1, <1>2, <1>3, <1>4, <1>8 DEF TaskAt
<1>11. DeliveryAt(d)'
  BY <1>3, <1>5, <1>6, <1>7, <1>8 DEF DeliveryAt
<1> QED
  BY <1>1, <1>2, <1>4, <1>8, <1>9, <1>11, WorkStepInv

LEMMA LoseInv ==
  ASSUME IInv, NEW s \in Slot, Lose(s)
  PROVE  IInv'
<1>1. TaskAt(s) /\ slot[s].step # "idle"
  BY InvByPart DEF Lose
<1>2. PICK d \in Delivery : slot[s].d = d
  BY <1>1 DEF TaskAt
<1>3. Step(s, d) /\ slot'[s] = Idle /\ DeliveryAt(d)'
  <2>1. Maps /\ DeliveryAt(d)
    BY InvByPart
  <2>2. slot' = [slot EXCEPT ![s] = Idle] /\ lost' = lost \cup {d}
        /\ UNCHANGED <<hook, row, posts, taken, unsure, answers>>
    BY <1>2 DEF Lose
  <2>3. Step(s, d) /\ slot'[s] = Idle
    BY <2>1, <2>2 DEF Maps, Step
  <2> QED
    BY <2>1, <2>2, <2>3 DEF DeliveryAt
<1>4. TaskAt(s)'
  BY <1>3, IdleTask DEF TaskAt
<1> QED
  BY <1>1, <1>2, <1>3, <1>4, IdleTask, WorkStepInv

\* Time only shortens the waits.
LEMMA TickInv ==
  ASSUME IInv, Tick
  PROVE  IInv'
<1>0. Maps /\ OneTask /\ (\A s \in Slot : TaskAt(s)) /\ (\A d \in Delivery : DeliveryAt(d))
  BY InvByPart
<1>1. UNCHANGED <<hook, slot, posts, taken, lost, unsure, answers>>
  BY DEF Tick
<1>2. ASSUME NEW d \in Delivery
      PROVE  /\ row'[d] \in Row /\ row'[d].status = row[d].status
             /\ row'[d].attempt = row[d].attempt /\ row'[d].hook = row[d].hook
             /\ row'[d].wait = None <=> row[d].wait = None
  <2>1. row[d] \in Row
    BY <1>0 DEF DeliveryAt
  <2>2. CASE Waits(d)
    <3>1. row[d].wait \in Nat /\ row[d].wait - 1 \in Nat
      BY <2>1, <2>2 DEF Waits, Row
    <3>2. row[d].wait - 1 # None /\ row[d].wait # None
      BY <3>1, WebhookAssumption DEF WebhookAssumption
    <3>3. row'[d] = [row[d] EXCEPT !.wait = row[d].wait - 1]
      BY <2>2 DEF Tick
    <3>4. \A r \in Row, n \in Nat :
            LET c == [r EXCEPT !.wait = n]
            IN  /\ c \in Row /\ c.status = r.status /\ c.attempt = r.attempt
                /\ c.hook = r.hook /\ c.wait = n
      BY DEF Row
    <3> QED
      BY <2>1, <3>1, <3>2, <3>3, <3>4
  <2>3. CASE ~Waits(d)
    BY <2>1, <2>3 DEF Tick
  <2> QED
    BY <2>2, <2>3
<1>3. Maps'
  BY <1>0, <1>1 DEF Tick, Maps
<1>4. OneTask'
  BY <1>0, <1>1 DEF OneTask
<1>5. \A s \in Slot : TaskAt(s)'
  BY <1>0, <1>1, <1>2 DEF TaskAt
<1>6. \A d \in Delivery : DeliveryAt(d)'
  BY <1>0, <1>1, <1>2 DEF DeliveryAt
<1> QED
  BY <1>3, <1>4, <1>5, <1>6, PartsGiveInv

LEMMA SetHookInv ==
  ASSUME IInv, NEW h \in Webhook, NEW v \in Settings, SetHook(h, v)
  PROVE  IInv'
<1>0. Maps /\ OneTask /\ (\A s \in Slot : TaskAt(s)) /\ (\A d \in Delivery : DeliveryAt(d))
  BY InvByPart
<1>1. hook' \in [Webhook -> Settings] /\ UNCHANGED <<row, slot, posts, taken, lost, unsure, answers>>
  BY <1>0 DEF SetHook, Maps
<1>2. Maps' /\ OneTask'
  BY <1>0, <1>1 DEF Maps, OneTask
<1>3. (\A s \in Slot : TaskAt(s)') /\ (\A d \in Delivery : DeliveryAt(d)')
  BY <1>0, <1>1 DEF TaskAt, DeliveryAt
<1> QED
  BY <1>2, <1>3, PartsGiveInv

LEMMA NextInv ==
  ASSUME IInv, Next
  PROVE  IInv'
<1>1. CASE \E h \in Webhook, v \in Settings : SetHook(h, v)
  BY <1>1, SetHookInv
<1>2. CASE Tick
  BY <1>2, TickInv
<1>3. ASSUME NEW s \in Slot, NEW d \in Delivery, NEW h \in Webhook,
             Handle(s, d, h) \/ Test(s, d, h)
      PROVE  IInv'
  <2>1. CASE Handle(s, d, h)
    <3>1. Fresh(d) /\ slot' = [slot EXCEPT ![s] = NewTask("create", d, h, FALSE)]
          /\ UNCHANGED <<hook, row, posts, taken, lost, unsure, answers>>
      BY <2>1 DEF Handle
    <3> QED
      BY <3>1, NewTaskInv
  <2>2. CASE Test(s, d, h)
    <3>1. Fresh(d) /\ slot' = [slot EXCEPT ![s] = NewTask("post", d, h, TRUE)]
          /\ UNCHANGED <<hook, row, posts, taken, lost, unsure, answers>>
      BY <2>2 DEF Test
    <3> QED
      BY <3>1, NewTaskInv
  <2> QED
    BY <1>3, <2>1, <2>2
<1>4. ASSUME NEW s \in Slot, NEW d0 \in Delivery, NEW d \in Delivery, Replay(s, d0, d)
      PROVE  IInv'
  BY <1>4, ReplayInv
<1>5. ASSUME NEW s \in Slot, NEW d \in Delivery, ClaimDue(s, d)
      PROVE  IInv'
  BY <1>5, ClaimInv
<1>6. ASSUME NEW s \in Slot, Work(s) \/ RecordFails(s) \/ RecordUnsure(s) \/ Lose(s)
      PROVE  IInv'
  BY <1>6, CreateInv, LookInv, PostInv, RecordInv, RecordFailsInv, RecordUnsureInv, LoseInv DEF Work
<1> QED
  BY <1>1, <1>2, <1>3, <1>4, <1>5, <1>6 DEF Next

-----------------------------------------------------------------------------
(* The theorems.                                                           *)

\* The invariant: a task holds its delivery in progress, alone, at the attempt the row
\* counts, whatever work is lost and whatever a person replays.
THEOREM Invariance == Spec => []IInv
<1>1. ASSUME IInv, UNCHANGED vars PROVE IInv'
  BY <1>1 DEF vars, IInv, TypeOK, OneTask, WorkHoldsRow, RowsWithinPolicy, PostsCounted,
              OkWasTaken, AttemptsBounded, DeliveredIsTrue
<1> QED
  BY <1>1, InitInv, NextInv, PTL DEF Spec

\* An endpoint is never sent one delivery more often than the retry policy allows.
THEOREM PolicyRespected == Spec => []AttemptsBounded
BY Invariance, PTL DEF IInv

\* A delivery recorded as delivered was taken by its endpoint.
THEOREM DeliveredMeansTaken == Spec => []DeliveredIsTrue
BY Invariance, PTL DEF IInv

\* A task that writes a row writes one that is new or in progress.
LEMMA SettledStays ==
  ASSUME IInv, Next, NEW d \in Delivery, row[d].status \in {"delivered", "abandoned"},
         d \notin unsure
  PROVE  row'[d] = row[d]
<1>0. (\A s \in Slot : TaskAt(s)) /\ DeliveryAt(d) /\ Maps
  BY InvByPart
<1>1. CASE Tick
  <2>1. ~Waits(d)
    BY <1>0 DEF DeliveryAt, Waits
  <2> QED
    BY <1>1, <2>1 DEF Tick
<1>2. ASSUME NEW s \in Slot, NEW x \in Delivery, ClaimDue(s, x)
      PROVE  row'[d] = row[d]
  BY <1>0, <1>2 DEF ClaimDue, Due, Maps
<1>3. ASSUME NEW s \in Slot, Work(s)
      PROVE  row'[d] = row[d]
  <2>1. slot[s].d # d
    BY <1>0, <1>3 DEF TaskAt, Work, CreateDelivery, Look, Post, Record
  <2> QED
    BY <1>0, <1>3, <2>1 DEF Work, CreateDelivery, Look, Post, Record, Update, Maps
<1>5. ASSUME NEW s \in Slot, RecordUnsure(s)
      PROVE  row'[d] = row[d]
  <2>1. slot[s].d # d
    BY <1>0, <1>5 DEF TaskAt, RecordUnsure
  <2> QED
    BY <1>0, <1>5, <2>1 DEF RecordUnsure, Update, Maps
<1>4. CASE UNCHANGED row
  BY <1>4
<1> QED
  BY <1>1, <1>2, <1>3, <1>4, <1>5 DEF Next, SetHook, Handle, Test, Replay, RecordFails, Lose

\* A delivered or abandoned delivery is never reopened, unless one of its updates lost
\* its answer.
THEOREM SettledStaysSettled == Spec => SettledIsFinal
<1>1. IInv /\ [Next]_vars =>
        [\A d \in Delivery :
           row[d].status \in {"delivered", "abandoned"} /\ d \notin unsure
             => row'[d] = row[d]]_vars
  BY SettledStays
<1> QED
  BY <1>1, Invariance, PTL DEF Spec, SettledIsFinal
-----------------------------------------------------------------------------
(* No delivery is left in progress with nobody at work on it, unless its   *)
(* work was lost.                                                          *)

InWork(d) == \E s \in Slot : slot[s].step # "idle" /\ slot[s].d = d

InProgressIsInWork == \A d \in Delivery \ lost : row[d].status = "in_progress" => InWork(d)

\* What neither waits nor is worked on is in progress: a failed delivery waits.
LEMMA StrandedIsInProgress == IInv => (InProgressIsInWork <=> OnlyLossStrands)
<1> SUFFICES ASSUME IInv, NEW d \in Delivery
             PROVE  Stranded(d) <=> row[d].status = "in_progress" /\ ~InWork(d)
  BY DEF InProgressIsInWork, OnlyLossStrands
<1>1. row[d].status = "failed" <=> row[d].wait # None
  BY InvByPart DEF DeliveryAt
<1> QED
  BY <1>1 DEF Stranded, InWork

\* A slot other than s, or a slot that stays with its delivery, keeps it in work.
LEMMA StaysInWork ==
  ASSUME NEW s \in Slot, NEW d \in Delivery, NEW T, InWork(d),
         slot = [t \in Slot |-> slot[t]], slot' = [slot EXCEPT ![s] = T],
         \/ slot[s].step = "idle"
         \/ slot[s].d # d
         \/ T.step # "idle" /\ T.d = slot[s].d
  PROVE  InWork(d)'
<1>1. PICK t \in Slot : slot[t].step # "idle" /\ slot[t].d = d
  BY DEF InWork
<1>2. slot'[t].step # "idle" /\ slot'[t].d = d
  BY <1>1
<1> QED
  BY <1>2 DEF InWork

LEMMA WorkStaysInWork ==
  ASSUME IInv, InProgressIsInWork, NEW s \in Slot, Work(s),
         NEW d \in Delivery, d \notin lost, row'[d].status = "in_progress"
  PROVE  InWork(d)'
<1>1. Maps /\ TaskAt(s) /\ slot[s].step # "idle"
  BY InvByPart DEF Work, CreateDelivery, Look, Post, Record
<1>2. slot[s].d \in Delivery /\ slot[s] \in Task
  BY <1>1 DEF TaskAt
<1>3. slot = [t \in Slot |-> slot[t]] /\ row = [x \in Delivery |-> row[x]]
  BY <1>1 DEF Maps
<1>4. CASE CreateDelivery(s)
  <2> DEFINE T == [slot[s] EXCEPT !.step = "post"]
  <2>1. slot' = [slot EXCEPT ![s] = T] /\ T.step # "idle" /\ T.d = slot[s].d
    BY <1>2, <1>4 DEF CreateDelivery, Task
  <2> HIDE DEF T
  <2>2. CASE d = slot[s].d
    BY <1>3, <2>1, <2>2 DEF InWork
  <2>3. CASE d # slot[s].d
    <3>1. row'[d] = row[d]
      BY <1>3, <1>4, <2>3 DEF CreateDelivery
    <3> QED
      BY <1>3, <2>1, <3>1, StaysInWork DEF InProgressIsInWork
  <2> QED
    BY <2>2, <2>3
<1>5. CASE Look(s)
  <2>1. CASE Deliverable(slot[s].hook)
    <3> DEFINE T == [slot[s] EXCEPT !.step = "post"]
    <3>1. slot' = [slot EXCEPT ![s] = T] /\ T.step # "idle" /\ T.d = slot[s].d /\ row' = row
      BY <1>2, <1>5, <2>1 DEF Look, Task
    <3> HIDE DEF T
    <3> QED
      BY <1>3, <3>1, StaysInWork DEF InProgressIsInWork
  <2>2. CASE ~Deliverable(slot[s].hook)
    <3> DEFINE R == [row[slot[s].d] EXCEPT !.status = "abandoned", !.wait = None]
    <3>1. slot' = [slot EXCEPT ![s] = Idle] /\ row' = [row EXCEPT ![slot[s].d] = R]
      BY <1>5, <2>2 DEF Look
    <3>2. R.status = "abandoned"
      <4>1. row[slot[s].d] \in Row
        BY <1>2, InvByPart DEF DeliveryAt
      <4> QED
        BY <4>1 DEF Row
    <3> HIDE DEF R
    <3>3. d # slot[s].d /\ row'[d] = row[d]
      BY <1>2, <1>3, <3>1, <3>2
    <3> QED
      BY <1>3, <3>1, <3>3, StaysInWork DEF InProgressIsInWork
  <2> QED
    BY <2>1, <2>2
<1>6. CASE Post(s)
  <2>1. PICK result \in {"ok", "again", "no"} :
          slot' = [slot EXCEPT ![s] = [slot[s] EXCEPT !.step = "record", !.result = result]]
    BY <1>6 DEF Post
  <2> DEFINE T == [slot[s] EXCEPT !.step = "record", !.result = result]
  <2>2. slot' = [slot EXCEPT ![s] = T] /\ T.step # "idle" /\ T.d = slot[s].d /\ row' = row
    BY <1>2, <1>6, <2>1 DEF Post, Task
  <2> HIDE DEF T
  <2> QED
    BY <1>3, <2>2, StaysInWork DEF InProgressIsInWork
<1>7. CASE Record(s)
  <2>1. PICK R \in Row : row' = [row EXCEPT ![slot[s].d] = R] /\ R.status # "in_progress"
    BY <1>7, UpdateRow DEF Record
  <2>2. slot' = [slot EXCEPT ![s] = Idle]
    BY <1>7 DEF Record
  <2>3. d # slot[s].d /\ row'[d] = row[d]
    BY <1>2, <1>3, <2>1
  <2> QED
    BY <1>3, <2>2, <2>3, StaysInWork DEF InProgressIsInWork
<1> QED
  BY <1>4, <1>5, <1>6, <1>7 DEF Work

LEMMA StepStaysInWork ==
  ASSUME IInv, InProgressIsInWork, [Next]_vars
  PROVE  InProgressIsInWork'
<1> SUFFICES ASSUME NEW d \in Delivery, d \notin lost', row'[d].status = "in_progress"
             PROVE  InWork(d)'
  BY DEF InProgressIsInWork
<1>1. Maps
  BY InvByPart
<1>2. slot = [t \in Slot |-> slot[t]] /\ row = [x \in Delivery |-> row[x]]
  BY <1>1 DEF Maps
<1>3. CASE UNCHANGED vars
  BY <1>3 DEF vars, InProgressIsInWork, InWork
<1>4. CASE \E h \in Webhook, v \in Settings : SetHook(h, v)
  BY <1>4 DEF SetHook, InProgressIsInWork, InWork
<1>5. CASE Tick
  <2>1. row'[d].status = row[d].status /\ UNCHANGED <<slot, lost>>
    <3>1. row[d] \in Row
      BY InvByPart DEF DeliveryAt
    <3> QED
      BY <1>5, <3>1 DEF Tick, Row
  <2> QED
    BY <2>1 DEF InProgressIsInWork, InWork
<1>6. ASSUME NEW s \in Slot, slot[s].step = "idle", NEW T, slot' = [slot EXCEPT ![s] = T],
             UNCHANGED <<row, lost>>
      PROVE  InWork(d)'
  BY <1>2, <1>6, StaysInWork DEF InProgressIsInWork
<1>7. ASSUME NEW s \in Slot, NEW x \in Delivery, ClaimDue(s, x)
      PROVE  InWork(d)'
  <2> DEFINE T == [step |-> "look", d |-> x, hook |-> row[x].hook,
                   attempt |-> row[x].attempt + 1, request |-> FALSE, result |-> "no"]
  <2>1. slot[s].step = "idle" /\ UNCHANGED lost
        /\ row' = [row EXCEPT ![x].status = "in_progress", ![x].attempt = @ + 1, ![x].wait = None]
    BY <1>7 DEF ClaimDue
  <2>2. slot' = [slot EXCEPT ![s] = T] /\ T.step = "look" /\ T.d = x
    BY <1>7 DEF ClaimDue
  <2> HIDE DEF T
  <2>3. CASE d = x
    BY <1>2, <2>2, <2>3 DEF InWork
  <2>4. CASE d # x
    <3>1. row'[d] = row[d]
      BY <1>2, <2>1, <2>4
    <3> QED
      BY <1>2, <2>1, <2>2, <3>1, StaysInWork DEF InProgressIsInWork
  <2> QED
    BY <2>3, <2>4
<1>8. ASSUME NEW s \in Slot, Work(s)
      PROVE  InWork(d)'
  <2>1. UNCHANGED lost
    BY <1>8 DEF Work, CreateDelivery, Look, Post, Record
  <2> QED
    BY <1>8, <2>1, WorkStaysInWork
<1>9. ASSUME NEW s \in Slot, RecordFails(s)
      PROVE  InWork(d)'
  <2> DEFINE T == [slot[s] EXCEPT !.step = "catch", !.result = "again"]
  <2>1. slot[s] \in Task
    BY InvByPart DEF TaskAt
  <2>2. slot' = [slot EXCEPT ![s] = T] /\ T.step = "catch" /\ T.d = slot[s].d
        /\ UNCHANGED <<row, lost>>
    BY <1>9, <2>1, Caught DEF RecordFails
  <2> HIDE DEF T
  <2> QED
    BY <1>2, <2>2, StaysInWork DEF InProgressIsInWork
<1>12. ASSUME NEW s \in Slot, RecordUnsure(s)
       PROVE  InWork(d)'
  <2> DEFINE T == [slot[s] EXCEPT !.step = "catch", !.result = "again"]
  <2>1. slot[s] \in Task /\ slot[s].d \in Delivery
    BY <1>12, InvByPart DEF TaskAt, RecordUnsure
  <2>2. slot' = [slot EXCEPT ![s] = T] /\ T.step = "catch" /\ T.d = slot[s].d
        /\ UNCHANGED lost
    BY <1>12, <2>1, Caught DEF RecordUnsure
  <2> HIDE DEF T
  <2>3. PICK R \in Row : row' = [row EXCEPT ![slot[s].d] = R] /\ R.status # "in_progress"
    BY <1>12, UpdateRow DEF RecordUnsure
  <2>4. d # slot[s].d /\ row'[d] = row[d]
    BY <1>2, <2>1, <2>3
  <2> QED
    BY <1>2, <2>2, <2>4, StaysInWork DEF InProgressIsInWork
<1>10. ASSUME NEW s \in Slot, Lose(s)
       PROVE  InWork(d)'
  <2>1. /\ slot' = [slot EXCEPT ![s] = Idle] /\ lost' = lost \cup {slot[s].d}
        /\ UNCHANGED row
    BY <1>10 DEF Lose
  <2>2. slot[s].d # d /\ d \notin lost
    BY <2>1
  <2> QED
    BY <1>2, <2>1, <2>2, StaysInWork DEF InProgressIsInWork
<1>11. ASSUME NEW s \in Slot,
              \/ \E x \in Delivery, h \in Webhook : Handle(s, x, h) \/ Test(s, x, h)
              \/ \E x0, x \in Delivery : Replay(s, x0, x)
       PROVE  InWork(d)'
  <2>1. slot[s].step = "idle" /\ UNCHANGED <<row, lost>> /\ \E T : slot' = [slot EXCEPT ![s] = T]
    BY <1>11 DEF Handle, Test, Replay
  <2> QED
    BY <1>6, <2>1
<1> QED
  BY <1>3, <1>4, <1>5, <1>7, <1>8, <1>9, <1>10, <1>11, <1>12 DEF Next

\* A delivery with nothing scheduled and nobody at work is delivered or abandoned,
\* unless its work was lost: settings, tests, replays and failing updates strand none.
THEOREM NothingElseStrands == Spec => []OnlyLossStrands
<1>1. Init => InProgressIsInWork
  BY DEF Init, InProgressIsInWork, NoRow
<1>2. IInv /\ InProgressIsInWork /\ [Next]_vars => InProgressIsInWork'
  BY StepStaysInWork
<1>3. IInv /\ InProgressIsInWork => OnlyLossStrands
  BY StrandedIsInProgress
<1> QED
  BY <1>1, <1>2, <1>3, Invariance, PTL DEF Spec
=============================================================================
