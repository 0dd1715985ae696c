---------------------------- MODULE PendingProofs ----------------------------
(***************************************************************************)
(* What the confirmation gate and the dual control keep, for any actions,  *)
(* requests and actors.  A request changes its own record only, until it   *)
(* commits; what it commits, and what the sweep and an offboarding write,  *)
(* are rows no other request holds.                                        *)
(***************************************************************************)
EXTENDS PendingActions, TLAPS

USE PendingAssumption

OthersOK ==
  /\ due \subseteq Action
  /\ barred \subseteq Actor
  /\ runs \in [Action -> Nat]
  /\ breaks \in [Action -> Nat]
  /\ done \in [Action -> Nat]

-----------------------------------------------------------------------------
(* A request r goes from its record to w; the rows stay.                   *)
LEMMA RequestStep ==
  ASSUME Inv, OthersOK', row' = row,
         NEW r \in Request, NEW w \in Work, RequestOK(w),
         req' = [req EXCEPT ![r] = w],
         Holding(w) => Holds(r, w.action) \/ Free(w.action)
  PROVE  Inv'
<1>1. TypeOK'
  BY DEF Inv, TypeOK, OthersOK
<1>2. \A a \in Action : RowOK(a)'
  BY DEF Inv, RowOK, Sound, SecondIsAnother
<1>3. ASSUME NEW s \in Request PROVE RequestOK(req[s])'
  <2>1. req'[s] = IF s = r THEN w ELSE req[s]
    BY DEF Inv, TypeOK
  <2>2. RequestOK(IF s = r THEN w ELSE req[s])
    BY DEF Inv
  <2>3. Admitted(req[s])'
    BY <2>1, <2>2 DEF RequestOK, Admitted
  <2>4. HeldRow(req[s])'
    BY <2>1, <2>2 DEF RequestOK, HeldRow, Holding, Sound, SecondIsAnother
  <2>5. RunKnown(req[s])'
    BY <2>1, <2>2 DEF RequestOK, RunKnown
  <2> QED BY <2>3, <2>4, <2>5 DEF RequestOK
<1>4. OneHolder'
  <2> SUFFICES ASSUME NEW s \in Request, NEW t \in Request, NEW a \in Action,
                      Holds(s, a)', Holds(t, a)', s # t
               PROVE  FALSE
    BY DEF OneHolder
  <2>1. req' = [req EXCEPT ![r] = w] /\ req \in [Request -> Work]
    BY DEF Inv, TypeOK
  <2>2. CASE s = r
    <3>1. Holding(w) /\ w.action = a /\ Holds(t, a)
      BY <2>1, <2>2 DEF Holds, Holding
    <3> QED BY <3>1, <2>2 DEF Inv, OneHolder, Free
  <2>3. CASE t = r
    <3>1. Holding(w) /\ w.action = a /\ Holds(s, a)
      BY <2>1, <2>3 DEF Holds, Holding
    <3> QED BY <3>1, <2>3 DEF Inv, OneHolder, Free
  <2>4. CASE s # r /\ t # r
    <3>1. Holds(s, a) /\ Holds(t, a)
      BY <2>1, <2>4 DEF Holds, Holding
    <3> QED BY <3>1 DEF Inv, OneHolder
  <2> QED BY <2>2, <2>3, <2>4
<1> QED BY <1>1, <1>2, <1>3, <1>4 DEF Inv

(* Rows change that nobody holds, and keep who asked and of which kind.    *)
RowStep(old, new) ==
  old.status # "none" => /\ new.status # "none" /\ new.kind = old.kind
                          /\ new.by = old.by /\ new.early = old.early

LEMMA RowsStep ==
  ASSUME Inv, OthersOK', req' = req, row' \in [Action -> Row],
         \A a \in Action : RowOK(a)',
         \A a \in Action : RowStep(row[a], row'[a]),
         \A a \in Action : Free(a) \/ row'[a] = row[a]
  PROVE  Inv'
<1>1. TypeOK'
  BY DEF Inv, TypeOK, OthersOK
<1>2. ASSUME NEW r \in Request PROVE RequestOK(req[r])'
  <2> DEFINE w == req[r]
  <2>1. RequestOK(w) /\ w \in Work
    BY DEF Inv, TypeOK
  <2>2. Holding(w) => row'[w.action] = row[w.action]
    <3> SUFFICES ASSUME Holding(w) PROVE row'[w.action] = row[w.action]
      OBVIOUS
    <3>1. w.action \in Action
      BY <2>1 DEF RequestOK, Admitted, Holding
    <3>2. Holds(r, w.action)
      BY DEF Holds
    <3> QED BY <3>1, <3>2 DEF Free
  <2>3. Admitted(w)'
    BY <2>1 DEF RequestOK, Admitted, RowStep
  <2>4. HeldRow(w)'
    BY <2>1, <2>2 DEF RequestOK, HeldRow, Holding, Sound, SecondIsAnother
  <2>5. RunKnown(w)'
    BY <2>1 DEF RequestOK, RunKnown
  <2> QED BY <2>3, <2>4, <2>5 DEF RequestOK
<1>3. OneHolder'
  BY DEF Inv, OneHolder, Holds, Holding
<1> QED BY <1>1, <1>2, <1>3 DEF Inv

LEMMA RowsStay ==
  ASSUME Inv, OthersOK', req' = req, row' = row
  PROVE  Inv'
<1>1. row \in [Action -> Row] /\ \A a \in Action : RowOK(a)
  BY DEF Inv, TypeOK
<1>2. \A a \in Action : RowOK(a)'
  BY <1>1 DEF RowOK, Sound, SecondIsAnother
<1> QED BY <1>1, <1>2, RowsStep DEF RowStep

-----------------------------------------------------------------------------
(* The steps of a request.                                                 *)

Steps == {"idle", "approve", "cancel", "second", "consume", "approved", "ready",
          "running", "reply"}

LEMMA ChangesStep ==
  ASSUME Inv, NEW r \in Request, NEW step \in Steps, NEW new \in Row,
         Changes(r, step, new), req[r].at # "idle",
         RequestOK([req[r] EXCEPT !.at = step, !.row = new]),
         Holds(r, req[r].action) \/ Free(req[r].action)
  PROVE  Inv'
<1> DEFINE w == [req[r] EXCEPT !.at = step, !.row = new]
<1>1. req[r] \in Work /\ req \in [Request -> Work]
  BY DEF Inv, TypeOK
<1>2. w \in Work /\ w.action = req[r].action
  BY <1>1 DEF Work, Steps
<1>3. req' = [req EXCEPT ![r] = w] /\ row' = row
  BY <1>1 DEF Changes, Work
<1>4. OthersOK'
  BY DEF Changes, OthersOK, Inv, TypeOK
<1> QED BY <1>2, <1>3, <1>4, RequestStep

\* What is known of a request at work on action a.
LEMMA AtWork ==
  ASSUME Inv, NEW r \in Request, NEW a, req[r].at # "idle", req[r].action = a
  PROVE  /\ req[r] \in Work /\ req[r].row \in Row
         /\ a \in Action /\ row[a] \in Row /\ RowOK(a)
         /\ RequestOK(req[r])
<1>1. req[r] \in Work /\ RequestOK(req[r])
  BY DEF Inv, TypeOK
<1>2. a \in Action
  BY <1>1 DEF RequestOK, Admitted
<1> QED BY <1>1, <1>2 DEF Inv, TypeOK, Work, PendingAssumption

LEMMA AskStep ==
  ASSUME Inv, NEW r \in Request, NEW op \in {"approve", "cancel", "second", "consume"},
         NEW a \in Action, NEW x \in Actor, Ask(r, op, a, x)
  PROVE  Inv'
<1> DEFINE w == [Idle EXCEPT !.at = op, !.action = a, !.actor = x, !.intime = a \notin due]
<1>1. w \in Work
  BY DEF Work, Idle, Row, NoRow
<1>2. RequestOK(w)
  BY DEF Ask, May, CanApprove, RequestOK, Admitted, HeldRow, Holding, RunKnown, Idle
<1>3. OthersOK' /\ row' = row /\ req' = [req EXCEPT ![r] = w]
  BY DEF Ask, Inv, TypeOK, OthersOK
<1>4. ~Holding(w)
  BY DEF Holding, Idle
<1> QED BY <1>1, <1>2, <1>3, <1>4, RequestStep

LEMMA DecideStep ==
  ASSUME Inv, NEW r \in Request, NEW a \in Action,
         Approve(r, a) \/ Cancel(r, a) \/ SecondApproval(r, a) \/ Consume(r, a)
  PROVE  Inv'
<1>1. req[r].at \in {"approve", "cancel", "second", "consume"} /\ req[r].action = a /\ Free(a)
  BY DEF Approve, Cancel, SecondApproval, Consume
<1>2. /\ req[r] \in Work /\ row[a] \in Row /\ RowOK(a) /\ RequestOK(req[r])
  BY <1>1, AtWork
<1>3. ~req[r].ran /\ ~req[r].wrote
  BY <1>1, <1>2 DEF RequestOK, RunKnown, Work
<1>4. CASE Approve(r, a)
  <2> DEFINE new == [row[a] EXCEPT !.status = "approved", !.approver = req[r].actor]
  <2>1. Changes(r, "approved", new) /\ Approvable(a) /\ req[r].at = "approve"
    BY <1>4 DEF Approve
  <2>2. new \in Row
    BY <1>1, <1>2, <2>1 DEF Row, RequestOK, Admitted
  <2>3. Sound(new) /\ new.status = "approved" /\ new.kind = row[a].kind /\ new.by = row[a].by
        /\ new.early = row[a].early
        /\ new.used = row[a].used
    BY <1>2 DEF RowOK, Sound, SecondIsAnother, Row
  <2> HIDE DEF new
  <2>4. RequestOK([req[r] EXCEPT !.at = "approved", !.row = new])
    BY <1>1, <1>2, <1>3, <2>1, <2>3
       DEF RequestOK, Admitted, HeldRow, RunKnown, Holding, Approvable, Work
  <2> QED BY <1>1, <2>1, <2>2, <2>4, ChangesStep DEF Steps
<1>5. CASE Cancel(r, a)
  <2> DEFINE new == [row[a] EXCEPT !.status = "cancelled"]
  <2>1. Changes(r, "reply", new) /\ row[a].status \in Open
    BY <1>5 DEF Cancel
  <2>2. new \in Row
    BY <1>2 DEF Row
  <2>3. Sound(new) /\ new.status = "cancelled" /\ new.kind = row[a].kind /\ new.by = row[a].by
        /\ new.early = row[a].early
        /\ new.used = row[a].used
    BY <1>2 DEF RowOK, Sound, SecondIsAnother, Row
  <2> HIDE DEF new
  <2>4. RequestOK([req[r] EXCEPT !.at = "reply", !.row = new])
    BY <1>1, <1>2, <1>3, <2>1, <2>3
       DEF RequestOK, Admitted, HeldRow, RunKnown, Holding, Open, Work
  <2> QED BY <1>1, <2>1, <2>2, <2>4, ChangesStep DEF Steps
<1>6. CASE SecondApproval(r, a)
  <2> DEFINE new == IF req[r].intime
                    THEN [row[a] EXCEPT !.status = "approved", !.second = req[r].actor]
                    ELSE [row[a] EXCEPT !.status = "expired"]
  <2>1. Changes(r, "reply", new) /\ Approvable(a) /\ req[r].at = "second"
    BY <1>6 DEF SecondApproval
  <2>2. req[r].actor \in Admin \ {row[a].by} /\ row[a].kind = "crown"
    BY <1>1, <1>2, <2>1 DEF RequestOK, Admitted
  <2>3. new \in Row
    BY <1>2, <2>2 DEF Row, PendingAssumption
  <2>4. Sound(new) /\ new.status \in {"approved", "expired"} /\ new.kind = row[a].kind
        /\ new.by = row[a].by /\ new.early = row[a].early /\ new.used = row[a].used
    BY <1>2, <2>2 DEF RowOK, Sound, SecondIsAnother, Row, PendingAssumption
  <2> HIDE DEF new
  <2>5. RequestOK([req[r] EXCEPT !.at = "reply", !.row = new])
    BY <1>1, <1>2, <1>3, <2>1, <2>4
       DEF RequestOK, Admitted, HeldRow, RunKnown, Holding, Approvable, Work
  <2> QED BY <1>1, <2>1, <2>3, <2>5, ChangesStep DEF Steps
<1>7. CASE Consume(r, a)
  <2>1. req[r].at = "consume" /\ row[a].kind = "crown" /\ ~row[a].used
        /\ row[a].status \notin {"executing", "executed", "failed"} /\ row[a].status # "none"
    BY <1>1, <1>2, <1>7 DEF Consume, Consumable, RequestOK, Admitted, RowOK, Sound
  <2>2. CASE Consumable(a) /\ Changes(r, "ready", [row[a] EXCEPT !.used = TRUE])
    <3> DEFINE new == [row[a] EXCEPT !.used = TRUE]
    <3>1. new \in Row
      BY <1>2 DEF Row
    <3>2. Sound(new) /\ new.status = row[a].status /\ new.kind = row[a].kind
          /\ new.by = row[a].by /\ new.early = row[a].early /\ new.used
      BY <1>2, <2>2 DEF RowOK, Sound, SecondIsAnother, Consumable, Row
    <3> HIDE DEF new
    <3>3. RequestOK([req[r] EXCEPT !.at = "ready", !.row = new])
      BY <1>1, <1>2, <1>3, <2>1, <3>2
         DEF RequestOK, Admitted, HeldRow, RunKnown, Holding, Work
    <3> QED BY <1>1, <2>2, <3>1, <3>3, ChangesStep DEF Steps, new
  <2>3. CASE Changes(r, "reply", [row[a] EXCEPT !.status = "expired"])
    <3> DEFINE new == [row[a] EXCEPT !.status = "expired"]
    <3>1. new \in Row
      BY <1>2 DEF Row
    <3>2. Sound(new) /\ new.status = "expired" /\ new.kind = row[a].kind
          /\ new.by = row[a].by /\ new.early = row[a].early /\ new.used = row[a].used
      BY <1>2 DEF RowOK, Sound, SecondIsAnother, Row
    <3> HIDE DEF new
    <3>3. RequestOK([req[r] EXCEPT !.at = "reply", !.row = new])
      BY <1>1, <1>2, <1>3, <2>1, <3>2
         DEF RequestOK, Admitted, HeldRow, RunKnown, Holding, Work
    <3> QED BY <1>1, <2>3, <3>1, <3>3, ChangesStep DEF Steps, new
  <2> QED BY <1>7, <2>2, <2>3 DEF Consume
<1> QED BY <1>4, <1>5, <1>6, <1>7

(* Refused and Abort end a request and leave the rows alone.               *)
LEMMA EndStep ==
  ASSUME Inv, OthersOK', NEW r \in Request, req' = [req EXCEPT ![r] = Idle], row' = row
  PROVE  Inv'
<1>1. Idle \in Work
  BY DEF Work, Idle, Row, NoRow
<1>2. RequestOK(Idle) /\ ~Holding(Idle)
  BY DEF Idle, RequestOK, Admitted, HeldRow, Holding, RunKnown
<1> QED BY <1>1, <1>2, RequestStep

\* The record w of a request that holds its row, changed to step and new.
LEMMA HolderStep ==
  ASSUME Inv, NEW r \in Request, NEW a \in Action, Holds(r, a), NEW w \in Work,
         w.action = a, OthersOK', req' = [req EXCEPT ![r] = w], row' = row, RequestOK(w)
  PROVE  Inv'
BY RequestStep DEF Holds

\* What is known of a row the request holds.
LEMMA Holder ==
  ASSUME Inv, NEW r \in Request, NEW a, Holds(r, a)
  PROVE  /\ req[r] \in Work /\ req[r].row \in Row /\ row[a] \in Row
         /\ a \in Action /\ RowOK(a) /\ RequestOK(req[r]) /\ HeldRow(req[r])
         /\ req[r].action = a /\ req[r].at # "idle"
BY AtWork DEF Holds, Holding, RequestOK

\* An outcome the work may have; it has written where it succeeded.
LEMMA OutcomeKept ==
  ASSUME NEW w \in Row, NEW ok \in BOOLEAN, Sound(w)
  PROVE  LET new == Completed(w, ok) IN
         /\ new \in Row /\ Sound(new)
         /\ new.kind = w.kind /\ new.by = w.by /\ new.early = w.early /\ new.used = w.used
         /\ w.kind = "tool" => new.status = IF ok THEN "executed" ELSE "failed"
         /\ w.kind = "crown" => new = w
BY DEF Completed, Row, Sound, SecondIsAnother

LEMMA ClaimStep ==
  ASSUME Inv, NEW r \in Request, NEW a \in Action, Claim(r, a)
  PROVE  Inv'
<1>1. req[r].at = "approved" /\ Holds(r, a)
  BY DEF Claim, Holds, Holding
<1>2. req[r] \in Work /\ req[r].row \in Row /\ row[a] \in Row /\ RowOK(a) /\ RequestOK(req[r])
      /\ req[r].action = a
  BY <1>1, Holder
<1>3. /\ ~req[r].ran /\ ~req[r].wrote
      /\ row[a].status = "pending_confirmation" /\ req[r].row.status = "approved"
      /\ Sound(req[r].row)
      /\ req[r].row.kind = row[a].kind /\ req[r].row.by = row[a].by
      /\ req[r].row.early = row[a].early
      /\ row[a].used => req[r].row.used
  BY <1>1, <1>2 DEF RequestOK, RunKnown, HeldRow, Holding
<1>4. CASE Executable(a) /\ Changes(r, "ready", [req[r].row EXCEPT !.status = "executing"])
  <2> DEFINE new == [req[r].row EXCEPT !.status = "executing"]
  <2>1. new \in Row
    BY <1>2 DEF Row
  <2>2. row[a].kind = "tool" /\ ~row[a].used
    BY <1>2, <1>4 DEF Executable, RowOK, Sound, SecondIsAnother
  <2>3. /\ Sound(new) /\ new.status = "executing" /\ new.kind = row[a].kind
        /\ new.by = row[a].by /\ new.early = row[a].early
        /\ row[a].used => new.used
    BY <1>2, <1>3, <2>2 DEF Sound, SecondIsAnother, Row
  <2> HIDE DEF new
  <2>4. RequestOK([req[r] EXCEPT !.at = "ready", !.row = new])
    BY <1>1, <1>2, <1>3, <2>2, <2>3 DEF RequestOK, Admitted, HeldRow, RunKnown, Holding, Work
  <2> QED BY <1>1, <1>2, <1>4, <2>1, <2>4, ChangesStep DEF Steps, new
<1>5. CASE Changes(r, "reply", req[r].row)
  <2>1. RequestOK([req[r] EXCEPT !.at = "reply", !.row = req[r].row])
    BY <1>1, <1>2, <1>3 DEF RequestOK, Admitted, HeldRow, RunKnown, Holding, Work
  <2> QED BY <1>1, <1>2, <1>5, <2>1, ChangesStep DEF Steps
<1> QED BY <1>4, <1>5 DEF Claim

LEMMA DenyStep ==
  ASSUME Inv, NEW r \in Request, Deny(r)
  PROVE  Inv'
<1> DEFINE a == req[r].action
           new == Completed(req[r].row, FALSE)
<1>1. req[r].at = "ready" /\ Holds(r, a) /\ Changes(r, "reply", new)
  BY DEF Deny, Holds, Holding
<1>2. req[r] \in Work /\ req[r].row \in Row /\ row[a] \in Row /\ RowOK(a) /\ RequestOK(req[r])
  BY <1>1, Holder
<1>3. /\ ~req[r].ran /\ ~req[r].wrote
      /\ Sound(req[r].row) /\ req[r].row.status \notin {"none", "executed"}
      /\ req[r].row.kind = row[a].kind /\ req[r].row.by = row[a].by
      /\ req[r].row.early = row[a].early
      /\ row[a].used => req[r].row.used
      /\ row[a].status \notin {"executed", "failed"}
  BY <1>1, <1>2 DEF RequestOK, RunKnown, HeldRow, Holding
<1>4. /\ new \in Row /\ Sound(new) /\ new.kind = row[a].kind /\ new.by = row[a].by
      /\ new.early = row[a].early
      /\ row[a].used => new.used
      /\ new.status \notin {"none", "executing", "executed"}
  <2> DEFINE old == req[r].row
  <2>0. old \in Row /\ Sound(old)
    BY <1>2, <1>3
  <2> HIDE DEF old
  <2>1. LET w == Completed(old, FALSE) IN
        /\ w \in Row /\ Sound(w)
        /\ w.kind = old.kind /\ w.by = old.by /\ w.early = old.early /\ w.used = old.used
        /\ old.kind = "tool" => w.status = "failed"
        /\ old.kind = "crown" => w = old
    BY <2>0, OutcomeKept
  <2>2. /\ row[a].kind \in {"tool", "crown"}
        /\ req[r].row.kind = "crown" => req[r].row.status # "executing"
    BY <1>2, <1>3 DEF Sound, Row
  <2> QED BY <1>3, <2>1, <2>2 DEF old
<1> HIDE DEF new
<1>5. RequestOK([req[r] EXCEPT !.at = "reply", !.row = new])
  BY <1>1, <1>2, <1>3, <1>4 DEF RequestOK, Admitted, HeldRow, RunKnown, Holding, Work
<1> QED BY <1>1, <1>2, <1>4, <1>5, ChangesStep DEF Steps

LEMMA RunStep ==
  ASSUME Inv, NEW r \in Request, NEW a \in Action, Run(r, a)
  PROVE  Inv'
<1> DEFINE w == [req[r] EXCEPT !.at = "running", !.ran = TRUE]
<1>1. req[r].at = "ready" /\ Holds(r, a)
  BY DEF Run, Holds, Holding
<1>2. req[r] \in Work /\ RequestOK(req[r]) /\ req[r].action = a
  BY <1>1, Holder
<1>3. w \in Work /\ w.action = a /\ RequestOK(w)
  BY <1>1, <1>2 DEF RequestOK, Admitted, HeldRow, RunKnown, Holding, Work
<1>4. OthersOK' /\ row' = row
  BY DEF Run, Inv, TypeOK, OthersOK
<1>5. req' = [req EXCEPT ![r] = w]
  BY <1>2 DEF Run, Inv, TypeOK, Work
<1> QED BY <1>1, <1>3, <1>4, <1>5, HolderStep

LEMMA FinishStep ==
  ASSUME Inv, NEW r \in Request, Finish(r)
  PROVE  Inv'
<1> DEFINE a == req[r].action
<1>1. req[r].at = "running" /\ Holds(r, a)
  BY DEF Finish, Holds, Holding
<1>2. req[r] \in Work /\ req[r].row \in Row /\ row[a] \in Row /\ RowOK(a) /\ RequestOK(req[r])
      /\ a \in Action
  BY <1>1, Holder
<1>3. PICK ok \in BOOLEAN, wrote \in BOOLEAN :
        /\ ok => wrote
        /\ req' = [req EXCEPT ![r].at = "reply", ![r].wrote = wrote,
                              ![r].row = Completed(@, ok)]
  BY DEF Finish
<1> DEFINE new == Completed(req[r].row, ok)
           w == [req[r] EXCEPT !.at = "reply", !.wrote = wrote, !.row = new]
<1>4. /\ req[r].ran
      /\ Sound(req[r].row) /\ req[r].row.status \notin {"none", "executed"}
      /\ req[r].row.kind = row[a].kind /\ req[r].row.by = row[a].by
      /\ req[r].row.early = row[a].early
      /\ row[a].used => req[r].row.used
      /\ row[a].status \notin {"executed", "failed"}
      /\ ~row[a].used
      /\ row[a].kind = "crown" => req[r].row.used
  BY <1>1, <1>2 DEF RequestOK, RunKnown, HeldRow, Holding
<1>5. /\ new \in Row /\ Sound(new) /\ new.kind = row[a].kind /\ new.by = row[a].by
      /\ new.early = row[a].early
      /\ row[a].used => new.used
      /\ new.status \notin {"none", "executing"}
      /\ new.status = "executed" => ok
      /\ row[a].kind = "tool" => new.status \in {"executed", "failed"}
      /\ row[a].kind = "crown" => new.used
  BY <1>2, <1>4, OutcomeKept DEF Sound, Row
<1>6. req' = [req EXCEPT ![r] = w]
  BY <1>2, <1>3 DEF Inv, TypeOK, Work
<1> HIDE DEF new
<1>7. w \in Work /\ w.action = a
  BY <1>2, <1>5 DEF Work
<1>8. RequestOK(w)
  BY <1>1, <1>2, <1>3, <1>4, <1>5 DEF RequestOK, Admitted, HeldRow, RunKnown, Holding, Work
<1>9. OthersOK' /\ row' = row
  BY DEF Finish, Inv, TypeOK, OthersOK
<1> QED BY <1>1, <1>2, <1>6, <1>7, <1>8, <1>9, HolderStep

(* A commit gives the row its new content and its holder back to idle.     *)
LEMMA CommitStep ==
  ASSUME Inv, NEW r \in Request, NEW a \in Action, Commit(r, a)
  PROVE  Inv'
<1> DEFINE new == req[r].row
<1>1. /\ req[r].at = "reply" /\ req[r].action = a /\ Holds(r, a)
      /\ row' = [row EXCEPT ![a] = new]
      /\ req' = [req EXCEPT ![r] = Idle]
  BY DEF Commit, Holds, Holding
<1>2. /\ req[r] \in Work /\ new \in Row /\ row[a] \in Row /\ RowOK(a)
      /\ Sound(new) /\ new.status \notin {"none", "executing"}
      /\ new.kind = row[a].kind /\ new.by = row[a].by /\ new.early = row[a].early
  BY <1>1, Holder DEF HeldRow, Holding
<1>3. /\ row \in [Action -> Row] /\ req \in [Request -> Work] /\ Idle \in Work
  BY DEF Inv, TypeOK, Work, Idle, Row, NoRow
<1>4. OthersOK'
  BY DEF Commit, Inv, TypeOK, OthersOK
<1>5. TypeOK'
  BY <1>1, <1>2, <1>3, <1>4 DEF TypeOK, OthersOK
<1>6. ASSUME NEW b \in Action PROVE RowOK(b)'
  BY <1>1, <1>2, <1>3 DEF Inv, RowOK, Sound, SecondIsAnother
<1>7. ASSUME NEW s \in Request PROVE RequestOK(req[s])'
  <2>1. CASE s = r
    BY <1>1, <1>3, <2>1 DEF RequestOK, Admitted, HeldRow, RunKnown, Holding, Idle
  <2>2. CASE s # r
    <3> DEFINE w == req[s]
    <3>1. req'[s] = w /\ RequestOK(w) /\ w \in Work
      BY <1>1, <2>2 DEF Inv, TypeOK
    <3>2. Holding(w) => row'[w.action] = row[w.action]
      <4> SUFFICES ASSUME Holding(w) PROVE row'[w.action] = row[w.action]
        OBVIOUS
      <4>1. w.action \in Action
        BY <3>1 DEF RequestOK, Admitted, Holding
      <4>2. w.action # a
        BY <1>1, <2>2 DEF Inv, OneHolder, Holds
      <4> QED BY <1>1, <1>3, <4>1, <4>2
    <3>3. w.at # "idle" =>
            /\ w.action \in Action
            /\ row'[w.action].status # "none"
            /\ row'[w.action].kind = row[w.action].kind
            /\ row'[w.action].by = row[w.action].by
            /\ row'[w.action].early = row[w.action].early
      BY <1>1, <1>2, <1>3, <3>1 DEF RequestOK, Admitted
    <3>4. Admitted(req[s])'
      BY <3>1, <3>3 DEF RequestOK, Admitted
    <3>5. HeldRow(req[s])'
      BY <3>1, <3>2 DEF RequestOK, HeldRow, Holding, Sound, SecondIsAnother
    <3>6. RunKnown(req[s])'
      BY <3>1 DEF RequestOK, RunKnown
    <3> QED BY <3>4, <3>5, <3>6 DEF RequestOK
  <2> QED BY <2>1, <2>2
<1>8. OneHolder'
  <2> SUFFICES ASSUME NEW s \in Request, NEW t \in Request, NEW b \in Action,
                      Holds(s, b)', Holds(t, b)'
               PROVE  s = t
    BY DEF OneHolder
  <2>1. s # r /\ t # r
    BY <1>1, <1>3 DEF Holds, Holding, Idle
  <2>2. Holds(s, b) /\ Holds(t, b)
    BY <1>1, <1>3, <2>1 DEF Holds, Holding
  <2> QED BY <2>2 DEF Inv, OneHolder
<1> QED BY <1>5, <1>6, <1>7, <1>8 DEF Inv

-----------------------------------------------------------------------------
(* The steps that change rows without a request.                           *)

LEMMA AskingStep ==
  ASSUME Inv, NEW a \in Action, NEW x \in Actor, NEW o \in Person \cup {None},
         \/ Queue(a, x, o) \/ QueueAfterRun(a, x, o)
         \/ x \in Admin /\ RequestApproval(a, x)
  PROVE  Inv'
<1>1. row \in [Action -> Row] /\ row[a].status = "none" /\ row[a] \in Row
  BY DEF Queue, QueueAfterRun, QueueRow, RequestApproval, Inv, TypeOK
<1>2. PICK new \in Row :
        /\ row' = [row EXCEPT ![a] = new]
        /\ new.status \in {"pending_confirmation", "cancelled"}
        /\ new.second = None /\ ~new.used
  <2>1. \A status \in {"pending_confirmation", "cancelled"}, kind \in {"tool", "crown"},
           by \in Actor, owner \in Person \cup {None}, early \in BOOLEAN :
             /\ NewRow(status, kind, by, owner, early) \in Row
             /\ NewRow(status, kind, by, owner, early).status = status
             /\ NewRow(status, kind, by, owner, early).second = None
             /\ ~NewRow(status, kind, by, owner, early).used
    <3> SUFFICES ASSUME NEW status \in {"pending_confirmation", "cancelled"},
                        NEW kind \in {"tool", "crown"}, NEW by \in Actor,
                        NEW owner \in Person \cup {None}, NEW early \in BOOLEAN
                 PROVE  /\ NewRow(status, kind, by, owner, early) \in Row
                        /\ NewRow(status, kind, by, owner, early).status = status
                        /\ NewRow(status, kind, by, owner, early).second = None
                        /\ ~NewRow(status, kind, by, owner, early).used
      OBVIOUS
    <3>1. NewRow(status, kind, by, owner, early) \in Row
      BY DEF NewRow, NoRow, Row
    <3>2. /\ NewRow(status, kind, by, owner, early).status = status
          /\ NewRow(status, kind, by, owner, early).second = None
          /\ ~NewRow(status, kind, by, owner, early).used
      BY DEF NewRow, NoRow
    <3> QED BY <3>1, <3>2
  <2>2. CASE Queue(a, x, o) \/ QueueAfterRun(a, x, o)
    <3>1. PICK status \in {"pending_confirmation", "cancelled"}, early \in BOOLEAN :
            row' = [row EXCEPT ![a] = NewRow(status, "tool", x, o, early)]
      BY <2>2 DEF Queue, QueueAfterRun, QueueRow
    <3> QED BY <2>1, <3>1
  <2>3. CASE x \in Admin /\ RequestApproval(a, x)
    BY <2>1, <2>3 DEF RequestApproval
  <2> QED BY <2>2, <2>3
<1>3. OthersOK' /\ req' = req /\ row' \in [Action -> Row]
  BY <1>1, <1>2 DEF Queue, QueueAfterRun, QueueRow, RequestApproval, Inv, TypeOK, OthersOK
<1>4. \A b \in Action : RowOK(b)'
  BY <1>1, <1>2 DEF Inv, RowOK, Sound, SecondIsAnother
<1>5. \A b \in Action : RowStep(row[b], row'[b])
  BY <1>1, <1>2 DEF RowStep
<1>6. Free(a)
  BY <1>1, Holder DEF Free, RequestOK, Admitted
<1>7. \A b \in Action : Free(b) \/ row'[b] = row[b]
  BY <1>1, <1>2, <1>6
<1> QED BY <1>3, <1>4, <1>5, <1>7, RowsStep

\* An offboarding and the sweep close rows that nobody holds.
Closed(a) ==
  \/ row'[a] = row[a]
  \/ /\ Free(a)
     /\ row[a].status \in Open
     /\ \E status \in {"cancelled", "expired"} : row'[a] = [row[a] EXCEPT !.status = status]

LEMMA ClosingStep ==
  ASSUME Inv, OthersOK', req' = req, row' = [a \in Action |-> row'[a]],
         \A a \in Action : Closed(a)
  PROVE  Inv'
<1>1. row \in [Action -> Row] /\ \A a \in Action : row[a] \in Row /\ RowOK(a)
  BY DEF Inv, TypeOK
<1>2. ASSUME NEW a \in Action
      PROVE  /\ row'[a] \in Row /\ RowOK(a)' /\ RowStep(row[a], row'[a])
             /\ Free(a) \/ row'[a] = row[a]
  BY <1>1 DEF Closed, Open, Row, RowOK, Sound, SecondIsAnother, RowStep
<1> QED BY <1>2, RowsStep

LEMMA OffboardCloses ==
  ASSUME Inv, NEW x \in Person, Offboard(x)
  PROVE  row' = [a \in Action |-> row'[a]] /\ \A a \in Action : Closed(a)
BY DEF Offboard, Closed, Approvable, Open

LEMMA SweepCloses ==
  ASSUME Inv, Sweep
  PROVE  row' = [a \in Action |-> row'[a]] /\ \A a \in Action : Closed(a)
<1>1. \A a \in Action : ~OutcomeUnknown(a)
  BY DEF Inv, RowOK, OutcomeUnknown
<1> QED BY <1>1 DEF Sweep, Closed, Expires, Open

-----------------------------------------------------------------------------
(* Every step is of one of three kinds: it leaves the rows alone, it is a  *)
(* commit, or it creates or closes rows nobody holds.                      *)

LEMMA InvInit ==
  ASSUME Init
  PROVE  Inv
<1>1. NoRow \in Row /\ Idle \in Work
  BY DEF Row, Work, Idle, NoRow
<1>2. TypeOK
  BY <1>1 DEF Init, TypeOK
<1>3. \A a \in Action : RowOK(a)
  BY DEF Init, RowOK, Sound, SecondIsAnother, NoRow
<1>4. \A r \in Request : RequestOK(req[r])
  BY DEF Init, RequestOK, Admitted, HeldRow, RunKnown, Holding, Idle
<1>5. OneHolder
  BY DEF Init, OneHolder, Holds, Holding, Idle
<1> QED BY <1>2, <1>3, <1>4, <1>5 DEF Inv

LEMMA InvNext ==
  ASSUME Inv, [Next]_vars
  PROVE  Inv'
<1>1. ASSUME NEW a \in Action, NEW x \in Actor, NEW o \in Person \cup {None},
             Queue(a, x, o) \/ QueueAfterRun(a, x, o)
      PROVE  Inv'
  BY <1>1, AskingStep
<1>2. ASSUME NEW a \in Action, NEW x \in Admin, RequestApproval(a, x)
      PROVE  Inv'
  BY <1>2, AskingStep DEF PendingAssumption
<1>3. ASSUME NEW a \in Action, Pass(a)
      PROVE  Inv'
  <2>1. OthersOK' /\ req' = req /\ row' = row
    BY <1>3 DEF Pass, Inv, TypeOK, OthersOK
  <2> QED BY <2>1, RowsStay
<1>4. ASSUME NEW r \in Request, NEW a \in Action,
             NEW op \in {"approve", "cancel", "second", "consume"}, NEW x \in Actor,
             Ask(r, op, a, x)
      PROVE  Inv'
  BY <1>4, AskStep
<1>5. ASSUME NEW r \in Request, NEW a \in Action, Serve(r, a)
      PROVE  Inv'
  <2>1. CASE Refused(r, a)
    <3>1. OthersOK' /\ req' = [req EXCEPT ![r] = Idle] /\ row' = row
      BY <2>1 DEF Refused, Inv, TypeOK, OthersOK
    <3> QED BY <3>1, EndStep
  <2> QED BY <1>5, <2>1, DecideStep, ClaimStep, RunStep, CommitStep DEF Serve
<1>6. ASSUME NEW r \in Request, NEW a \in Action, Abort(r, a)
      PROVE  Inv'
  <2>1. OthersOK' /\ req' = [req EXCEPT ![r] = Idle] /\ row' = row
    BY <1>6 DEF Abort, Inv, TypeOK, OthersOK
  <2> QED BY <2>1, EndStep
<1>7. ASSUME NEW x \in Actor, Bar(x)
      PROVE  Inv'
  <2>1. OthersOK' /\ req' = req /\ row' = row
    BY <1>7 DEF Bar, Inv, TypeOK, OthersOK
  <2> QED BY <2>1, RowsStay
<1>8. ASSUME NEW x \in Person, Offboard(x)
      PROVE  Inv'
  <2>1. OthersOK' /\ req' = req
    BY <1>8 DEF Offboard, Inv, TypeOK, OthersOK, PendingAssumption
  <2> QED BY <1>8, <2>1, OffboardCloses, ClosingStep
<1>9. CASE Sweep
  <2>1. OthersOK' /\ req' = req
    BY <1>9 DEF Sweep, Inv, TypeOK, OthersOK
  <2> QED BY <1>9, <2>1, SweepCloses, ClosingStep
<1>10. CASE UNCHANGED vars
  <2>1. OthersOK' /\ req' = req /\ row' = row
    BY <1>10 DEF vars, Inv, TypeOK, OthersOK
  <2> QED BY <2>1, RowsStay
<1> QED BY <1>1, <1>2, <1>3, <1>4, <1>5, <1>6, <1>7, <1>8, <1>9, <1>10, DenyStep, FinishStep
       DEF Next

(* At every step one request at a time has a row, what it was admitted for *)
(* holds when it gets the row, and the dual control was kept.              *)
THEOREM Invariance == Spec => []Inv
BY InvInit, InvNext, PTL DEF Spec

(* A used approval was given by an administrator other than the requester, *)
(* also where the row went through the confirmation gate.                  *)
THEOREM SecondPerson == Spec => []DualControl
<1>1. Inv => DualControl
  BY DEF Inv, RowOK, Sound, SecondIsAnother, DualControl
<1> QED BY <1>1, Invariance, PTL

-----------------------------------------------------------------------------
(* What was done and reported.                                             *)

\* A step that commits no request and queues no work already done adds no effects and
\* undoes no outcome.
Keeps ==
  \A a \in Action :
    /\ Spent(a) => Spent(a)'
    /\ row'[a].status = "executed" => row[a].status = "executed"
    /\ Before(a)' = Before(a)

LEMMA ClosingKeeps ==
  ASSUME Inv, \A a \in Action : Closed(a)
  PROVE  Keeps
<1> SUFFICES ASSUME NEW a \in Action
             PROVE  /\ Spent(a) => Spent(a)'
                    /\ row'[a].status = "executed" => row[a].status = "executed"
                    /\ row'[a].early = row[a].early
  BY DEF Keeps, Before
<1>1. row[a] \in Row
  BY DEF Inv, TypeOK
<1>2. CASE row'[a] = row[a]
  BY <1>2 DEF Spent
<1>3. ASSUME row[a].status \in Open, NEW status \in {"cancelled", "expired"},
             row'[a] = [row[a] EXCEPT !.status = status]
      PROVE  /\ Spent(a) => Spent(a)'
             /\ row'[a].status # "executed"
             /\ row'[a].early = row[a].early
  <2>1. row'[a].status = status /\ row'[a].used = row[a].used /\ row'[a].early = row[a].early
    BY <1>1, <1>3 DEF Row
  <2> QED BY <1>3, <2>1 DEF Spent, Open
<1> QED BY <1>2, <1>3 DEF Closed

LEMMA OtherSteps ==
  ASSUME Inv, [Next]_vars,
         ~(\E r \in Request, a \in Action : Commit(r, a)),
         ~(\E a \in Action, x \in Actor, o \in Person \cup {None} : QueueAfterRun(a, x, o))
  PROVE  Keeps /\ done' = done
<1>1. ASSUME row' = row, done' = done
      PROVE  Keeps /\ done' = done
  BY <1>1 DEF Keeps, Spent, Before
<1>2. ASSUME NEW a \in Action, row[a].status = "none", done' = done,
             NEW new, row' = [row EXCEPT ![a] = new], ~new.early,
             new.status \in {"pending_confirmation", "cancelled"}
      PROVE  Keeps /\ done' = done
  <2>1. row[a] = NoRow /\ row \in [Action -> Row]
    BY <1>2 DEF Inv, RowOK, TypeOK
  <2> QED BY <1>2, <2>1 DEF Keeps, Spent, Before, NoRow
<1>3. ASSUME NEW a \in Action, NEW x, NEW o, Queue(a, x, o) \/ RequestApproval(a, x)
      PROVE  Keeps /\ done' = done
  <2>1. PICK status \in {"pending_confirmation", "cancelled"} :
          \E kind, by, owner : row' = [row EXCEPT ![a] = NewRow(status, kind, by, owner, FALSE)]
    BY <1>3 DEF Queue, QueueRow, RequestApproval
  <2>2. PICK kind, by, owner :
        row' = [row EXCEPT ![a] = NewRow(status, kind, by, owner, FALSE)]
    BY <2>1
  <2>3. /\ ~NewRow(status, kind, by, owner, FALSE).early
        /\ NewRow(status, kind, by, owner, FALSE).status = status
    BY DEF NewRow, NoRow
  <2>4. row[a].status = "none" /\ done' = done
    BY <1>3 DEF Queue, QueueRow, RequestApproval
  <2> QED BY <1>2, <2>1, <2>2, <2>3, <2>4
<1>4. CASE Sweep
  BY <1>4, SweepCloses, ClosingKeeps DEF Sweep
<1>5. ASSUME NEW x \in Person, Offboard(x)
      PROVE  Keeps /\ done' = done
  BY <1>5, OffboardCloses, ClosingKeeps DEF Offboard
<1>6. ASSUME NEW r \in Request, NEW a \in Action, Serve(r, a) \/ Abort(r, a)
      PROVE  row' = row /\ done' = done
  BY <1>6 DEF Serve, Approve, Cancel, SecondApproval, Consume, Refused, Claim, Run, Abort, Changes
<1>7. ASSUME NEW r \in Request, Deny(r) \/ Finish(r)
      PROVE  row' = row /\ done' = done
  BY <1>7 DEF Deny, Finish, Changes
<1>8. ASSUME NEW r, NEW a, NEW op, NEW x, Ask(r, op, a, x)
      PROVE  row' = row /\ done' = done
  BY <1>8 DEF Ask
<1>9. ASSUME NEW a, Pass(a) \/ Bar(a) \/ UNCHANGED vars
      PROVE  row' = row /\ done' = done
  BY <1>9 DEF Pass, Bar, vars
<1> QED BY <1>1, <1>3, <1>4, <1>5, <1>6, <1>7, <1>8, <1>9 DEF Next

\* What a commit writes against what was there.
LEMMA CommitEffects ==
  ASSUME Inv, NEW r \in Request, NEW a \in Action, Commit(r, a)
  PROVE  /\ done' = [done EXCEPT ![a] = IF req[r].wrote THEN @ + 1 ELSE @]
         /\ \A b \in Action \ {a} : row'[b] = row[b]
         /\ Spent(a) => Spent(a)'
         /\ Before(a)' = Before(a)
         /\ req[r].ran => ~Spent(a) /\ Spent(a)'
         /\ req[r].wrote => req[r].ran
         /\ row'[a].status = "executed" => req[r].wrote
         /\ row[a].status # "executed"
<1>1. Holds(r, a) /\ req[r].at = "reply" /\ row' = [row EXCEPT ![a] = req[r].row]
  BY DEF Commit, Holds, Holding
<1>2. /\ req[r] \in Work /\ row[a] \in Row /\ HeldRow(req[r]) /\ RunKnown(req[r])
      /\ req[r].action = a /\ row \in [Action -> Row]
  BY <1>1, Holder DEF RequestOK, Inv, TypeOK
<1>3. /\ row'[a] = req[r].row
      /\ done' = [done EXCEPT ![a] = IF req[r].wrote THEN @ + 1 ELSE @]
  BY <1>1, <1>2 DEF Commit
<1>4. /\ row[a].status \notin {"executed", "failed"}
      /\ req[r].row.early = row[a].early
      /\ row[a].used => req[r].row.used
      /\ req[r].ran => /\ ~row[a].used
                       /\ req[r].row.used \/ req[r].row.status \in {"executed", "failed"}
      /\ req[r].row.status = "executed" => req[r].wrote
  BY <1>1, <1>2 DEF HeldRow, Holding, Row
<1> QED BY <1>1, <1>2, <1>3, <1>4 DEF Spent, Before, RunKnown

\* A call queued after its handler ran is new, and counts as having run once.
LEMMA EarlyEffects ==
  ASSUME Inv, NEW a \in Action, NEW x, NEW o, QueueAfterRun(a, x, o)
  PROVE  /\ done' = [done EXCEPT ![a] = @ + 1]
         /\ runs' = [runs EXCEPT ![a] = @ + 1]
         /\ breaks' = breaks /\ req' = req
         /\ \A b \in Action \ {a} : row'[b] = row[b]
         /\ ~Spent(a) /\ Before(a) = 0 /\ Before(a)' = 1
         /\ row'[a].status # "executed"
         /\ ~InHand(a)
<1>1. row[a] = NoRow /\ row \in [Action -> Row]
  BY DEF QueueAfterRun, QueueRow, Inv, RowOK, TypeOK
<1>2. PICK status \in {"pending_confirmation", "cancelled"} :
        row' = [row EXCEPT ![a] = NewRow(status, "tool", x, o, TRUE)]
  BY DEF QueueAfterRun, QueueRow
<1>3. row'[a].early /\ row'[a].status = status /\ \A b \in Action \ {a} : row'[b] = row[b]
  BY <1>1, <1>2 DEF NewRow, NoRow
<1>4. ~InHand(a)
  BY <1>1, Holder DEF InHand, RequestOK, Admitted, NoRow
<1>5. ~Spent(a) /\ Before(a) = 0
  BY <1>1 DEF Spent, Before, NoRow
<1>6. Before(a)' = 1 /\ row'[a].status # "executed"
  BY <1>2, <1>3 DEF Before
<1>7. /\ done' = [done EXCEPT ![a] = @ + 1] /\ runs' = [runs EXCEPT ![a] = @ + 1]
      /\ breaks' = breaks /\ req' = req
  BY DEF QueueAfterRun, QueueRow
<1> QED BY <1>3, <1>4, <1>5, <1>7, <1>6

LEMMA OnceNext ==
  ASSUME Inv, OnceAndReported, [Next]_vars
  PROVE  OnceAndReported'
<1>1. done \in [Action -> Nat]
  BY DEF Inv, TypeOK
<1>2. CASE \E r \in Request, a \in Action : Commit(r, a)
  <2> PICK r \in Request, a \in Action : Commit(r, a)
    BY <1>2
  <2> SUFFICES ASSUME NEW b \in Action
               PROVE  /\ done'[b] \in {Before(b)', Before(b)' + 1}
                      /\ done'[b] > Before(b)' => Spent(b)'
                      /\ row'[b].status = "executed" => done'[b] > Before(b)'
    BY DEF OnceAndReported
  <2>1. /\ done[b] \in {Before(b), Before(b) + 1} /\ Before(b) \in Nat
        /\ done[b] > Before(b) => Spent(b)
        /\ row[b].status = "executed" => done[b] > Before(b)
    BY <1>1 DEF OnceAndReported, Before
  <2>2. CASE b = a
    <3>1. done'[a] = IF req[r].wrote THEN done[a] + 1 ELSE done[a]
      BY <1>1, CommitEffects
    <3> QED BY <2>1, <2>2, <3>1, CommitEffects
  <2>3. CASE b # a
    <3>1. done'[b] = done[b] /\ row'[b] = row[b]
      BY <1>1, <2>3, CommitEffects
    <3> QED BY <2>1, <3>1 DEF Spent, Before
  <2> QED BY <2>2, <2>3
<1>3. ASSUME NEW a \in Action, NEW x, NEW o, QueueAfterRun(a, x, o)
      PROVE  OnceAndReported'
  <2> SUFFICES ASSUME NEW b \in Action
               PROVE  /\ done'[b] \in {Before(b)', Before(b)' + 1}
                      /\ done'[b] > Before(b)' => Spent(b)'
                      /\ row'[b].status = "executed" => done'[b] > Before(b)'
    BY DEF OnceAndReported
  <2>1. /\ done[b] \in {Before(b), Before(b) + 1}
        /\ done[b] > Before(b) => Spent(b)
        /\ row[b].status = "executed" => done[b] > Before(b)
    BY DEF OnceAndReported
  <2>2. CASE b = a
    <3>1. done[a] = 0 /\ done'[a] = 1
      BY <1>1, <1>3, <2>1, <2>2, EarlyEffects
    <3> QED BY <1>3, <2>2, <3>1, EarlyEffects
  <2>3. CASE b # a
    <3>1. done'[b] = done[b] /\ row'[b] = row[b]
      BY <1>1, <1>3, <2>3, EarlyEffects
    <3> QED BY <2>1, <3>1 DEF Spent, Before
  <2> QED BY <2>2, <2>3
<1>4. CASE /\ ~(\E r \in Request, a \in Action : Commit(r, a))
           /\ ~(\E a \in Action, x \in Actor, o \in Person \cup {None} : QueueAfterRun(a, x, o))
  <2>1. Keeps /\ done' = done
    BY <1>4, OtherSteps
  <2> QED BY <2>1 DEF OnceAndReported, Keeps
<1> QED BY <1>2, <1>3, <1>4

(* Approval commits the database effects of an action once at most,        *)
(* executed means that it did, and what was refused or expired has none    *)
(* but those it was queued with.                                           *)
THEOREM Once == Spec => []OnceAndReported
<1>1. Init => OnceAndReported
  BY DEF Init, OnceAndReported, Before, NoRow
<1>2. Inv /\ OnceAndReported /\ [Next]_vars => OnceAndReported'
  BY OnceNext
<1> QED BY <1>1, <1>2, Invariance, PTL DEF Spec

-----------------------------------------------------------------------------
(* Repetitions.                                                            *)

Allowed(a) == Before(a) + breaks[a] + (IF Spent(a) \/ InHand(a) THEN 1 ELSE 0)

\* A step that starts no work and ends no request that has.
Goes ==
  \A a \in Action :
    /\ Spent(a) => Spent(a)'
    /\ InHand(a) => InHand(a)'
    /\ Before(a)' = Before(a)

LEMMA GoesOn ==
  ASSUME Inv, RepeatsAreInterruptions, Goes, runs' = runs, breaks' = breaks
  PROVE  RepeatsAreInterruptions'
<1> SUFFICES ASSUME NEW a \in Action PROVE runs'[a] <= Allowed(a)'
  BY DEF RepeatsAreInterruptions, Allowed
<1>1. breaks[a] \in Nat /\ runs[a] \in Nat /\ runs[a] <= Allowed(a)
  BY DEF Inv, TypeOK, RepeatsAreInterruptions, Allowed
<1> QED BY <1>1 DEF Goes, Allowed, Before

LEMMA HandStays ==
  ASSUME NEW r \in Request, ~req[r].ran, \A s \in Request \ {r} : req'[s] = req[s],
         NEW a
  PROVE  InHand(a) => InHand(a)'
BY DEF InHand, Holds, Holding

LEMMA NotStarted ==
  ASSUME Inv, NEW r \in Request, req[r].at \notin {"running", "reply"}
  PROVE  ~req[r].ran
BY DEF Inv, RequestOK, RunKnown, TypeOK, Work

LEMMA QuietStep ==
  ASSUME Inv, [Next]_vars,
         ~(\E r \in Request, a \in Action : Run(r, a) \/ Commit(r, a) \/ Abort(r, a)),
         ~(\E a \in Action, x \in Actor, o \in Person \cup {None} : QueueAfterRun(a, x, o))
  PROVE  Goes /\ runs' = runs /\ breaks' = breaks
<1> SUFFICES runs' = runs /\ breaks' = breaks /\ \A a \in Action : InHand(a) => InHand(a)'
  BY OtherSteps DEF Goes, Keeps
<1>0. req \in [Request -> Work]
  BY DEF Inv, TypeOK
<1>1. CASE req' = req /\ runs' = runs /\ breaks' = breaks
  BY <1>1 DEF InHand, Holds, Holding
<1>2. ASSUME NEW r \in Request, req[r].at \notin {"running", "reply"},
             NEW w, req' = [req EXCEPT ![r] = w], runs' = runs, breaks' = breaks
      PROVE  runs' = runs /\ breaks' = breaks /\ \A a \in Action : InHand(a) => InHand(a)'
  BY <1>0, <1>2, NotStarted, HandStays
<1>3. ASSUME NEW r \in Request, NEW a \in Action,
             Approve(r, a) \/ Cancel(r, a) \/ SecondApproval(r, a) \/ Consume(r, a) \/ Claim(r, a)
      PROVE  runs' = runs /\ breaks' = breaks /\ \A b \in Action : InHand(b) => InHand(b)'
  <2>1. PICK step, new : Changes(r, step, new)
    BY <1>3 DEF Approve, Cancel, SecondApproval, Consume, Claim
  <2>2. req[r].at \notin {"running", "reply"}
    BY <1>3 DEF Approve, Cancel, SecondApproval, Consume, Claim
  <2>3. \A s \in Request \ {r} : req'[s] = req[s]
    BY <1>0, <2>1 DEF Changes
  <2> QED BY <2>1, <2>2, <2>3, NotStarted, HandStays DEF Changes
<1>4. ASSUME NEW r \in Request, NEW a \in Action, Refused(r, a)
      PROVE  runs' = runs /\ breaks' = breaks /\ \A b \in Action : InHand(b) => InHand(b)'
  <2>1. req[r].at \notin {"running", "reply"} /\ req' = [req EXCEPT ![r] = Idle]
        /\ runs' = runs /\ breaks' = breaks
    BY <1>4 DEF Refused
  <2> QED BY <1>2, <2>1
<1>5. ASSUME NEW r \in Request, NEW a, NEW op, NEW x, Ask(r, op, a, x)
      PROVE  runs' = runs /\ breaks' = breaks /\ \A b \in Action : InHand(b) => InHand(b)'
  <2>1. req[r].at = "idle" /\ runs' = runs /\ breaks' = breaks
        /\ \A s \in Request \ {r} : req'[s] = req[s]
    BY <1>0, <1>5 DEF Ask
  <2> QED BY <2>1, NotStarted, HandStays
<1>6. ASSUME NEW r \in Request, Finish(r)
      PROVE  runs' = runs /\ breaks' = breaks /\ \A b \in Action : InHand(b) => InHand(b)'
  <2>1. /\ req'[r].at = "reply" /\ req'[r].action = req[r].action /\ req'[r].ran = req[r].ran
        /\ \A s \in Request \ {r} : req'[s] = req[s]
        /\ runs' = runs /\ breaks' = breaks
    BY <1>0, <1>6 DEF Finish, Work
  <2> QED BY <2>1 DEF InHand, Holds, Holding
<1>7. ASSUME NEW a, NEW x, NEW o, Queue(a, x, o) \/ RequestApproval(a, x)
      PROVE  runs' = runs /\ breaks' = breaks /\ \A b \in Action : InHand(b) => InHand(b)'
  BY <1>1, <1>7 DEF Queue, QueueRow, RequestApproval
<1>8. ASSUME NEW a, Pass(a) \/ Bar(a) \/ Offboard(a)
      PROVE  runs' = runs /\ breaks' = breaks /\ \A b \in Action : InHand(b) => InHand(b)'
  BY <1>1, <1>8 DEF Pass, Bar, Offboard
<1>9. CASE Sweep \/ UNCHANGED vars
  BY <1>1, <1>9 DEF Sweep, vars
<1>10. ASSUME NEW r \in Request, NEW a \in Action, Serve(r, a)
       PROVE  runs' = runs /\ breaks' = breaks /\ \A b \in Action : InHand(b) => InHand(b)'
  <2>1. ~Run(r, a) /\ ~Commit(r, a)
    OBVIOUS
  <2> QED BY <1>3, <1>4, <1>10, <2>1 DEF Serve
<1>11. ASSUME NEW r \in Request, Deny(r)
       PROVE  runs' = runs /\ breaks' = breaks /\ \A b \in Action : InHand(b) => InHand(b)'
  <2>1. PICK step, new : Changes(r, step, new)
    BY <1>11 DEF Deny
  <2>2. req[r].at \notin {"running", "reply"}
    BY <1>11 DEF Deny
  <2>3. \A s \in Request \ {r} : req'[s] = req[s]
    BY <1>0, <2>1 DEF Changes
  <2> QED BY <2>1, <2>2, <2>3, NotStarted, HandStays DEF Changes
<1>12. CASE Next
  <2>1. ~(\E r \in Request, a \in Action : Abort(r, a))
    OBVIOUS
  <2> QED BY <1>5, <1>6, <1>7, <1>8, <1>9, <1>10, <1>11, <1>12, <2>1 DEF Next
<1> QED BY <1>9, <1>12

LEMMA RepeatsNext ==
  ASSUME Inv, RepeatsAreInterruptions, [Next]_vars
  PROVE  RepeatsAreInterruptions'
<1>0. /\ req \in [Request -> Work] /\ runs \in [Action -> Nat] /\ breaks \in [Action -> Nat]
  BY DEF Inv, TypeOK
<1>1. CASE /\ ~(\E r \in Request, a \in Action : Run(r, a) \/ Commit(r, a) \/ Abort(r, a))
           /\ ~(\E a \in Action, x \in Actor, o \in Person \cup {None} : QueueAfterRun(a, x, o))
  BY <1>1, QuietStep, GoesOn
<1>2. ASSUME NEW r \in Request, NEW a \in Action, Run(r, a)
      PROVE  RepeatsAreInterruptions'
  <2>1. req[r].at = "ready" /\ Holds(r, a) /\ row' = row /\ breaks' = breaks
        /\ runs' = [runs EXCEPT ![a] = @ + 1]
    BY <1>2 DEF Run, Holds, Holding
  <2>2. ~Spent(a)
    BY <2>1, Holder DEF HeldRow, Spent, Holding
  <2>3. ~InHand(a)
    BY <2>1, NotStarted DEF InHand, Inv, OneHolder
  <2>4. /\ req'[r].at = "running" /\ req'[r].action = a /\ req'[r].ran
        /\ \A s \in Request \ {r} : req'[s] = req[s]
    BY <1>0, <1>2 DEF Run, Work
  <2>5. InHand(a)'
    BY <2>4 DEF InHand, Holds, Holding
  <2>6. \A b \in Action : InHand(b) => InHand(b)'
    BY <2>1, <2>4, NotStarted, HandStays
  <2>7. \A b \in Action : Before(b)' = Before(b) /\ Before(b) \in Nat
    BY <2>1 DEF Before
  <2>8. ASSUME NEW b \in Action PROVE runs'[b] <= Allowed(b)'
    <3>1. runs[b] <= Allowed(b) /\ runs[b] \in Nat /\ breaks[b] \in Nat
      BY <1>0 DEF RepeatsAreInterruptions, Allowed
    <3>2. CASE b = a
      BY <1>0, <2>1, <2>2, <2>3, <2>5, <2>7, <3>1, <3>2 DEF Allowed
    <3>3. CASE b # a
      BY <1>0, <2>1, <2>6, <2>7, <3>1, <3>3 DEF Allowed, Spent
    <3> QED BY <3>2, <3>3
  <2> QED BY <2>8 DEF RepeatsAreInterruptions, Allowed
<1>3. ASSUME NEW r \in Request, NEW a \in Action, Commit(r, a)
      PROVE  RepeatsAreInterruptions'
  <2>1. Holds(r, a) /\ runs' = runs /\ breaks' = breaks
        /\ \A s \in Request \ {r} : req'[s] = req[s]
    BY <1>0, <1>3 DEF Commit, Holds, Holding
  <2>2. ASSUME NEW b \in Action PROVE Spent(b) \/ InHand(b) => Spent(b)' \/ InHand(b)'
    <3>1. CASE b = a
      <4>1. InHand(a) => req[r].ran
        BY <2>1 DEF InHand, Inv, OneHolder
      <4> QED BY <1>3, <3>1, <4>1, CommitEffects
    <3>2. CASE b # a
      <4>1. Spent(b) => Spent(b)'
        BY <1>3, <3>2, CommitEffects DEF Spent
      <4>2. InHand(b) => InHand(b)'
        BY <2>1, <3>2 DEF InHand, Holds, Holding
      <4> QED BY <4>1, <4>2
    <3> QED BY <3>1, <3>2
  <2>3. \A b \in Action : Before(b)' = Before(b) /\ Before(b) \in Nat
    BY <1>3, CommitEffects DEF Before
  <2>4. ASSUME NEW b \in Action PROVE runs'[b] <= Allowed(b)'
    BY <1>0, <2>1, <2>2, <2>3 DEF Allowed, RepeatsAreInterruptions
  <2> QED BY <2>4 DEF RepeatsAreInterruptions, Allowed
<1>4. ASSUME NEW r \in Request, NEW a \in Action, Abort(r, a)
      PROVE  RepeatsAreInterruptions'
  <2>1. /\ req[r].action = a /\ row' = row /\ runs' = runs
        /\ breaks' = [breaks EXCEPT ![a] = IF req[r].ran THEN @ + 1 ELSE @]
        /\ \A s \in Request \ {r} : req'[s] = req[s]
    BY <1>0, <1>4 DEF Abort
  <2>2. ASSUME NEW b \in Action PROVE runs'[b] <= Allowed(b)'
    <3>1. runs[b] <= Allowed(b) /\ runs[b] \in Nat /\ breaks[b] \in Nat
      BY <1>0 DEF RepeatsAreInterruptions, Allowed
    <3>2. CASE b = a /\ req[r].ran
      <4>1. breaks'[b] = breaks[b] + 1
        BY <1>0, <2>1, <3>2
      <4>2. Before(b)' = Before(b) /\ Before(b) \in Nat
        BY <2>1 DEF Before
      <4> QED BY <2>1, <3>1, <4>1, <4>2 DEF Allowed
    <3>3. CASE ~(b = a /\ req[r].ran)
      <4>1. breaks'[b] = breaks[b]
        BY <1>0, <2>1, <3>3
      <4>2. InHand(b) => InHand(b)'
        BY <2>1, <3>3 DEF InHand, Holds, Holding
      <4> QED BY <2>1, <3>1, <4>1, <4>2 DEF Allowed, Spent, Before
    <3> QED BY <3>2, <3>3
  <2> QED BY <2>2 DEF RepeatsAreInterruptions, Allowed
<1>5. ASSUME NEW a \in Action, NEW x, NEW o, QueueAfterRun(a, x, o)
      PROVE  RepeatsAreInterruptions'
  <2>1. ASSUME NEW b \in Action PROVE runs'[b] <= Allowed(b)'
    <3>1. runs[b] <= Allowed(b) /\ runs[b] \in Nat /\ breaks[b] \in Nat
      BY <1>0 DEF RepeatsAreInterruptions, Allowed
    <3>2. CASE b = a
      <4>1. runs[a] <= breaks[a]
        BY <1>5, <3>1, <3>2, EarlyEffects DEF Allowed
      <4>2. runs'[a] = runs[a] + 1 /\ breaks' = breaks /\ Before(a)' = 1
        BY <1>0, <1>5, EarlyEffects
      <4> QED BY <3>1, <3>2, <4>1, <4>2 DEF Allowed
    <3>3. CASE b # a
      <4>1. runs'[b] = runs[b] /\ breaks' = breaks /\ row'[b] = row[b] /\ req' = req
        BY <1>0, <1>5, <3>3, EarlyEffects
      <4> QED BY <3>1, <4>1 DEF Allowed, Spent, Before, InHand, Holds, Holding
    <3> QED BY <3>2, <3>3
  <2> QED BY <2>1 DEF RepeatsAreInterruptions, Allowed
<1> QED BY <1>1, <1>2, <1>3, <1>4, <1>5

(* The approved work of an action is started again only after a request    *)
(* that ran it was rolled back.                                            *)
THEOREM Repeats == Spec => []RepeatsAreInterruptions
<1>1. ASSUME Init PROVE RepeatsAreInterruptions
  BY <1>1 DEF Init, RepeatsAreInterruptions, Before, NoRow
<1>2. Inv /\ RepeatsAreInterruptions /\ [Next]_vars => RepeatsAreInterruptions'
  BY RepeatsNext
<1> QED BY <1>1, <1>2, Invariance, PTL DEF Spec
=============================================================================
