---------------------------- MODULE PendingActions ----------------------------
(***************************************************************************)
(* Actions that wait for a person: tool calls of agents and people behind  *)
(* the confirmation gate, and the dual control of administrative           *)
(* operations, which keeps its approvals in the same table.  An HTTP       *)
(* request runs in one database transaction: what it writes is seen, and   *)
(* the row it changed is unlocked, when the response is sent, and nothing  *)
(* of it remains when the request is aborted.  What the approved work did  *)
(* outside this transaction remains.                                       *)
(***************************************************************************)
EXTENDS Naturals, FiniteSets

CONSTANTS
  Action,     \* ids of pending actions
  Request,    \* HTTP requests served at the same time
  Actor,
  Person,     \* the actors that are not agents
  Admin,      \* people with an approval scope
  MaxBreaks,  \* bound on the interrupted runs of an action
  MaxBarred,  \* bound on the actors barred
  None

ASSUME PendingAssumption ==
  /\ Admin \subseteq Person
  /\ Person \subseteq Actor
  /\ None \notin Actor \cup Action
  /\ MaxBreaks \in Nat

VARIABLES
  row,     \* row[a]: the committed row of pending_actions
  due,     \* the actions whose expires_at has passed
  barred,  \* actors disabled, or whose credential or policy is no longer what it was
  req,     \* req[r]: the request and its uncommitted row
  runs,    \* runs[a]: how often the work was started (history)
  breaks,  \* breaks[a]: started runs whose request was rolled back (history)
  done     \* done[a]: commits of the work's database effects (history)

vars == <<row, due, barred, req, runs, breaks, done>>

\* kind: approval_kind; crown is 'distinct_actor'.  by, owner: requester and approval
\* owner.  approver: approver_actor_id of the confirmation gate.  second:
\* approved_by_actor_id of the dual control.  used: consumed_at is set.  early
\* (history): the work had run already in the request that asked.
Row == [status   : {"none", "pending_confirmation", "approved", "executing",
                    "executed", "failed", "cancelled", "expired"},
        kind     : {"tool", "crown"},
        by       : Actor \cup {None},
        owner    : Person \cup {None},
        approver : Person \cup {None},
        second   : Person \cup {None},
        used     : BOOLEAN,
        early    : BOOLEAN]

\* intime: the deadline had not passed when the request read the clock.  row: the
\* row as the transaction has left it.  ran, wrote: the work was started, and has
\* written to the database.
Work == [at     : {"idle", "approve", "cancel", "second", "consume",
                   "approved", "ready", "running", "reply"},
         action : Action \cup {None},
         actor  : Actor \cup {None},
         intime : BOOLEAN,
         row    : Row,
         ran    : BOOLEAN,
         wrote  : BOOLEAN]

NoRow == [status |-> "none", kind |-> "tool", by |-> None, owner |-> None,
          approver |-> None, second |-> None, used |-> FALSE, early |-> FALSE]
Idle == [at |-> "idle", action |-> None, actor |-> None, intime |-> FALSE, row |-> NoRow,
         ran |-> FALSE, wrote |-> FALSE]

Init ==
  /\ row = [a \in Action |-> NoRow]
  /\ due = {}
  /\ barred = {}
  /\ req = [r \in Request |-> Idle]
  /\ runs = [a \in Action |-> 0]
  /\ breaks = [a \in Action |-> 0]
  /\ done = [a \in Action |-> 0]

\* A request that changed the row keeps it locked until its transaction ends.
Holding(w) == w.at \in {"approved", "ready", "running", "reply"}
Holds(r, a) == Holding(req[r]) /\ req[r].action = a
\* Mutant: rows are not locked.
FreeUnlocked(a) == TRUE
Free(a) == \A r \in Request : ~Holds(r, a)

\* Open actions may be cancelled and expire.
Open == {"pending_confirmation", "approved"}

-----------------------------------------------------------------------------
(* Asking.                                                                 *)

NewRow(status, kind, x, o, early) ==
  [NoRow EXCEPT !.status = status, !.kind = kind, !.by = x, !.owner = o, !.early = early]

\* A tool call that needs confirmation.  It is cancelled at once when its audit
\* record could not be kept.
QueueRow(a, x, o, early) ==
  /\ row[a].status = "none"
  /\ x \notin barred
  /\ x \in Person => o = None
  /\ \E status \in {"pending_confirmation", "cancelled"} :
       row' = [row EXCEPT ![a] = NewRow(status, "tool", x, o, early)]
  /\ UNCHANGED <<due, barred, req, breaks>>

Queue(a, x, o) ==
  /\ QueueRow(a, x, o, FALSE)
  /\ UNCHANGED <<runs, done>>

\* The loss prevention warns about what the call returned, after its handler has run:
\* the call is queued all the same, and what the handler wrote is committed with the row.
QueueAfterRun(a, x, o) ==
  /\ QueueRow(a, x, o, TRUE)
  /\ runs' = [runs EXCEPT ![a] = @ + 1]
  /\ done' = [done EXCEPT ![a] = @ + 1]

\* An administrative operation that needs a second administrator.
RequestApproval(a, x) ==
  /\ row[a].status = "none"
  /\ x \notin barred
  /\ row' = [row EXCEPT ![a] = NewRow("pending_confirmation", "crown", x, None, FALSE)]
  /\ UNCHANGED <<due, barred, req, runs, breaks, done>>

-----------------------------------------------------------------------------
(* The requests.  Each reads the clock and the columns that never change,  *)
(* then waits for the row.                                                 *)

\* An approval of the dual control has no requester_principal: it passes for a
\* person's request.
CanApprove(a, x) ==
  /\ x \in Person
  /\ \/ x \in Admin
     \/ x = IF row[a].by \in Person \/ row[a].kind = "crown" THEN row[a].by ELSE row[a].owner

CanCancel(a, x) == x = row[a].by \/ CanApprove(a, x)

May(op, a, x) ==
  \/ op = "approve" /\ CanApprove(a, x) /\ a \notin due
  \/ op = "cancel" /\ CanCancel(a, x)
  \/ op = "second" /\ row[a].kind = "crown" /\ x \in Admin /\ x # row[a].by
  \/ op = "consume" /\ row[a].kind = "crown" /\ x = row[a].by

Ask(r, op, a, x) ==
  /\ req[r].at = "idle"
  /\ row[a].status # "none"
  /\ x \notin barred
  /\ May(op, a, x)
  /\ req' = [req EXCEPT ![r] = [Idle EXCEPT !.at = op, !.action = a, !.actor = x,
                                            !.intime = a \notin due]]
  /\ UNCHANGED <<row, due, barred, runs, breaks, done>>

\* The request has its row, changed as given, and goes on at the given step.
Changes(r, step, new) ==
  /\ req' = [req EXCEPT ![r].at = step, ![r].row = new]
  /\ UNCHANGED <<row, due, barred, runs, breaks, done>>

\* Mutant: what failed may be approved again.
ApprovableFailed(a) == row[a].status \in {"pending_confirmation", "failed"}
Approvable(a) == row[a].status = "pending_confirmation"

Approve(r, a) ==
  /\ req[r].at = "approve" /\ req[r].action = a
  /\ Free(a)
  /\ Approvable(a)
  /\ Changes(r, "approved", [row[a] EXCEPT !.status = "approved", !.approver = req[r].actor])

Cancel(r, a) ==
  /\ req[r].at = "cancel" /\ req[r].action = a
  /\ Free(a)
  /\ row[a].status \in Open
  /\ Changes(r, "reply", [row[a] EXCEPT !.status = "cancelled"])

SecondApproval(r, a) ==
  /\ req[r].at = "second" /\ req[r].action = a
  /\ Free(a)
  /\ Approvable(a)
  /\ Changes(r, "reply",
             IF req[r].intime
             THEN [row[a] EXCEPT !.status = "approved", !.second = req[r].actor]
             ELSE [row[a] EXCEPT !.status = "expired"])

\* Mutant: any approval will do.
ConsumableUnseconded(a) == ~row[a].used /\ row[a].status = "approved"
Consumable(a) ==
  /\ ~row[a].used
  /\ row[a].status = "approved"
  /\ row[a].second # None

\* The operation goes on in the same transaction.  A late attempt expires the row.
Consume(r, a) ==
  /\ req[r].at = "consume" /\ req[r].action = a
  /\ Free(a)
  /\ \/ /\ req[r].intime
        /\ Consumable(a)
        /\ Changes(r, "ready", [row[a] EXCEPT !.used = TRUE])
     \/ /\ ~req[r].intime
        /\ ~row[a].used
        /\ Changes(r, "reply", [row[a] EXCEPT !.status = "expired"])

\* The row is no longer what the request needs.
Refused(r, a) ==
  /\ req[r].action = a
  /\ Free(a)
  /\ \/ req[r].at \in {"approve", "second"} /\ ~Approvable(a)
     \/ req[r].at = "cancel" /\ row[a].status \notin Open
     \/ req[r].at = "consume" /\ req[r].intime /\ ~Consumable(a)
     \/ req[r].at = "consume" /\ ~req[r].intime /\ row[a].used
  /\ req' = [req EXCEPT ![r] = Idle]
  /\ UNCHANGED <<row, due, barred, runs, breaks, done>>

-----------------------------------------------------------------------------
(* The approved work.                                                      *)

\* The stored input has its hash, the requester is still who asked, and there is time.
Executable(a) == row[a].kind = "tool" /\ row[a].by \notin barred /\ a \notin due

\* Otherwise the answer is an error, and the approval is committed without the work.
Claim(r, a) ==
  /\ req[r].at = "approved" /\ req[r].action = a
  /\ \/ Executable(a) /\ Changes(r, "ready", [req[r].row EXCEPT !.status = "executing"])
     \/ ~Executable(a) /\ Changes(r, "reply", req[r].row)

\* completeExecution; the dual control records no outcome.
Completed(new, ok) ==
  IF new.kind = "tool" THEN [new EXCEPT !.status = IF ok THEN "executed" ELSE "failed"] ELSE new

\* A kill switch, a limit or a lost permission stops the call before its handler.
Deny(r) ==
  /\ req[r].at = "ready"
  /\ Changes(r, "reply", Completed(req[r].row, FALSE))

Run(r, a) ==
  /\ req[r].at = "ready" /\ req[r].action = a
  /\ req' = [req EXCEPT ![r].at = "running", ![r].ran = TRUE]
  /\ runs' = [runs EXCEPT ![a] = @ + 1]
  /\ UNCHANGED <<row, due, barred, breaks, done>>

\* Work that fails, or whose audit record is not kept, may have written before.  An
\* approved call counts as acknowledged, and a warning about its output lets it pass.
Finish(r) ==
  /\ req[r].at = "running"
  /\ \E ok, wrote \in BOOLEAN :
       /\ ok => wrote
       /\ req' = [req EXCEPT ![r].at = "reply", ![r].wrote = wrote,
                             ![r].row = Completed(@, ok)]
  /\ UNCHANGED <<row, due, barred, runs, breaks, done>>

Commit(r, a) ==
  /\ req[r].at = "reply" /\ req[r].action = a
  /\ row' = [row EXCEPT ![a] = req[r].row]
  /\ done' = [done EXCEPT ![a] = IF req[r].wrote THEN @ + 1 ELSE @]
  /\ req' = [req EXCEPT ![r] = Idle]
  /\ UNCHANGED <<due, barred, runs, breaks>>

\* The client goes away, the process dies, a statement of the work is rejected, or
\* the commit fails.
Abort(r, a) ==
  /\ req[r].at # "idle" /\ req[r].action = a
  /\ req[r].ran => breaks[a] < MaxBreaks
  /\ breaks' = [breaks EXCEPT ![a] = IF req[r].ran THEN @ + 1 ELSE @]
  /\ req' = [req EXCEPT ![r] = Idle]
  /\ UNCHANGED <<row, due, barred, runs, done>>

-----------------------------------------------------------------------------
(* Time, administration and the expiry worker, which skips locked rows.    *)

Pass(a) ==
  /\ row[a].status # "none"
  /\ a \notin due
  /\ due' = due \cup {a}
  /\ UNCHANGED <<row, barred, req, runs, breaks, done>>

Bar(x) ==
  /\ x \notin barred
  /\ Cardinality(barred) < MaxBarred
  /\ barred' = barred \cup {x}
  /\ UNCHANGED <<row, due, req, runs, breaks, done>>

\* What a person still waits for is cancelled with the account.
Offboard(x) ==
  /\ x \notin barred
  /\ Cardinality(barred) < MaxBarred
  /\ \A a \in Action : row[a].by = x /\ Approvable(a) => Free(a)
  /\ row' = [a \in Action |-> IF row[a].by = x /\ Approvable(a)
                              THEN [row[a] EXCEPT !.status = "cancelled"]
                              ELSE row[a]]
  /\ barred' = barred \cup {x}
  /\ UNCHANGED <<due, req, runs, breaks, done>>

\* Mutant: what was approved without being executed stays.
ExpiresUndecided(a) == row[a].status = "pending_confirmation" /\ a \in due
Expires(a) == row[a].status \in Open /\ a \in due
OutcomeUnknown(a) == row[a].status = "executing"

Sweep ==
  /\ \E a \in Action : Free(a) /\ (Expires(a) \/ OutcomeUnknown(a))
  /\ row' = [a \in Action |->
               IF Free(a) /\ Expires(a) THEN [row[a] EXCEPT !.status = "expired"]
               ELSE IF Free(a) /\ OutcomeUnknown(a) THEN [row[a] EXCEPT !.status = "failed"]
               ELSE row[a]]
  /\ UNCHANGED <<due, barred, req, runs, breaks, done>>

-----------------------------------------------------------------------------
Serve(r, a) ==
  \/ Approve(r, a) \/ Cancel(r, a) \/ SecondApproval(r, a) \/ Consume(r, a)
  \/ Refused(r, a) \/ Claim(r, a) \/ Run(r, a) \/ Commit(r, a)

Next ==
  \/ \E a \in Action :
       \/ \E x \in Actor, o \in Person \cup {None} : Queue(a, x, o) \/ QueueAfterRun(a, x, o)
       \/ \E x \in Admin : RequestApproval(a, x)
       \/ Pass(a)
  \/ \E r \in Request :
       \/ \E a \in Action :
            \/ \E op \in {"approve", "cancel", "second", "consume"}, x \in Actor : Ask(r, op, a, x)
            \/ Serve(r, a)
            \/ Abort(r, a)
       \/ Deny(r)
       \/ Finish(r)
  \/ \E x \in Actor : Bar(x)
  \/ \E x \in Person : Offboard(x)
  \/ Sweep

Spec == Init /\ [][Next]_vars

\* Requests are answered or aborted, deadlines come, and the sweep, which runs every
\* minute, does not find a row locked each time.
FairSpec ==
  /\ Spec
  /\ \A r \in Request :
       WF_vars((\E a \in Action : Serve(r, a)) \/ Deny(r) \/ Finish(r))
  /\ \A a \in Action : WF_vars(Pass(a))
  /\ SF_vars(Sweep)

-----------------------------------------------------------------------------
TypeOK ==
  /\ row \in [Action -> Row]
  /\ due \subseteq Action
  /\ barred \subseteq Actor
  /\ req \in [Request -> Work]
  /\ runs \in [Action -> Nat]
  /\ breaks \in [Action -> Nat]
  /\ done \in [Action -> Nat]

\* No request starts the work of such a row any more.
Spent(a) == row[a].status \in {"executed", "failed"} \/ row[a].used

\* The run of a call queued for a warning about its output.
Before(a) == IF row[a].early THEN 1 ELSE 0

(* Safety, of tool-registry.ts and crown-jewel.ts: approval commits the     *)
(* database effects of an action at most once, however approvals,          *)
(* cancellations, expiry and offboarding meet; what reads executed has had *)
(* them, and what was refused, cancelled or expired has not.  The effects  *)
(* of a call queued after its handler ran come on top: they were committed *)
(* when it was queued, and an approval repeats them.                       *)
OnceAndReported ==
  \A a \in Action :
    /\ done[a] \in {Before(a), Before(a) + 1}
    /\ done[a] > Before(a) => Spent(a)
    /\ row[a].status = "executed" => done[a] > Before(a)

\* A request that is not over has started the work.
InHand(a) == \E r \in Request : Holds(r, a) /\ req[r].ran

(* Safety, of tool-registry.ts:949: the approved work of an action is       *)
(* started again only after a request that ran it was rolled back, and     *)
(* nothing but such a request, one not yet over, or the request that       *)
(* queued it after its handler had run, has started the work of an action  *)
(* that is open, cancelled or expired.                                     *)
RepeatsAreInterruptions ==
  \A a \in Action :
    runs[a] <= Before(a) + breaks[a] + (IF Spent(a) \/ InHand(a) THEN 1 ELSE 0)

-----------------------------------------------------------------------------
(* The inductive invariant.                                                *)

\* An administrator's approval of somebody else's request, where there is one.
SecondIsAnother(w) ==
  /\ w.second # None => w.second \in Admin \ {w.by}
  /\ w.used => w.second # None

\* The two kinds of row share a table and keep to columns and outcomes of their own.
Sound(w) ==
  /\ SecondIsAnother(w)
  /\ w.kind = "tool" => w.second = None
  /\ w.kind = "crown" => w.status \notin {"executing", "executed", "failed"}

RowOK(a) ==
  /\ Sound(row[a])
  /\ row[a].status # "executing"
  /\ row[a].status = "none" => row[a] = NoRow

\* What request w found when it was admitted cannot have changed.
Admitted(w) ==
  w.at # "idle" =>
    LET old == row[w.action] IN
    /\ w.action \in Action
    /\ old.status # "none"
    /\ w.at = "approve" => w.actor \in Person
    /\ w.at \in {"second", "consume"} => old.kind = "crown"
    /\ w.at = "second" => w.actor \in Admin \ {old.by}

\* The row of an open transaction against the committed one.
HeldRow(w) ==
  Holding(w) =>
    LET old == row[w.action] IN
    /\ Sound(w.row)
    /\ w.row.status # "none"
    /\ w.row.kind = old.kind
    /\ w.row.by = old.by
    /\ w.row.early = old.early
    /\ old.used => w.row.used
    /\ old.status \notin {"executed", "failed"}
    /\ w.at = "approved" => w.row.status = "approved" /\ old.status = "pending_confirmation"
    /\ w.at \in {"ready", "running"} \/ w.ran =>
         /\ ~old.used
         /\ old.kind = "crown" => w.row.used
    /\ w.at = "reply" =>
         /\ w.row.status # "executing"
         /\ w.ran /\ old.kind = "tool" => w.row.status \in {"executed", "failed"}
    /\ w.row.status = "executed" => w.at = "reply" /\ w.wrote

RunKnown(w) ==
  /\ w.wrote => w.ran
  /\ w.ran => w.at \in {"running", "reply"}
  /\ w.at = "running" => w.ran

RequestOK(w) == Admitted(w) /\ HeldRow(w) /\ RunKnown(w)

OneHolder ==
  \A r, s \in Request, a \in Action : Holds(r, a) /\ Holds(s, a) => r = s

(* Safety, of crown-jewel.ts:316-405 beside registry.ts:244 and            *)
(* tool-registry.ts:838-960: whatever requests of both kinds do to a row,  *)
(* one at a time has it, what a request was admitted for still holds when  *)
(* it gets the row, and an approval that was used was given by an          *)
(* administrator other than the requester.                                 *)
Inv ==
  /\ TypeOK
  /\ \A a \in Action : RowOK(a)
  /\ \A r \in Request : RequestOK(req[r])
  /\ OneHolder

(* Safety, a part of Inv.                                                  *)
DualControl ==
  \A a \in Action : row[a].used => row[a].second \in Admin \ {row[a].by}

(* Liveness, of pending-action-expiry-worker.ts: every action is decided   *)
(* in the end, also one whose approval was committed without its work.     *)
Settled(a) == row[a].status \in {"executed", "failed", "cancelled", "expired"}
EveryActionSettles ==
  \A a \in Action : row[a].status # "none" ~> Settled(a)
=============================================================================
