----------------------------- MODULE AgentRuntime -----------------------------
(***************************************************************************)
(* A hosted agent: a worker reads the agent's inbox from a cursor kept in  *)
(* the agent's row, starts a turn of the model for one event at a time,    *)
(* and moves the cursor past what is answered or not wanted.  A turn that  *)
(* does not finish leaves the agent stopped until an administrator has     *)
(* looked at it.  One worker runs at a time unless the lease was lost,     *)
(* see Leadership.                                                         *)
(***************************************************************************)
EXTENDS Naturals

CONSTANTS
  Worker,       \* processes that may run the hosted-agent worker
  Kind,         \* kinds of events an agent may be woken by
  Selection,    \* the sets of kinds an administrator selects
  Hidden,       \* an event the agent may not see: no scope, or its source is gone
  Grant,        \* the scopes and policies the agent's credential may have
  Withheld,     \* the credential does not resolve, or an operator has switched agents off
  Disabled,     \* the agent's actor is disabled, and its credential does not resolve either
  TurnsPerHour,
  PageSize,     \* events read at once
  MaxSteps,     \* model calls and tool calls of a turn
  MaxEvents,    \* bound on the inbox
  Source,       \* the kind of each event, by sequence number
  MaxVersion,   \* bound on the administrator's changes
  MaxFaults     \* bound on stops, crashes, timeouts, failed calls, lost leases and
                \* expired events

Event == 1 .. MaxEvents

ASSUME AgentAssumption ==
  /\ Hidden \notin Kind
  /\ Withheld # Disabled /\ {Withheld, Disabled} \cap Grant = {}
  /\ Selection \subseteq SUBSET Kind
  /\ {TurnsPerHour, PageSize, MaxSteps} \subseteq Nat \ {0}
  /\ {MaxEvents, MaxVersion, MaxFaults} \subseteq Nat
  /\ Source \in [Event -> Kind \cup {Hidden}]

VARIABLES
  row,        \* the agent's row of agent_runtimes
  head,       \* sequence number of the last event in the inbox
  expired,    \* events at the front that are older than the history
  grant,      \* the credential's scopes and policy, or why it cannot be used
  up,         \* up[w]: whether the worker is down, up or stopping
  sweep,      \* sweep[w]: the check of the agent in the worker's sweep
  turn,       \* turn[w]: the turn the worker runs
  begun,      \* begun[e]: turns started for event e (history)
  overlapped, \* a worker was started before the other had ended (history)
  faults      \* faults so far

vars == <<row, head, expired, grant, up, sweep, turn, begun, overlapped, faults>>

\* processing is 0 or the event of the turn; recent: processing_at lies less than
\* two minutes back; turns: turns begun since window_started_at, if that is less than
\* an hour ago.
Row == [enabled : BOOLEAN, version : Nat, events : SUBSET Kind, cursor : Nat,
        processing : Nat, recent : BOOLEAN, error : BOOLEAN,
        turns : Nat]

\* A check of the agent: the row's version, cursor and selection as they were read,
\* the credential resolved, the events dealt with (at) and the end of the page.
Sweep == [step : {"idle", "found", "read", "page", "report"}, version : Nat,
          events : SUBSET Kind, grant : Grant \cup {Withheld}, at : Nat, end : Nat]

\* late: steps taken since configuration or credential changed last, while they are
\* not what the turn began with (history).
Turn == [step : {"none", "vet", "act", "answer", "complete", "beat", "fail"},
         event : Nat, version : Nat, grant : Grant \cup {Withheld}, steps : Nat,
         aborted : BOOLEAN, late : Nat]

TypeOK ==
  /\ row \in Row
  /\ head \in Nat
  /\ expired \in Nat
  /\ grant \in Grant \cup {Withheld, Disabled}
  /\ up \in [Worker -> {"down", "up", "stopping"}]
  /\ sweep \in [Worker -> Sweep]
  /\ turn \in [Worker -> Turn]
  /\ begun \in [Event -> Nat]
  /\ overlapped \in BOOLEAN
  /\ faults \in Nat

Later(a, b) == IF a > b THEN a ELSE b

Asleep == [step |-> "idle", version |-> 0, events |-> {}, grant |-> Withheld,
           at |-> 0, end |-> 0]

NoTurn == [step |-> "none", event |-> 0, version |-> 0, grant |-> Withheld,
           steps |-> 0, aborted |-> FALSE, late |-> 0]

\* Hosting was saved for the first time: the cursor is the head of the inbox.
Init ==
  /\ \E events \in Selection :
       row = [enabled |-> TRUE, version |-> 1, events |-> events, cursor |-> 0,
              processing |-> 0, recent |-> FALSE, error |-> FALSE, turns |-> 0]
  /\ head = 0
  /\ expired = 0
  /\ grant \in Grant
  /\ up = [w \in Worker |-> "down"]
  /\ sweep = [w \in Worker |-> Asleep]
  /\ turn = [w \in Worker |-> NoTurn]
  /\ begun = [e \in Event |-> 0]
  /\ overlapped = FALSE
  /\ faults = 0

Fault == faults < MaxFaults /\ faults' = faults + 1

(***************************************************************************)
(* The administrator, the inbox and the passage of time.                   *)
(***************************************************************************)

\* reset: "start from the current inbox".
Refused(enabled, reset) ==
  \/ reset /\ ~row.error /\ row.processing # 0 /\ row.recent
  \/ enabled /\ row.processing # 0 /\ ~reset

\* Mutant: a reset forgets the cursor.
ConfiguredInPlace(r, enabled, events, reset) ==
  LET saved == [r EXCEPT !.enabled = enabled, !.events = events, !.version = @ + 1]
  IN IF reset
     THEN [saved EXCEPT !.processing = 0, !.recent = FALSE, !.error = FALSE]
     ELSE saved

Configured(r, enabled, events, reset) ==
  LET saved == [r EXCEPT !.enabled = enabled, !.events = events, !.version = @ + 1]
  IN IF reset
     THEN [saved EXCEPT !.cursor = head, !.processing = 0, !.recent = FALSE,
                        !.error = FALSE]
     ELSE saved

Configure(enabled, events, reset) ==
  /\ row.version < MaxVersion
  /\ ~Refused(enabled, reset)
  /\ row' = Configured(row, enabled, events, reset)
  /\ UNCHANGED <<head, expired, grant, up, sweep, turn, begun, overlapped, faults>>

Arrive ==
  /\ head < MaxEvents
  /\ head' = head + 1
  /\ UNCHANGED <<row, expired, grant, up, sweep, turn, begun, overlapped, faults>>

\* Seven days have passed, or ten thousand events.
Expire ==
  /\ Fault
  /\ expired < head
  /\ expired' = expired + 1
  /\ UNCHANGED <<row, head, grant, up, sweep, turn, begun, overlapped>>

\* Scopes or policy change, the credential expires or is revoked, an operator switches
\* agents off, the actor is disabled, or any of this is undone.
ChangeGrant(g) ==
  /\ g # grant
  /\ grant' = g
  /\ turn' = [w \in Worker |->
                IF turn[w].version = row.version THEN [turn[w] EXCEPT !.late = 0] ELSE turn[w]]
  /\ UNCHANGED <<row, head, expired, up, sweep, begun, overlapped, faults>>

TwoMinutesPass ==
  /\ row.recent
  /\ row' = [row EXCEPT !.recent = FALSE]
  /\ UNCHANGED <<head, expired, grant, up, sweep, turn, begun, overlapped, faults>>

\* Mutant: the window is never started again.
HourUnnoticed ==
  /\ row.turns > 0
  /\ UNCHANGED vars

HourPasses ==
  /\ row.turns > 0
  /\ row' = [row EXCEPT !.turns = 0]
  /\ UNCHANGED <<head, expired, grant, up, sweep, turn, begun, overlapped, faults>>

(***************************************************************************)
(* The statements of the store.                                            *)
(***************************************************************************)

Beginnable(r, version) ==
  /\ r.version = version
  /\ r.processing = 0
  /\ ~r.error
  /\ r.turns < TurnsPerHour

Begun(r, e) ==
  [r EXCEPT !.processing = e, !.recent = TRUE, !.turns = @ + 1]

\* Mutant: the version is not compared.
AdvancedAnyVersion(r, version, e) ==
  IF r.processing = 0
  THEN [r EXCEPT !.cursor = Later(@, e)]
  ELSE r

Advanced(r, version, e) ==
  IF r.version = version /\ r.processing = 0
  THEN [r EXCEPT !.cursor = Later(@, e)]
  ELSE r

Completed(r, e) ==
  IF r.processing = e
  THEN [r EXCEPT !.cursor = Later(@, e), !.processing = 0, !.recent = FALSE,
                 !.error = FALSE]
  ELSE r

Failed(r) == [r EXCEPT !.error = TRUE]

(***************************************************************************)
(* The sweep of a worker.                                                  *)
(***************************************************************************)

Go(w, step) == sweep' = [sweep EXCEPT ![w].step = step]
Rest(w) == sweep' = [sweep EXCEPT ![w] = Asleep]

Find(w) ==
  /\ up[w] = "up"
  /\ sweep[w].step = "idle"
  /\ row.enabled /\ ~row.error /\ grant # Disabled
  /\ Go(w, "found")
  /\ UNCHANGED <<row, head, expired, grant, up, turn, begun, overlapped, faults>>

Snapshot ==
  [Asleep EXCEPT !.step = "read", !.version = row.version, !.events = row.events,
                 !.at = row.cursor]

\* Mutant: an interrupted turn is taken for one in progress.
ReadPatiently(w) ==
  /\ sweep[w].step = "found"
  /\ IF up[w] = "stopping" \/ turn[w].step # "none" \/ ~row.enabled \/ row.processing # 0
     THEN Rest(w)
     ELSE sweep' = [sweep EXCEPT ![w] = Snapshot]
  /\ UNCHANGED <<row, head, expired, grant, up, turn, begun, overlapped, faults>>

\* The row is read; a turn of this worker, a stop or a pause ends the check.
Read(w) ==
  /\ sweep[w].step = "found"
  /\ IF up[w] = "stopping" \/ turn[w].step # "none" \/ ~row.enabled
     THEN Rest(w)
     ELSE IF row.processing # 0
     THEN Go(w, "report")
     ELSE sweep' = [sweep EXCEPT ![w] = Snapshot]
  /\ UNCHANGED <<row, head, expired, grant, up, turn, begun, overlapped, faults>>

\* The first event that is still in the history.
Floor == expired + 1

ResetRequired(after) == after > head \/ after < Floor - 1

PageEnd(after) == IF after + PageSize < head THEN after + PageSize ELSE head

Paged(s) ==
  [s EXCEPT !.step = "page", !.grant = grant, !.at = Later(s.at, expired),
            !.end = PageEnd(s.at)]

\* The credential is resolved and a page of the events still in the history is read.
Page(w) ==
  /\ sweep[w].step = "read"
  /\ IF grant \notin Grant \/ ResetRequired(sweep[w].at)
     THEN Go(w, "report")
     ELSE sweep' = [sweep EXCEPT ![w] = Paged(@)]
  /\ UNCHANGED <<row, head, expired, grant, up, turn, begun, overlapped, faults>>

Ahead(w) == Source[sweep[w].at + 1]

InPage(w) == sweep[w].step = "page" /\ sweep[w].at < sweep[w].end

\* An event that is not selected is passed; one that cannot be seen is not in the
\* page at all.
Skip(w) ==
  /\ InPage(w)
  /\ Ahead(w) \notin sweep[w].events
  /\ row' = IF Ahead(w) = Hidden THEN row
            ELSE Advanced(row, sweep[w].version, sweep[w].at + 1)
  /\ sweep' = [sweep EXCEPT ![w].at = @ + 1]
  /\ UNCHANGED <<head, expired, grant, up, turn, begun, overlapped, faults>>

NewTurn(s) ==
  [NoTurn EXCEPT !.step = "vet", !.event = s.at + 1, !.version = s.version,
                 !.grant = s.grant]

\* The first selected event ends the check, whether its turn starts or not.
Begin(w) ==
  /\ InPage(w)
  /\ Ahead(w) \in sweep[w].events
  /\ up[w] = "up"
  /\ Beginnable(row, sweep[w].version)
  /\ row' = Begun(row, sweep[w].at + 1)
  /\ begun' = [begun EXCEPT ![sweep[w].at + 1] = @ + 1]
  /\ turn' = [turn EXCEPT ![w] = NewTurn(sweep[w])]
  /\ Rest(w)
  /\ UNCHANGED <<head, expired, grant, up, overlapped, faults>>

Decline(w) ==
  /\ InPage(w)
  /\ Ahead(w) \in sweep[w].events
  /\ up[w] = "stopping" \/ ~Beginnable(row, sweep[w].version)
  /\ Rest(w)
  /\ UNCHANGED <<row, head, expired, grant, up, turn, begun, overlapped, faults>>

EndPage(w) ==
  /\ sweep[w].step = "page" /\ sweep[w].at = sweep[w].end
  /\ row' = Advanced(row, sweep[w].version, sweep[w].end)
  /\ Rest(w)
  /\ UNCHANGED <<head, expired, grant, up, turn, begun, overlapped, faults>>

Report(w) ==
  /\ sweep[w].step = "report"
  /\ row' = Failed(row)
  /\ Rest(w)
  /\ UNCHANGED <<head, expired, grant, up, turn, begun, overlapped, faults>>

(***************************************************************************)
(* A turn: the model and its tools run in one transaction, and the         *)
(* configuration and the credential are read again before every step.      *)
(***************************************************************************)

To(w, step) == turn' = [turn EXCEPT ![w].step = step]
EndTurn(w) == turn' = [turn EXCEPT ![w] = NoTurn]

\* Mutant: any configuration that is enabled will do.
CurrentEnabled(t) == row.enabled /\ grant = t.grant

\* Scopes and policy are compared by their values: a change that was undone is not
\* noticed.
Current(t) == row.enabled /\ row.version = t.version /\ grant = t.grant

Changed(t) == row.version # t.version \/ grant # t.grant

\* beforeStep: the next step is a call of the model or of a tool, or the answer.
Vet(w, next) ==
  /\ turn[w].step = "vet"
  /\ \/ next = "act" /\ turn[w].steps < MaxSteps
     \/ next = "answer" /\ turn[w].steps > 0
  /\ To(w, IF Current(turn[w]) /\ ~turn[w].aborted THEN next ELSE "fail")
  /\ UNCHANGED <<row, head, expired, grant, up, sweep, begun, overlapped, faults>>

Step(t, next) ==
  [t EXCEPT !.step = next, !.steps = @ + 1,
            !.late = IF Changed(t) THEN @ + 1 ELSE @]

\* The call succeeds, or fails or is cut off.
Act(w, next) ==
  /\ turn[w].step = "act"
  /\ next \in {"vet", "fail"}
  /\ turn' = [turn EXCEPT ![w] = Step(@, next)]
  /\ UNCHANGED <<row, head, expired, grant, up, sweep, begun, overlapped, faults>>

\* The reply is sent to the room and the transaction commits, or is refused.
Answer(w, next) ==
  /\ turn[w].step = "answer"
  /\ next \in {"complete", "fail"}
  /\ turn' = [turn EXCEPT ![w] = Step(@, next)]
  /\ UNCHANGED <<row, head, expired, grant, up, sweep, begun, overlapped, faults>>

Complete(w) ==
  /\ turn[w].step = "complete"
  /\ row' = Completed(row, turn[w].event)
  /\ To(w, "beat")
  /\ UNCHANGED <<head, expired, grant, up, sweep, begun, overlapped, faults>>

\* The last sign of presence; the turn is over.
Beat(w) ==
  /\ turn[w].step = "beat"
  /\ EndTurn(w)
  /\ UNCHANGED <<row, head, expired, grant, up, sweep, begun, overlapped, faults>>

Fail(w) ==
  /\ turn[w].step = "fail"
  /\ row' = Failed(row)
  /\ EndTurn(w)
  /\ UNCHANGED <<head, expired, grant, up, sweep, begun, overlapped, faults>>

\* Ninety seconds are over, or the heartbeat met a change or an error.
Abort(w) ==
  /\ Fault
  /\ turn[w].step # "none" /\ ~turn[w].aborted
  /\ turn' = [turn EXCEPT ![w].aborted = TRUE]
  /\ UNCHANGED <<row, head, expired, grant, up, sweep, begun, overlapped>>

(***************************************************************************)
(* Faults: a call to the database fails, its statement done or not.        *)
(***************************************************************************)

\* Sweep: the check throws and its error is reported; candidates and the report
\* itself only end the check.
CheckFails(w) ==
  /\ Fault
  /\ IF sweep[w].step \in {"read", "page"} THEN Go(w, "report")
     ELSE sweep[w].step \in {"found", "report"} /\ Rest(w)
  /\ UNCHANGED <<row, head, expired, grant, up, turn, begun, overlapped>>

\* The turn was written to the row, but the worker is not told.
BeginLost(w) ==
  /\ Fault
  /\ InPage(w)
  /\ Ahead(w) \in sweep[w].events
  /\ up[w] = "up"
  /\ Beginnable(row, sweep[w].version)
  /\ row' = Begun(row, sweep[w].at + 1)
  /\ Go(w, "report")
  /\ UNCHANGED <<head, expired, grant, up, turn, begun, overlapped>>

\* A step, the completion or a sign of presence fails; a failing report is only
\* logged.
TurnFails(w) ==
  /\ Fault
  /\ \/ turn[w].step \in {"vet", "complete", "beat"} /\ To(w, "fail")
     \/ turn[w].step = "fail" /\ EndTurn(w)
  /\ UNCHANGED <<row, head, expired, grant, up, sweep, begun, overlapped>>

\* The completion was committed, but the worker is not told.
CompleteLost(w) ==
  /\ Fault
  /\ turn[w].step = "complete"
  /\ row' = Completed(row, turn[w].event)
  /\ To(w, "fail")
  /\ UNCHANGED <<head, expired, grant, up, sweep, begun, overlapped>>

(***************************************************************************)
(* The life of a worker.                                                   *)
(***************************************************************************)

Others(w) == {v \in Worker \ {w} : up[v] # "down"}

Start(w) ==
  /\ up[w] = "down"
  /\ Others(w) = {}
  /\ up' = [up EXCEPT ![w] = "up"]
  /\ UNCHANGED <<row, head, expired, grant, sweep, turn, begun, overlapped, faults>>

\* The lease was lost: a worker starts before the other has ended.
StartEarly(w) ==
  /\ Fault
  /\ up[w] = "down"
  /\ Others(w) # {}
  /\ up' = [up EXCEPT ![w] = "up"]
  /\ overlapped' = TRUE
  /\ UNCHANGED <<row, head, expired, grant, sweep, turn, begun>>

\* The controllers are aborted; stop() waits for the sweep and for the turn.
Stop(w) ==
  /\ Fault
  /\ up[w] = "up"
  /\ up' = [up EXCEPT ![w] = "stopping"]
  /\ turn' = [turn EXCEPT ![w].aborted = turn[w].step # "none"]
  /\ UNCHANGED <<row, head, expired, grant, sweep, begun, overlapped>>

Stopped(w) ==
  /\ up[w] = "stopping"
  /\ sweep[w].step = "idle" /\ turn[w].step = "none"
  /\ up' = [up EXCEPT ![w] = "down"]
  /\ UNCHANGED <<row, head, expired, grant, sweep, turn, begun, overlapped, faults>>

Crash(w) ==
  /\ Fault
  /\ up[w] # "down"
  /\ up' = [up EXCEPT ![w] = "down"]
  /\ Rest(w)
  /\ EndTurn(w)
  /\ UNCHANGED <<row, head, expired, grant, begun, overlapped>>

(***************************************************************************)
(* The specification.                                                      *)
(***************************************************************************)

World ==
  \/ \E enabled, reset \in BOOLEAN, events \in Selection :
       Configure(enabled, events, reset)
  \/ Arrive
  \/ Expire
  \/ \E g \in Grant \cup {Withheld, Disabled} : ChangeGrant(g)
  \/ TwoMinutesPass
  \/ HourPasses

Check(w) ==
  \/ Find(w) \/ Read(w) \/ Page(w) \/ Skip(w) \/ Begin(w) \/ Decline(w)
  \/ EndPage(w) \/ Report(w)

Work(w) ==
  \/ \E next \in {"act", "answer"} : Vet(w, next)
  \/ \E next \in {"vet", "fail"} : Act(w, next)
  \/ \E next \in {"complete", "fail"} : Answer(w, next)
  \/ Complete(w) \/ Beat(w) \/ Fail(w)

Break(w) ==
  \/ Abort(w) \/ CheckFails(w) \/ BeginLost(w) \/ TurnFails(w) \/ CompleteLost(w)
  \/ StartEarly(w) \/ Stop(w) \/ Crash(w)

Life(w) == Start(w) \/ Stopped(w)

Next == World \/ \E w \in Worker : Check(w) \/ Work(w) \/ Break(w) \/ Life(w)

Spec == Init /\ [][Next]_vars

\* The event loop runs what is ready, the timer repeats the sweep, a supervisor
\* starts a worker where none runs, and time passes.
FairSpec ==
  /\ Spec
  /\ \A w \in Worker : WF_vars(Check(w)) /\ WF_vars(Work(w)) /\ WF_vars(Stopped(w))
  /\ WF_vars(\E w \in Worker : Start(w))
  /\ WF_vars(HourPasses)

(***************************************************************************)
(* Properties.                                                             *)
(***************************************************************************)

\* While no two workers overlapped, no event is given to the model twice, whatever
\* crashed, failed, was reset or restarted: "no automatic replay after uncertain
\* side effects".
OneTurnPerEvent == overlapped \/ \A e \in Event : begun[e] <= 1

\* After a pause, a change of the configuration or of the credential, a turn in
\* progress takes the step it was about to take and no other: after a change of the
\* configuration for good, after one of the credential until it is changed again.
AtMostOneLateStep == \A w \in Worker : turn[w].late <= 1

\* The cursor passes an event that the present configuration selects only with the
\* event's turn, or when an administrator starts from the current inbox.  Where two
\* workers overlapped, the last turn of a paused agent may also take the cursor past
\* what the configuration before the pause did not select.
PassesNothingSelected ==
  [][\A e \in 1 .. head :
       row.cursor < e /\ e <= row'.cursor =>
         \/ e = row.processing
         \/ Source[e] \notin row.events
         \/ row'.version # row.version
         \/ overlapped /\ ~row.enabled]_vars

\* The sweep does not look for the agent: it is paused, or its actor is disabled.
Unsought == ~row.enabled \/ grant = Disabled

\* A turn that was begun is completed, or its failure is shown to the
\* administrator, unless the agent is paused or its actor disabled.
TurnsSettle ==
  []<>(row.processing = 0 \/ row.error \/ Unsought)

\* Every selected event comes to its turn, unless the agent stops with an error, is
\* paused or reset, its actor is disabled, or the event is no longer selected: with
\* the inbox bounded, there comes a time when none is left waiting.
Waiting(e) == e <= head /\ row.cursor < e /\ Source[e] \in row.events /\ begun[e] = 0

EveryEventAnswered ==
  []<>((\A e \in Event : ~Waiting(e)) \/ row.error \/ Unsought)

(***************************************************************************)
(* The inductive invariant.                                                *)
(***************************************************************************)

Alone ==
  ~overlapped =>
    \A v, w \in Worker : up[v] # "down" /\ up[w] # "down" => v = w

DownIsIdle ==
  \A w \in Worker : up[w] = "down" => sweep[w].step = "idle" /\ turn[w].step = "none"

ChecksWithoutTurn ==
  \A w \in Worker : sweep[w].step \in {"read", "page"} => turn[w].step = "none"

\* What a check remembers is not newer than the row and, if the row has not
\* changed, still the row's.
Remembered ==
  /\ \A w \in Worker : sweep[w].step \in {"read", "page"} =>
       sweep[w].version <= row.version
  /\ \A w \in Worker : turn[w].step # "none" => turn[w].version <= row.version

Within ==
  /\ row.cursor <= head /\ row.processing <= head /\ head <= MaxEvents
  /\ \A w \in Worker : sweep[w].step = "page" =>
       sweep[w].at <= sweep[w].end /\ sweep[w].end <= head
  /\ \A e \in Event : begun[e] > 0 => e <= head

\* An event whose turn was begun is behind the cursor or is being processed.
BegunIsBehind ==
  \A e \in Event : begun[e] > 0 => e <= row.cursor \/ e = row.processing

\* A check that may still begin a turn has not fallen behind the cursor.
CheckIsAhead ==
  ~overlapped =>
    \A w \in Worker :
      /\ sweep[w].step \in {"read", "page"}
      /\ sweep[w].version = row.version
      /\ row.processing = 0
      => row.cursor <= sweep[w].at

\* A step that was vetted has not been late before, and no turn is not late.
LateIsChanged ==
  \A w \in Worker :
    /\ turn[w].late > 0 => Changed(turn[w])
    /\ turn[w].step \in {"none", "act", "answer"} => turn[w].late = 0

Inv ==
  /\ TypeOK /\ Alone /\ DownIsIdle /\ ChecksWithoutTurn /\ Remembered /\ Within
  /\ BegunIsBehind /\ CheckIsAhead /\ LateIsChanged
  /\ OneTurnPerEvent /\ AtMostOneLateStep

(***************************************************************************)
(* The inductive invariant behind PassesNothingSelected.                   *)
(***************************************************************************)

\* A check of the present configuration has its selection.
SelectionKept ==
  \A w \in Worker :
    sweep[w].step \in {"read", "page"} /\ sweep[w].version = row.version
      => sweep[w].events = row.events

\* Events that can be passed between the cursor and a check or a turn.
MayPass(e) == Source[e] \notin row.events /\ (~overlapped => Source[e] = Hidden)

\* A check has moved on from the cursor only past such events.
CheckPassedOver ==
  \A w \in Worker : sweep[w].version = row.version =>
    /\ sweep[w].step = "read" => sweep[w].at <= row.cursor
    /\ sweep[w].step = "page" =>
         \A e \in Event : row.cursor < e /\ e <= sweep[w].at => MayPass(e)

\* While no two workers overlapped, no turn is in progress during a check.
ChecksWithoutProgress ==
  ~overlapped =>
    \A w \in Worker : sweep[w].step \in {"read", "page"} => row.processing = 0

\* So has a turn; what an agent selects is changed during a turn only with a pause.
TurnPassedOver ==
  \A e \in Event : row.cursor < e /\ e < row.processing =>
    /\ row.enabled => Source[e] \notin row.events
    /\ ~overlapped => Source[e] = Hidden

IInv ==
  /\ Inv /\ SelectionKept /\ ChecksWithoutProgress /\ CheckPassedOver /\ TurnPassedOver
=============================================================================
