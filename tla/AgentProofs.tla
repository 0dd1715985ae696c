----------------------------- MODULE AgentProofs -----------------------------
(***************************************************************************)
(* What a hosted agent keeps, for any workers, events and selections: while*)
(* no two workers overlap an event has one turn, whatever fails; and a     *)
(* change of configuration or credential lets a turn take one more step.   *)
(* A step changes the row, or what one worker remembers, or both; the row  *)
(* changes under a new version only by Configure.                          *)
(***************************************************************************)
EXTENDS AgentRuntime, TLAPS

USE DEF Event

Checking(w) == sweep[w].step \in {"read", "page"}

\* The part of the invariant that is about worker w.
Fine(w) ==
  /\ up[w] = "down" => sweep[w].step = "idle" /\ turn[w].step = "none"
  /\ Checking(w) => turn[w].step = "none" /\ sweep[w].version <= row.version
  /\ turn[w].step # "none" => turn[w].version <= row.version
  /\ sweep[w].step = "page" =>
       /\ sweep[w].at <= sweep[w].end
       /\ sweep[w].end <= head
  /\ ~overlapped /\ Checking(w) /\ sweep[w].version = row.version /\ row.processing = 0 =>
       row.cursor <= sweep[w].at
  /\ turn[w].late > 0 => Changed(turn[w])
  /\ turn[w].step \in {"none", "act", "answer"} => turn[w].late = 0
  /\ turn[w].late <= 1

\* The part about the row and its events.
RowFine ==
  /\ row.cursor <= head /\ row.processing <= head /\ head <= MaxEvents
  /\ \A e \in Event : begun[e] > 0 => e <= head
  /\ BegunIsBehind
  /\ OneTurnPerEvent

Whole == TypeOK /\ Alone /\ RowFine /\ \A w \in Worker : Fine(w)

LEMMA Parts == Inv => Whole
  BY DEF Whole, Inv, RowFine, Fine, Checking, DownIsIdle, ChecksWithoutTurn, Remembered,
         Within, CheckIsAhead, LateIsChanged, AtMostOneLateStep

LEMMA Sum == Whole => Inv
  BY DEF Whole, Inv, RowFine, Fine, Checking, DownIsIdle, ChecksWithoutTurn, Remembered,
         Within, CheckIsAhead, LateIsChanged, AtMostOneLateStep

LEMMA SumNext == Whole' => Inv'
  BY Sum, PTL

-----------------------------------------------------------------------------
(* The values that are stored.                                             *)

LEMMA Blank == Asleep \in Sweep /\ NoTurn \in Turn
  BY DEF Asleep, NoTurn, Sweep, Turn

LEMMA Fields ==
  /\ Asleep.step = "idle"
  /\ NoTurn.step = "none" /\ NoTurn.late = 0
  BY DEF Asleep, NoTurn

LEMMA LaterIs ==
  ASSUME NEW a \in Nat, NEW b \in Nat
  PROVE  Later(a, b) \in Nat /\ Later(a, b) >= a /\ Later(a, b) >= b
         /\ (Later(a, b) = a \/ Later(a, b) = b)
  BY DEF Later

LEMMA SweepRecords ==
  ASSUME NEW s \in Sweep,
         NEW c \in {"idle", "found", "read", "page", "report"}
  PROVE  [s EXCEPT !.step = c] \in Sweep
  BY DEF Sweep

LEMMA TurnRecords ==
  ASSUME NEW t \in Turn,
         NEW c \in {"none", "vet", "act", "answer", "complete", "beat", "fail"}
  PROVE  [t EXCEPT !.step = c] \in Turn
  BY DEF Turn

LEMMA NatConstants == MaxEvents \in Nat /\ PageSize \in Nat /\ PageSize > 0
  BY AgentAssumption

(* What one worker writes.                                                 *)
LEMMA GoIs ==
  ASSUME TypeOK, NEW w \in Worker,
         NEW c \in {"idle", "found", "read", "page", "report"}, Go(w, c)
  PROVE  /\ sweep' \in [Worker -> Sweep]
         /\ sweep'[w] = [sweep[w] EXCEPT !.step = c]
         /\ sweep'[w].step = c
         /\ \A v \in Worker \ {w} : sweep'[v] = sweep[v]
<1>1. [sweep[w] EXCEPT !.step = c] \in Sweep
  BY SweepRecords DEF TypeOK
<1> QED BY <1>1 DEF Go, TypeOK, Sweep

LEMMA RestIs ==
  ASSUME TypeOK, NEW w \in Worker, Rest(w)
  PROVE  /\ sweep' \in [Worker -> Sweep]
         /\ sweep'[w].step = "idle"
         /\ \A v \in Worker \ {w} : sweep'[v] = sweep[v]
  BY Blank, Fields DEF Rest, TypeOK

LEMMA ToIs ==
  ASSUME TypeOK, NEW w \in Worker,
         NEW c \in {"none", "vet", "act", "answer", "complete", "beat", "fail"}, To(w, c)
  PROVE  /\ turn' \in [Worker -> Turn]
         /\ turn'[w].step = c /\ turn'[w].version = turn[w].version
         /\ turn'[w].grant = turn[w].grant /\ turn'[w].late = turn[w].late
         /\ \A v \in Worker \ {w} : turn'[v] = turn[v]
<1>1. [turn[w] EXCEPT !.step = c] \in Turn
  BY TurnRecords DEF TypeOK
<1> QED BY <1>1 DEF To, TypeOK, Turn

LEMMA EndTurnIs ==
  ASSUME TypeOK, NEW w \in Worker, EndTurn(w)
  PROVE  /\ turn' \in [Worker -> Turn]
         /\ turn'[w].step = "none" /\ turn'[w].late = 0
         /\ \A v \in Worker \ {w} : turn'[v] = turn[v]
  BY Blank, Fields DEF EndTurn, TypeOK

-----------------------------------------------------------------------------
(* Workers other than w stay as they are.                                  *)
Only(w) ==
  \A v \in Worker \ {w} : up'[v] = up[v] /\ sweep'[v] = sweep[v] /\ turn'[v] = turn[v]

(* A step that leaves the row, the inbox and the credential alone.         *)
LEMMA WorkerMoves ==
  ASSUME Inv, TypeOK', NEW w \in Worker, Only(w), Fine(w)',
         UNCHANGED <<row, head, grant, begun>>,
         overlapped => overlapped',
         ~overlapped' /\ up'[w] # "down" => \A v \in Worker \ {w} : up[v] = "down"
  PROVE  Inv'
<1>1. Alone'
  BY Parts DEF Whole, Alone, Only
<1>2. RowFine'
  BY Parts DEF Whole, RowFine, BegunIsBehind, OneTurnPerEvent
<1>3. \A v \in Worker : Fine(v)'
  BY Parts DEF Whole, Fine, Checking, Changed, Only
<1> QED BY <1>1, <1>2, <1>3, SumNext DEF Whole

LEMMA NobodyElse ==
  ASSUME Inv, NEW w \in Worker, up[w] # "down", ~overlapped
  PROVE  \A v \in Worker \ {w} : up[v] = "down"
  BY DEF Inv, Alone

(* A step of a running worker that may write the row, under its version.   *)
LEMMA RowMoves ==
  ASSUME Inv, TypeOK', NEW w \in Worker, Only(w), Fine(w)', RowFine',
         UNCHANGED <<head, grant, up, overlapped>>,
         up[w] # "down",
         row'.version = row.version
  PROVE  Inv'
<1>1. Alone'
  BY Parts DEF Whole, Alone
<1>2. ASSUME NEW v \in Worker \ {w} PROVE Fine(v)'
  <2>1. Fine(v)
    BY Parts DEF Whole
  <2>2. ~overlapped => sweep[v].step = "idle"
    BY <2>1, NobodyElse DEF Fine
  <2> QED BY <2>1, <2>2 DEF Fine, Checking, Changed, Only
<1> QED BY <1>1, <1>2, Parts, SumNext DEF Whole

-----------------------------------------------------------------------------
(* The sweep.                                                              *)

LEMMA FindStep ==
  ASSUME Inv, NEW w \in Worker, Find(w)
  PROVE  Inv'
<1>1. TypeOK /\ Fine(w)
  BY Parts DEF Whole
<1>2. Go(w, "found")
  BY DEF Find
<1>3. TypeOK'
  BY <1>1, <1>2, GoIs DEF Find, TypeOK
<1>4. Only(w)
  BY <1>1, <1>2, GoIs DEF Only, Find
<1>5. Fine(w)'
  BY <1>1, <1>2, GoIs DEF Fine, Checking, Changed, Find
<1> QED BY <1>3, <1>4, <1>5, WorkerMoves, NobodyElse DEF Find

LEMMA ReadStep ==
  ASSUME Inv, NEW w \in Worker, Read(w)
  PROVE  Inv'
<1>1. TypeOK /\ Fine(w)
  BY Parts DEF Whole
<1>2. up[w] # "down"
  BY <1>1 DEF Read, Fine
<1>3. CASE Rest(w)
  <2>1. TypeOK' /\ Only(w)
    BY <1>1, <1>3, RestIs DEF Read, TypeOK, Only
  <2>2. Fine(w)'
    BY <1>1, <1>3, RestIs DEF Fine, Checking, Changed, Read
  <2> QED BY <1>2, <2>1, <2>2, WorkerMoves, NobodyElse DEF Read
<1>4. CASE Go(w, "report")
  <2>1. TypeOK' /\ Only(w)
    BY <1>1, <1>4, GoIs DEF Read, TypeOK, Only
  <2>2. Fine(w)'
    BY <1>1, <1>2, <1>4, GoIs DEF Fine, Checking, Changed, Read
  <2> QED BY <1>2, <2>1, <2>2, WorkerMoves, NobodyElse DEF Read
<1>5. CASE sweep' = [sweep EXCEPT ![w] = Snapshot] /\ turn[w].step = "none"
  <2>1. /\ Snapshot \in Sweep /\ Snapshot.step = "read"
        /\ Snapshot.version = row.version /\ Snapshot.at = row.cursor
    BY <1>1, Blank DEF TypeOK, Sweep, Row, Asleep, Snapshot
  <2>2. sweep' \in [Worker -> Sweep] /\ sweep'[w] = Snapshot
        /\ \A v \in Worker \ {w} : sweep'[v] = sweep[v]
    BY <1>1, <1>5, <2>1 DEF TypeOK
  <2>3. TypeOK' /\ Only(w)
    BY <1>1, <2>2 DEF Read, TypeOK, Only
  <2>4. row.version \in Nat /\ row.cursor \in Nat
    BY <1>1 DEF TypeOK, Row
  <2>5. Fine(w)'
    BY <1>1, <1>2, <1>5, <2>1, <2>2, <2>4 DEF Fine, Checking, Changed, Read
  <2> QED BY <1>2, <2>3, <2>5, WorkerMoves, NobodyElse DEF Read
<1> QED BY <1>3, <1>4, <1>5 DEF Read

LEMMA PageStep ==
  ASSUME Inv, NEW w \in Worker, Page(w)
  PROVE  Inv'
<1>1. TypeOK /\ Fine(w)
  BY Parts DEF Whole
<1> DEFINE s == Paged(sweep[w])
<1>2. up[w] # "down"
  BY <1>1 DEF Page, Fine
<1>3. CASE Go(w, "report")
  <2>1. TypeOK' /\ Only(w)
    BY <1>1, <1>3, GoIs DEF Page, TypeOK, Only
  <2>2. Fine(w)'
    BY <1>1, <1>2, <1>3, GoIs DEF Fine, Checking, Changed, Page
  <2> QED BY <1>2, <2>1, <2>2, WorkerMoves, NobodyElse DEF Page
<1>4. CASE /\ grant \in Grant /\ ~ResetRequired(sweep[w].at)
           /\ sweep' = [sweep EXCEPT ![w] = s]
  <2>1. sweep[w] \in Sweep /\ sweep[w].at \in Nat /\ expired \in Nat /\ head \in Nat
    BY <1>1 DEF TypeOK, Sweep
  <2>2. Later(sweep[w].at, expired) = sweep[w].at /\ sweep[w].at <= head
    BY <1>4, <2>1 DEF ResetRequired, Floor, Later
  <2>3. /\ PageEnd(sweep[w].at) \in Nat
        /\ sweep[w].at <= PageEnd(sweep[w].at) /\ PageEnd(sweep[w].at) <= head
    BY <2>1, <2>2, NatConstants DEF PageEnd
  <2>4. /\ s \in Sweep /\ s.step = "page" /\ s.version = sweep[w].version
        /\ s.at = sweep[w].at /\ s.end = PageEnd(sweep[w].at) /\ s.grant = grant
    BY <1>1, <1>4, <2>1, <2>2, <2>3 DEF TypeOK, Sweep, Paged
  <2>5. sweep' \in [Worker -> Sweep] /\ sweep'[w] = s
        /\ \A v \in Worker \ {w} : sweep'[v] = sweep[v]
    BY <1>1, <1>4, <2>4 DEF TypeOK
  <2>6. TypeOK' /\ Only(w)
    BY <1>1, <2>5 DEF Page, TypeOK, Only
  <2>7. sweep[w].step = "read" /\ UNCHANGED <<row, head, grant, up, turn, overlapped>>
    BY DEF Page
  <2>8. Fine(w)'
    BY <1>1, <1>2, <2>3, <2>4, <2>5, <2>7 DEF Fine, Checking, Changed
  <2> QED BY <1>2, <2>6, <2>8, WorkerMoves, NobodyElse DEF Page
<1> QED BY <1>3, <1>4 DEF Page

LEMMA DeclineStep ==
  ASSUME Inv, NEW w \in Worker, Decline(w)
  PROVE  Inv'
<1>1. TypeOK /\ Fine(w) /\ Rest(w)
  BY Parts DEF Whole, Decline
<1>2. up[w] # "down"
  BY <1>1 DEF Decline, InPage, Fine
<1>3. TypeOK' /\ Only(w)
  BY <1>1, RestIs DEF Decline, TypeOK, Only
<1>4. Fine(w)'
  BY <1>1, RestIs DEF Fine, Checking, Changed, Decline
<1> QED BY <1>2, <1>3, <1>4, WorkerMoves, NobodyElse DEF Decline

LEMMA CheckFailsStep ==
  ASSUME Inv, NEW w \in Worker, CheckFails(w)
  PROVE  Inv'
<1>1. TypeOK /\ Fine(w) /\ Whole
  BY Parts DEF Whole
<1>2. up[w] # "down"
  BY <1>1 DEF CheckFails, Fine
<1>3. /\ sweep' \in [Worker -> Sweep]
      /\ sweep'[w].step \in {"report", "idle"}
      /\ \A v \in Worker \ {w} : sweep'[v] = sweep[v]
  BY <1>1, GoIs, RestIs DEF CheckFails
<1>4. TypeOK' /\ Only(w)
  BY <1>1, <1>3 DEF CheckFails, Fault, TypeOK, Only
<1>5. Fine(w)'
  BY <1>1, <1>2, <1>3 DEF Fine, Checking, Changed, CheckFails
<1> QED BY <1>2, <1>4, <1>5, WorkerMoves, NobodyElse DEF CheckFails

-----------------------------------------------------------------------------
(* The turn.                                                               *)

LEMMA VetStep ==
  ASSUME Inv, NEW w \in Worker, NEW next, Vet(w, next)
  PROVE  Inv'
<1>1. TypeOK /\ Fine(w)
  BY Parts DEF Whole
<1>2. PICK c \in {"act", "answer", "fail"} :
        To(w, c) /\ turn[w].step = "vet" /\ (c # "fail" => Current(turn[w]))
  BY DEF Vet
<1>3. turn[w] \in Turn
  BY <1>1 DEF TypeOK
<1>4. c \in {"act", "answer"} => turn[w].late = 0
  <2>1. c \in {"act", "answer"} => ~Changed(turn[w])
    BY <1>2 DEF Current, Changed
  <2> QED BY <1>1, <1>3, <2>1 DEF Fine, Turn
<1>5. /\ turn' \in [Worker -> Turn]
      /\ turn'[w].step = c /\ turn'[w].version = turn[w].version
      /\ turn'[w].grant = turn[w].grant /\ turn'[w].late = turn[w].late
      /\ \A v \in Worker \ {w} : turn'[v] = turn[v]
  <2>1. c \in {"none", "vet", "act", "answer", "complete", "beat", "fail"}
    OBVIOUS
  <2>2. TypeOK /\ To(w, c)
    BY <1>1, <1>2
  <2> QED BY <2>1, <2>2, ToIs
<1>6. TypeOK' /\ Only(w)
  BY <1>1, <1>5 DEF Vet, TypeOK, Only
<1>7. Fine(w)'
  <2>1. UNCHANGED <<row, head, grant, up, sweep, overlapped>>
    BY DEF Vet
  <2> QED BY <1>1, <1>2, <1>4, <1>5, <2>1 DEF Fine, Checking, Changed
<1>8. up[w] # "down" /\ UNCHANGED <<row, head, grant, begun, up, overlapped>>
  BY <1>1, <1>2 DEF Fine, Vet
<1> QED BY <1>6, <1>7, <1>8, WorkerMoves, NobodyElse

SameTurn(t, u, c, l) ==
  /\ u \in Turn /\ u.step = c /\ u.late = l
  /\ u.version = t.version /\ u.grant = t.grant

LEMMA StepRecords ==
  ASSUME NEW t \in Turn, NEW c \in {"vet", "complete", "fail"}
  PROVE  SameTurn(t, Step(t, c), c, IF Changed(t) THEN t.late + 1 ELSE t.late)
<1> DEFINE n == t.steps + 1
           l == IF Changed(t) THEN t.late + 1 ELSE t.late
           u == [t EXCEPT !.step = c, !.steps = n, !.late = l]
<1>1. n \in Nat /\ l \in Nat /\ Step(t, c) = u
  BY DEF Turn, Step
<1> HIDE DEF n, l
<1>2. u \in Turn /\ u.step = c /\ u.late = l /\ u.version = t.version /\ u.grant = t.grant
  BY <1>1 DEF Turn
<1> HIDE DEF u
<1>3. SameTurn(t, Step(t, c), c, l)
  BY <1>1, <1>2 DEF SameTurn
<1> QED BY <1>3 DEF l

(* A call or the answer: late if the configuration has changed since.      *)
LEMMA Stepped ==
  ASSUME Inv, NEW w \in Worker,
         NEW c \in {"vet", "complete", "fail"},
         turn[w].step \in {"act", "answer"},
         turn' = [turn EXCEPT ![w] = Step(@, c)],
         UNCHANGED <<row, head, expired, grant, up, sweep, begun, overlapped, faults>>
  PROVE  Inv'
<1>1. TypeOK /\ Fine(w)
  BY Parts DEF Whole
<1>2. turn[w] \in Turn /\ turn[w].late = 0
  BY <1>1 DEF TypeOK, Fine
<1>3. /\ Step(turn[w], c) \in Turn /\ Step(turn[w], c).step = c
      /\ Step(turn[w], c).version = turn[w].version
      /\ Step(turn[w], c).grant = turn[w].grant
      /\ Step(turn[w], c).late = IF Changed(turn[w]) THEN 1 ELSE 0
  <2>1. SameTurn(turn[w], Step(turn[w], c), c,
                 IF Changed(turn[w]) THEN turn[w].late + 1 ELSE turn[w].late)
    BY <1>2, StepRecords
  <2> QED BY <1>2, <2>1 DEF SameTurn
<1>4. /\ turn' \in [Worker -> Turn] /\ turn'[w] = Step(turn[w], c)
      /\ \A v \in Worker \ {w} : turn'[v] = turn[v]
  BY <1>1, <1>3 DEF TypeOK
<1>5. TypeOK' /\ Only(w)
  BY <1>1, <1>4 DEF TypeOK, Only
<1>6. Fine(w)'
  BY <1>1, <1>3, <1>4 DEF Fine, Checking, Changed
<1>7. up[w] # "down"
  BY <1>1 DEF Fine
<1> QED BY <1>5, <1>6, <1>7, WorkerMoves, NobodyElse

LEMMA ActStep ==
  ASSUME Inv, NEW w \in Worker, NEW next, Act(w, next)
  PROVE  Inv'
  BY Stepped DEF Act

LEMMA AnswerStep ==
  ASSUME Inv, NEW w \in Worker, NEW next, Answer(w, next)
  PROVE  Inv'
  BY Stepped DEF Answer

LEMMA BeatStep ==
  ASSUME Inv, NEW w \in Worker, Beat(w)
  PROVE  Inv'
<1>1. TypeOK /\ Fine(w) /\ EndTurn(w)
  BY Parts DEF Whole, Beat
<1>2. up[w] # "down" /\ UNCHANGED <<row, head, grant, begun, up, overlapped>>
  BY <1>1 DEF Beat, Fine
<1>3. TypeOK' /\ Only(w)
  BY <1>1, EndTurnIs DEF Beat, TypeOK, Only
<1>4. Fine(w)'
  BY <1>1, EndTurnIs DEF Fine, Checking, Changed, Beat
<1> QED BY <1>2, <1>3, <1>4, WorkerMoves, NobodyElse

(* An aborted turn is the same turn.                                       *)
LEMMA AbortIs ==
  ASSUME TypeOK, NEW w \in Worker, NEW b \in BOOLEAN,
         turn' = [turn EXCEPT ![w].aborted = b]
  PROVE  /\ turn' \in [Worker -> Turn]
         /\ turn'[w].step = turn[w].step /\ turn'[w].version = turn[w].version
         /\ turn'[w].grant = turn[w].grant /\ turn'[w].late = turn[w].late
         /\ \A v \in Worker \ {w} : turn'[v] = turn[v]
<1>1. turn[w] \in Turn
  BY DEF TypeOK
<1>2. [turn[w] EXCEPT !.aborted = b] \in Turn
  BY <1>1 DEF Turn
<1> QED BY <1>1, <1>2 DEF TypeOK, Turn

LEMMA AbortStep ==
  ASSUME Inv, NEW w \in Worker, Abort(w)
  PROVE  Inv'
<1>1. TypeOK /\ Fine(w) /\ turn' = [turn EXCEPT ![w].aborted = TRUE]
  BY Parts DEF Whole, Abort
<1>2. up[w] # "down" /\ UNCHANGED <<row, head, grant, begun, up, overlapped>>
  BY <1>1 DEF Abort, Fine
<1>3. TypeOK' /\ Only(w)
  <2>1. turn' \in [Worker -> Turn] /\ \A v \in Worker \ {w} : turn'[v] = turn[v]
    BY <1>1, AbortIs
  <2> QED BY <1>1, <2>1 DEF Abort, Fault, TypeOK, Only
<1>4. Fine(w)'
  BY <1>1, AbortIs DEF Fine, Checking, Changed, Abort
<1> QED BY <1>2, <1>3, <1>4, WorkerMoves, NobodyElse

LEMMA TurnFailsStep ==
  ASSUME Inv, NEW w \in Worker, TurnFails(w)
  PROVE  Inv'
<1>1. TypeOK /\ Fine(w)
  BY Parts DEF Whole
<1>2. turn[w] \in Turn /\ turn[w].step \in {"vet", "complete", "beat", "fail"}
  BY <1>1 DEF TurnFails, TypeOK
<1>3. up[w] # "down" /\ UNCHANGED <<row, head, grant, begun, up, sweep, overlapped>>
  BY <1>1, <1>2 DEF TurnFails, Fine
<1>4. CASE To(w, "fail")
  <2>1. TypeOK' /\ Only(w)
    <3>1. turn' \in [Worker -> Turn] /\ \A v \in Worker \ {w} : turn'[v] = turn[v]
      BY <1>1, <1>4, ToIs
    <3> QED BY <1>1, <3>1 DEF TurnFails, Fault, TypeOK, Only
  <2>2. turn'[w].step = "fail" /\ turn'[w].version = turn[w].version
        /\ turn'[w].grant = turn[w].grant /\ turn'[w].late = turn[w].late
    BY <1>1, <1>4, ToIs
  <2>3. Fine(w)'
    BY <1>1, <1>2, <1>3, <2>2 DEF Fine, Checking, Changed
  <2> QED BY <1>3, <2>1, <2>3, WorkerMoves, NobodyElse
<1>5. CASE EndTurn(w)
  <2>1. TypeOK' /\ Only(w)
    BY <1>1, <1>5, EndTurnIs DEF TurnFails, Fault, TypeOK, Only
  <2>2. Fine(w)'
    BY <1>1, <1>3, <1>5, EndTurnIs DEF Fine, Checking, Changed
  <2> QED BY <1>3, <2>1, <2>2, WorkerMoves, NobodyElse
<1> QED BY <1>4, <1>5 DEF TurnFails

-----------------------------------------------------------------------------
(* The life of a worker.                                                   *)

LEMMA StartStep ==
  ASSUME Inv, NEW w \in Worker, Start(w)
  PROVE  Inv'
<1>1. TypeOK /\ Fine(w)
  BY Parts DEF Whole
<1>2. TypeOK' /\ Only(w)
  BY <1>1 DEF Start, TypeOK, Only
<1>3. Fine(w)'
  BY <1>1 DEF Fine, Checking, Changed, Start
<1>4. \A v \in Worker \ {w} : up[v] = "down"
  BY DEF Start, Others
<1> QED BY <1>2, <1>3, <1>4, WorkerMoves DEF Start

LEMMA StartEarlyStep ==
  ASSUME Inv, NEW w \in Worker, StartEarly(w)
  PROVE  Inv'
<1>1. TypeOK /\ Fine(w)
  BY Parts DEF Whole
<1>2. TypeOK' /\ Only(w)
  BY <1>1 DEF StartEarly, Fault, TypeOK, Only
<1>3. Fine(w)'
  BY <1>1 DEF Fine, Checking, Changed, StartEarly
<1> QED BY <1>2, <1>3, WorkerMoves DEF StartEarly

LEMMA StopStep ==
  ASSUME Inv, NEW w \in Worker, Stop(w)
  PROVE  Inv'
<1>1. TypeOK /\ Fine(w) /\ up[w] = "up"
  BY Parts DEF Whole, Stop
<1>2. UNCHANGED <<row, head, grant, begun, sweep, overlapped>>
  BY DEF Stop
<1> DEFINE b == turn[w].step # "none"
<1>3. b \in BOOLEAN /\ turn' = [turn EXCEPT ![w].aborted = b]
  BY DEF Stop
<1>4. TypeOK' /\ Only(w)
  <2>1. turn' \in [Worker -> Turn] /\ \A v \in Worker \ {w} : turn'[v] = turn[v]
    BY <1>1, <1>3, AbortIs
  <2> QED BY <1>1, <2>1 DEF Stop, Fault, TypeOK, Only
<1>5. Fine(w)'
  <2>1. up'[w] = "stopping"
    BY <1>1 DEF Stop, TypeOK
  <2> QED BY <1>1, <1>2, <1>3, <2>1, AbortIs DEF Fine, Checking, Changed
<1> QED BY <1>1, <1>2, <1>4, <1>5, WorkerMoves, NobodyElse

LEMMA StoppedStep ==
  ASSUME Inv, NEW w \in Worker, Stopped(w)
  PROVE  Inv'
<1>1. TypeOK /\ Fine(w) /\ up[w] = "stopping"
  BY Parts DEF Whole, Stopped
<1>2. TypeOK' /\ Only(w)
  BY <1>1 DEF Stopped, TypeOK, Only
<1>3. Fine(w)'
  BY <1>1 DEF Fine, Checking, Changed, Stopped
<1> QED BY <1>1, <1>2, <1>3, WorkerMoves, NobodyElse DEF Stopped

LEMMA CrashStep ==
  ASSUME Inv, NEW w \in Worker, Crash(w)
  PROVE  Inv'
<1>1. TypeOK /\ Fine(w) /\ Rest(w) /\ EndTurn(w)
  BY Parts DEF Whole, Crash
<1>2. TypeOK' /\ Only(w)
  BY <1>1, RestIs, EndTurnIs DEF Crash, Fault, TypeOK, Only
<1>3. Fine(w)'
  BY <1>1, RestIs, EndTurnIs DEF Fine, Checking, Changed, Crash
<1> QED BY <1>2, <1>3, WorkerMoves, NobodyElse DEF Crash

-----------------------------------------------------------------------------
(* The row.                                                                *)

MovedOn(r, q, e) ==
  /\ q \in Row /\ q.version = r.version /\ q.processing = r.processing
  /\ q.cursor >= r.cursor
  /\ q.cursor = r.cursor \/ q.cursor = e

LEMMA AdvancedIs ==
  ASSUME NEW r \in Row, NEW v \in Nat, NEW e \in Nat
  PROVE  MovedOn(r, Advanced(r, v, e), e)
<1>1. r.cursor \in Nat
  BY DEF Row
<1>2. CASE ~(r.version = v /\ r.processing = 0)
  BY <1>1, <1>2 DEF Advanced, MovedOn
<1>3. CASE r.version = v /\ r.processing = 0
  <2> DEFINE k == Later(r.cursor, e)
  <2>1. k \in Nat /\ k >= r.cursor /\ k >= e /\ (k = r.cursor \/ k = e)
    BY <1>1, LaterIs
  <2>2. Advanced(r, v, e) = [r EXCEPT !.cursor = k]
    BY <1>3 DEF Advanced, Row
  <2> HIDE DEF k
  <2>3. [r EXCEPT !.cursor = k] \in Row
    BY <2>1 DEF Row
  <2>4. /\ [r EXCEPT !.cursor = k].version = r.version
        /\ [r EXCEPT !.cursor = k].processing = r.processing
        /\ [r EXCEPT !.cursor = k].cursor = k
    BY DEF Row
  <2> QED BY <1>1, <2>1, <2>2, <2>3, <2>4 DEF MovedOn
<1> QED BY <1>2, <1>3

LEMMA BegunRow ==
  ASSUME NEW r \in Row, NEW e \in Nat
  PROVE  /\ Begun(r, e) \in Row
         /\ Begun(r, e).version = r.version
         /\ Begun(r, e).processing = e
         /\ Begun(r, e).cursor = r.cursor
<1> DEFINE n == r.turns + 1
<1>1. n \in Nat /\ Begun(r, e) = [r EXCEPT !.processing = e, !.recent = TRUE, !.turns = n]
  BY DEF Begun, Row
<1> HIDE DEF n
<1> DEFINE q == [r EXCEPT !.processing = e, !.recent = TRUE, !.turns = n]
<1>2. q \in Row
  BY <1>1 DEF Row
<1>3. q.version = r.version /\ q.processing = e /\ q.cursor = r.cursor
  BY <1>1 DEF Row
<1> QED BY <1>1, <1>2, <1>3

Done(r, q, e) ==
  /\ q \in Row /\ q.version = r.version
  /\ r.processing # e => q = r
  /\ r.processing = e =>
       /\ q.processing = 0 /\ q.cursor >= r.cursor /\ q.cursor >= e
       /\ q.cursor = r.cursor \/ q.cursor = e

LEMMA CompletedIs ==
  ASSUME NEW r \in Row, NEW e \in Nat
  PROVE  Done(r, Completed(r, e), e)
<1>1. r.cursor \in Nat
  BY DEF Row
<1>2. CASE r.processing # e
  BY <1>2 DEF Completed, Done
<1>3. CASE r.processing = e
  <2> DEFINE k == Later(r.cursor, e)
             q == [r EXCEPT !.cursor = k, !.processing = 0, !.recent = FALSE,
                            !.error = FALSE]
  <2>1. k \in Nat /\ k >= r.cursor /\ k >= e /\ (k = r.cursor \/ k = e)
    BY <1>1, LaterIs
  <2>2. Completed(r, e) = q
    BY <1>3 DEF Completed, Row
  <2> HIDE DEF k
  <2>3. q \in Row /\ q.version = r.version /\ q.processing = 0 /\ q.cursor = k
    BY <2>1 DEF Row
  <2> HIDE DEF q
  <2> QED BY <1>1, <1>3, <2>1, <2>2, <2>3 DEF Done
<1> QED BY <1>2, <1>3

LEMMA FailedIs ==
  ASSUME NEW r \in Row
  PROVE  /\ Failed(r) \in Row
         /\ Failed(r).version = r.version /\ Failed(r).cursor = r.cursor
         /\ Failed(r).processing = r.processing
  BY DEF Failed, Row

(* The cursor only moves on: what was begun stays behind it.               *)
LEMMA RowKept ==
  ASSUME Inv, TypeOK', UNCHANGED <<head, begun, overlapped>>,
         row'.processing = row.processing \/ row'.processing = 0,
         row'.cursor >= row.cursor, row'.cursor <= head,
         row'.processing # row.processing => row'.cursor >= row.processing
  PROVE  RowFine'
<1>1. TypeOK /\ RowFine
  BY Parts DEF Whole
<1>2. /\ row.cursor \in Nat /\ row'.cursor \in Nat /\ row.processing \in Nat
      /\ head \in Nat
  BY <1>1 DEF TypeOK, Row
<1>3. BegunIsBehind'
  BY <1>1, <1>2 DEF RowFine, BegunIsBehind
<1> QED BY <1>1, <1>2, <1>3 DEF RowFine, OneTurnPerEvent

LEMMA SkipStep ==
  ASSUME Inv, NEW w \in Worker, Skip(w)
  PROVE  Inv'
<1>1. TypeOK /\ RowFine /\ Fine(w)
  BY Parts DEF Whole
<1> DEFINE s == sweep[w]
<1>2. /\ s \in Sweep /\ s.step = "page" /\ s.at \in Nat /\ s.end \in Nat /\ s.version \in Nat
      /\ s.at < s.end /\ s.end <= head /\ head \in Nat
      /\ row \in Row /\ row.cursor \in Nat /\ row.cursor <= head /\ row.version \in Nat
  BY <1>1 DEF Skip, InPage, Fine, RowFine, TypeOK, Sweep, Row
<1>3. /\ row' \in Row
      /\ row'.version = row.version /\ row'.processing = row.processing
      /\ row'.cursor >= row.cursor
      /\ row'.cursor = row.cursor \/ row'.cursor = s.at + 1
  <2>1. CASE row' = row
    BY <1>2, <2>1
  <2>2. CASE row' = Advanced(row, s.version, s.at + 1)
    <3>1. s.at + 1 \in Nat
      BY <1>2
    <3>2. MovedOn(row, row', s.at + 1)
      BY <1>2, <2>2, <3>1, AdvancedIs
    <3> QED BY <3>2 DEF MovedOn
  <2> QED BY <2>1, <2>2 DEF Skip
<1>4. row.version = s.version /\ row.processing = 0 /\ row.cursor <= s.at =>
        row'.cursor <= s.at + 1
  BY <1>2, <1>3
<1>5. /\ sweep' \in [Worker -> Sweep]
      /\ sweep'[w].at = s.at + 1
      /\ sweep'[w].step = s.step /\ sweep'[w].version = s.version
      /\ sweep'[w].grant = s.grant /\ sweep'[w].end = s.end
      /\ \A v \in Worker \ {w} : sweep'[v] = sweep[v]
  <2> DEFINE k == s.at + 1
  <2>1. k \in Nat /\ sweep' = [sweep EXCEPT ![w].at = k]
    BY <1>1, <1>2 DEF Skip, TypeOK
  <2> HIDE DEF k
  <2>2. [s EXCEPT !.at = k] \in Sweep
    BY <1>2, <2>1 DEF Sweep
  <2> DEFINE u == [s EXCEPT !.at = k]
  <2>3. sweep' = [sweep EXCEPT ![w] = u]
    BY <2>1
  <2>4. /\ u.at = k /\ u.step = s.step /\ u.version = s.version
        /\ u.grant = s.grant /\ u.end = s.end
    BY <1>2 DEF Sweep
  <2> HIDE DEF u
  <2>5. sweep \in [Worker -> Sweep] /\ u \in Sweep
    BY <1>1, <2>2 DEF TypeOK, u
  <2>6. /\ sweep' \in [Worker -> Sweep] /\ sweep'[w] = u
        /\ \A v \in Worker \ {w} : sweep'[v] = sweep[v]
    BY <2>3, <2>5
  <2> QED BY <2>4, <2>6 DEF k
<1>6. UNCHANGED <<head, expired, grant, up, turn, begun, overlapped, faults>>
  BY DEF Skip
<1>7. TypeOK' /\ Only(w)
  BY <1>1, <1>3, <1>5, <1>6 DEF TypeOK, Only
<1>8. RowFine'
  BY <1>2, <1>3, <1>6, <1>7, RowKept
<1>9. Fine(w)'
  BY <1>1, <1>2, <1>3, <1>4, <1>5, <1>6 DEF Fine, Checking, Changed
<1>10. up[w] # "down"
  BY <1>1, <1>2 DEF Fine
<1> QED BY <1>3, <1>6, <1>7, <1>8, <1>9, <1>10, RowMoves

LEMMA EndPageStep ==
  ASSUME Inv, NEW w \in Worker, EndPage(w)
  PROVE  Inv'
<1>1. TypeOK /\ RowFine /\ Fine(w) /\ Rest(w)
  BY Parts DEF Whole, EndPage
<1> DEFINE s == sweep[w]
<1>2. /\ s.step = "page" /\ s.end \in Nat /\ s.version \in Nat
      /\ s.end <= head /\ head \in Nat
      /\ row \in Row /\ row.cursor \in Nat /\ row.cursor <= head
  BY <1>1 DEF EndPage, Fine, RowFine, TypeOK, Sweep, Row
<1>3. /\ row' \in Row
      /\ row'.version = row.version /\ row'.processing = row.processing
      /\ row'.cursor >= row.cursor
      /\ row'.cursor = row.cursor \/ row'.cursor = s.end
  <2>1. MovedOn(row, row', s.end)
    BY <1>2, AdvancedIs DEF EndPage
  <2> QED BY <2>1 DEF MovedOn
<1>4. UNCHANGED <<head, expired, grant, up, turn, begun, overlapped, faults>>
  BY DEF EndPage
<1>5. TypeOK' /\ Only(w)
  BY <1>1, <1>3, <1>4, RestIs DEF TypeOK, Only
<1>6. RowFine'
  BY <1>2, <1>3, <1>4, <1>5, RowKept
<1>7. Fine(w)'
  BY <1>1, <1>2, <1>3, <1>4, RestIs DEF Fine, Checking, Changed
<1>8. up[w] # "down"
  BY <1>1, <1>2 DEF Fine
<1> QED BY <1>3, <1>4, <1>5, <1>6, <1>7, <1>8, RowMoves

LEMMA ReportStep ==
  ASSUME Inv, NEW w \in Worker, Report(w)
  PROVE  Inv'
<1>1. TypeOK /\ RowFine /\ Fine(w) /\ Rest(w)
  BY Parts DEF Whole, Report
<1>2. /\ row \in Row /\ row.cursor \in Nat /\ row.cursor <= head /\ head \in Nat
      /\ sweep[w].step = "report"
  BY <1>1 DEF Report, RowFine, TypeOK, Row
<1>3. /\ row' \in Row /\ row'.version = row.version
      /\ row'.processing = row.processing /\ row'.cursor = row.cursor
  BY <1>2, FailedIs DEF Report
<1>4. UNCHANGED <<head, expired, grant, up, turn, begun, overlapped, faults>>
  BY DEF Report
<1>5. TypeOK' /\ Only(w)
  BY <1>1, <1>3, <1>4, RestIs DEF TypeOK, Only
<1>6. RowFine'
  BY <1>2, <1>3, <1>4, <1>5, RowKept
<1>7. Fine(w)'
  BY <1>1, <1>2, <1>3, <1>4, RestIs DEF Fine, Checking, Changed
<1>8. up[w] # "down"
  BY <1>1, <1>2 DEF Fine
<1> QED BY <1>3, <1>4, <1>5, <1>6, <1>7, <1>8, RowMoves

LEMMA NextEvent ==
  ASSUME NEW a \in Nat, NEW b \in Nat, NEW h \in Nat, a < b, b <= h, h <= MaxEvents
  PROVE  a + 1 \in Event /\ a + 1 <= h
  BY NatConstants

(* A turn is begun only from a check that is up to date: its event was not *)
(* begun before.                                                           *)
LEMMA Fresh ==
  ASSUME Inv, NEW w \in Worker, InPage(w), Beginnable(row, sweep[w].version)
  PROVE  /\ sweep[w].at \in Nat /\ sweep[w].at + 1 \in Event /\ sweep[w].at + 1 <= head
         /\ row.processing = 0
         /\ ~overlapped => begun[sweep[w].at + 1] = 0
         /\ \A e \in Event : begun[e] > 0 => e <= row.cursor
<1>1. TypeOK /\ RowFine /\ Fine(w)
  BY Parts DEF Whole
<1>2. /\ sweep[w].at \in Nat /\ sweep[w].end \in Nat /\ head \in Nat
      /\ row.cursor \in Nat /\ MaxEvents \in Nat /\ head <= MaxEvents
  BY <1>1, NatConstants DEF TypeOK, Sweep, Row, RowFine
<1>3. sweep[w].at < sweep[w].end /\ sweep[w].end <= head
  BY <1>1 DEF InPage, Fine
<1>4. sweep[w].at + 1 \in Event /\ sweep[w].at + 1 <= head
  BY <1>2, <1>3, NextEvent
<1>5. row.processing = 0 /\ row.version = sweep[w].version
  BY DEF Beginnable
<1>6. \A e \in Event : begun[e] > 0 => e <= row.cursor
  BY <1>1, <1>5 DEF RowFine, BegunIsBehind
<1>7. ~overlapped => row.cursor <= sweep[w].at
  BY <1>1, <1>5 DEF Fine, Checking, InPage
<1> DEFINE e == sweep[w].at + 1
<1>8. e \in Event /\ e > sweep[w].at
  BY <1>2, <1>4
<1>9. begun[e] \in Nat
  BY <1>1, <1>8 DEF TypeOK
<1> HIDE DEF e
<1>10. ~overlapped => begun[e] = 0
  <2>1. e \in Nat
    BY <1>8 DEF Event
  <2>2. begun[e] > 0 => e <= row.cursor
    BY <1>6, <1>8
  <2> QED BY <1>2, <1>7, <1>8, <1>9, <2>1, <2>2
<1> QED BY <1>2, <1>4, <1>5, <1>6, <1>10 DEF e

LEMMA NewTurnIs ==
  ASSUME NEW s \in Sweep
  PROVE  /\ NewTurn(s) \in Turn
         /\ NewTurn(s).step = "vet" /\ NewTurn(s).late = 0
         /\ NewTurn(s).version = s.version /\ NewTurn(s).grant = s.grant
<1> DEFINE k == s.at + 1
<1>1. k \in Nat /\ s.version \in Nat /\ s.grant \in Grant \cup {Withheld}
  BY DEF Sweep
<1>2. NewTurn(s) = [NoTurn EXCEPT !.step = "vet", !.event = k, !.version = s.version,
                                  !.grant = s.grant]
  BY DEF NewTurn
<1> HIDE DEF k
<1>3. NewTurn(s) \in Turn
  BY <1>1, <1>2, Blank DEF Turn
<1>4. NoTurn \in Turn /\ NoTurn.late = 0
  BY Blank, Fields
<1> QED BY <1>2, <1>3, <1>4 DEF Turn

LEMMA BeginStep ==
  ASSUME Inv, NEW w \in Worker, Begin(w)
  PROVE  Inv'
<1>1. TypeOK /\ RowFine /\ Fine(w) /\ Rest(w)
  BY Parts DEF Whole, Begin
<1> DEFINE e0 == sweep[w].at + 1
<1>2. InPage(w) /\ Beginnable(row, sweep[w].version) /\ up[w] = "up"
  BY DEF Begin
<1>3. /\ e0 \in Event /\ e0 \in Nat /\ e0 <= head /\ row.processing = 0
      /\ ~overlapped => begun[e0] = 0
      /\ \A e \in Event : begun[e] > 0 => e <= row.cursor
  BY <1>2, Fresh
<1>4. /\ row \in Row /\ row.cursor \in Nat /\ row.cursor <= head /\ head \in Nat
      /\ sweep[w] \in Sweep /\ sweep[w].version \in Nat /\ row.version = sweep[w].version
  BY <1>1, <1>2 DEF Beginnable, RowFine, TypeOK, Row, Sweep
<1>5. /\ row' \in Row /\ row'.version = row.version
      /\ row'.processing = e0 /\ row'.cursor = row.cursor
  <2>1. row' = Begun(row, e0)
    BY DEF Begin
  <2> HIDE DEF e0
  <2> QED BY <1>3, <1>4, <2>1, BegunRow
<1>6. /\ begun' \in [Event -> Nat] /\ begun'[e0] = begun[e0] + 1
      /\ \A e \in Event \ {e0} : begun'[e] = begun[e]
  BY <1>1, <1>3 DEF Begin, TypeOK
<1>7. /\ NewTurn(sweep[w]) \in Turn /\ NewTurn(sweep[w]).step = "vet"
      /\ NewTurn(sweep[w]).late = 0
      /\ NewTurn(sweep[w]).version = sweep[w].version
      /\ NewTurn(sweep[w]).grant = sweep[w].grant
  BY <1>4, NewTurnIs
<1>8. /\ turn' \in [Worker -> Turn] /\ turn'[w] = NewTurn(sweep[w])
      /\ \A v \in Worker \ {w} : turn'[v] = turn[v]
  BY <1>1, <1>7 DEF Begin, TypeOK
<1>9. UNCHANGED <<head, expired, grant, up, overlapped, faults>>
  BY DEF Begin
<1>10. TypeOK' /\ Only(w)
  BY <1>1, <1>5, <1>6, <1>8, <1>9, RestIs DEF TypeOK, Only
<1>11. RowFine'
  <2>1. \A e \in Event : begun[e] \in Nat
    BY <1>1 DEF TypeOK
  <2>2. BegunIsBehind'
    BY <1>3, <1>5, <1>6, <2>1 DEF BegunIsBehind
  <2>3. OneTurnPerEvent'
    BY <1>1, <1>3, <1>6, <1>9, <2>1 DEF RowFine, OneTurnPerEvent
  <2>4. \A e \in Event : begun'[e] > 0 => e <= head
    BY <1>1, <1>3, <1>6 DEF RowFine
  <2> QED BY <1>1, <1>3, <1>4, <1>5, <1>9, <2>2, <2>3, <2>4 DEF RowFine
<1>12. Fine(w)'
  <2>1. sweep'[w].step = "idle"
    BY <1>1, RestIs
  <2> QED BY <1>2, <1>4, <1>5, <1>7, <1>8, <1>9, <2>1 DEF Fine, Checking, Changed
<1> QED BY <1>2, <1>5, <1>9, <1>10, <1>11, <1>12, RowMoves

LEMMA BeginLostStep ==
  ASSUME Inv, NEW w \in Worker, BeginLost(w)
  PROVE  Inv'
<1>1. TypeOK /\ RowFine /\ Fine(w) /\ Go(w, "report")
  BY Parts DEF Whole, BeginLost
<1> DEFINE e0 == sweep[w].at + 1
<1>2. InPage(w) /\ Beginnable(row, sweep[w].version) /\ up[w] = "up"
  BY DEF BeginLost
<1>3. /\ e0 \in Nat /\ e0 <= head /\ row.processing = 0
      /\ \A e \in Event : begun[e] > 0 => e <= row.cursor
  BY <1>2, Fresh
<1>4. row \in Row /\ row.cursor \in Nat /\ row.cursor <= head /\ head \in Nat
  BY <1>1 DEF RowFine, TypeOK, Row
<1>5. /\ row' \in Row /\ row'.version = row.version
      /\ row'.processing = e0 /\ row'.cursor = row.cursor
  <2>1. row' = Begun(row, e0)
    BY DEF BeginLost
  <2> HIDE DEF e0
  <2> QED BY <1>3, <1>4, <2>1, BegunRow
<1>6. UNCHANGED <<head, expired, grant, up, turn, begun, overlapped>> /\ faults' \in Nat
  BY <1>1 DEF BeginLost, Fault, TypeOK
<1>7. TypeOK' /\ Only(w)
  BY <1>1, <1>5, <1>6, GoIs DEF TypeOK, Only
<1>8. RowFine'
  BY <1>1, <1>3, <1>4, <1>5, <1>6 DEF RowFine, BegunIsBehind, OneTurnPerEvent
<1>9. Fine(w)'
  <2>1. sweep'[w].step = "report"
    BY <1>1, GoIs
  <2> QED BY <1>1, <1>2, <1>5, <1>6, <2>1 DEF Fine, Checking, Changed
<1> QED BY <1>2, <1>5, <1>6, <1>7, <1>8, <1>9, RowMoves

(* The completion, whether the worker is told or not.                      *)
LEMMA CompletionStep ==
  ASSUME Inv, NEW w \in Worker, NEW c \in {"beat", "fail"},
         turn[w].step = "complete",
         row' = Completed(row, turn[w].event),
         To(w, c), faults' \in Nat,
         UNCHANGED <<head, expired, grant, up, sweep, begun, overlapped>>
  PROVE  Inv'
<1>1. TypeOK /\ RowFine /\ Fine(w)
  BY Parts DEF Whole
<1>2. /\ row \in Row /\ row.cursor \in Nat /\ row.cursor <= head /\ head \in Nat
      /\ row.processing \in Nat /\ row.processing <= head
      /\ turn[w] \in Turn /\ turn[w].event \in Nat
  BY <1>1 DEF RowFine, TypeOK, Row, Turn
<1>3. /\ row' \in Row /\ row'.version = row.version
      /\ row'.processing = row.processing \/ row'.processing = 0
      /\ row'.cursor >= row.cursor /\ row'.cursor <= head
      /\ row'.processing # row.processing => row'.cursor >= row.processing
  <2>1. Done(row, row', turn[w].event)
    BY <1>2, CompletedIs
  <2> QED BY <1>2, <2>1 DEF Done
<1>4. c \in {"none", "vet", "act", "answer", "complete", "beat", "fail"}
  OBVIOUS
<1>5. To(w, c)
  OBVIOUS
<1>6. /\ turn' \in [Worker -> Turn]
      /\ turn'[w].step = c /\ turn'[w].version = turn[w].version
      /\ turn'[w].grant = turn[w].grant /\ turn'[w].late = turn[w].late
      /\ \A v \in Worker \ {w} : turn'[v] = turn[v]
  BY <1>1, <1>4, <1>5, ToIs
<1>7. TypeOK' /\ Only(w)
  BY <1>1, <1>3, <1>6 DEF TypeOK, Only
<1>8. RowFine'
  BY <1>3, <1>7, RowKept
<1>9. Fine(w)'
  BY <1>1, <1>3, <1>6 DEF Fine, Checking, Changed
<1>10. up[w] # "down"
  BY <1>1 DEF Fine
<1> QED BY <1>3, <1>7, <1>8, <1>9, <1>10, RowMoves

LEMMA CompleteStep ==
  ASSUME Inv, NEW w \in Worker, Complete(w) \/ CompleteLost(w)
  PROVE  Inv'
<1>1. faults' \in Nat
  BY DEF Inv, TypeOK, Complete, CompleteLost, Fault
<1> QED BY <1>1, CompletionStep DEF Complete, CompleteLost

LEMMA FailStep ==
  ASSUME Inv, NEW w \in Worker, Fail(w)
  PROVE  Inv'
<1>1. TypeOK /\ RowFine /\ Fine(w) /\ EndTurn(w)
  BY Parts DEF Whole, Fail
<1>2. /\ row \in Row /\ row.cursor \in Nat /\ row.cursor <= head /\ head \in Nat
      /\ turn[w].step = "fail"
  BY <1>1 DEF Fail, RowFine, TypeOK, Row
<1>3. /\ row' \in Row /\ row'.version = row.version
      /\ row'.processing = row.processing /\ row'.cursor = row.cursor
  BY <1>2, FailedIs DEF Fail
<1>4. UNCHANGED <<head, expired, grant, up, sweep, begun, overlapped, faults>>
  BY DEF Fail
<1>5. TypeOK' /\ Only(w)
  BY <1>1, <1>3, <1>4, EndTurnIs DEF TypeOK, Only
<1>6. RowFine'
  BY <1>2, <1>3, <1>4, <1>5, RowKept
<1>7. Fine(w)'
  BY <1>1, <1>2, <1>3, <1>4, EndTurnIs DEF Fine, Checking, Changed
<1>8. up[w] # "down"
  BY <1>1, <1>2 DEF Fine
<1> QED BY <1>3, <1>4, <1>5, <1>6, <1>7, <1>8, RowMoves

-----------------------------------------------------------------------------
(* The administrator, the inbox and the passage of time.                   *)

LEMMA ConfiguredIs ==
  ASSUME NEW r \in Row, head \in Nat, NEW b \in BOOLEAN, NEW reset \in BOOLEAN,
         NEW s \in Selection
  PROVE  LET q == Configured(r, b, s, reset)
         IN /\ q \in Row /\ q.version = r.version + 1
            /\ reset => q.cursor = head /\ q.processing = 0
            /\ ~reset => q.cursor = r.cursor /\ q.processing = r.processing
<1> DEFINE q0 == [r EXCEPT !.enabled = b, !.events = s, !.version = @ + 1]
           q1 == [q0 EXCEPT !.cursor = head, !.processing = 0, !.recent = FALSE,
                            !.error = FALSE]
<1>1. /\ q0 \in Row /\ q0.version = r.version + 1 /\ q0.cursor = r.cursor
      /\ q0.processing = r.processing
  <2> DEFINE n == r.version + 1
  <2>1. n \in Nat /\ q0 = [r EXCEPT !.enabled = b, !.events = s, !.version = n]
    BY DEF Row
  <2>2. s \in SUBSET Kind
    BY AgentAssumption
  <2> HIDE DEF n, q0
  <2>3. q0 \in Row /\ q0.version = n /\ q0.cursor = r.cursor
        /\ q0.processing = r.processing
    BY <2>1, <2>2 DEF Row
  <2> QED BY <2>3 DEF n
<1> HIDE DEF q0
<1>2. q1 \in Row /\ q1.version = q0.version /\ q1.cursor = head /\ q1.processing = 0
  BY <1>1 DEF Row
<1> HIDE DEF q1
<1>3. Configured(r, b, s, reset) = IF reset THEN q1 ELSE q0
  BY DEF Configured, q0, q1
<1> QED BY <1>1, <1>2, <1>3

(* A new version, with the cursor at the head or everything else as it was.*)
LEMMA ConfigureStep ==
  ASSUME Inv, NEW b \in BOOLEAN, NEW reset \in BOOLEAN, NEW s \in Selection,
         Configure(b, s, reset)
  PROVE  Inv'
<1>1. TypeOK /\ Alone /\ RowFine /\ \A w \in Worker : Fine(w)
  BY Parts DEF Whole
<1>2. /\ row \in Row /\ row.version \in Nat /\ row.cursor \in Nat /\ head \in Nat
      /\ row.processing \in Nat
  BY <1>1 DEF TypeOK, Row
<1>3. /\ row' \in Row /\ row'.version = row.version + 1
      /\ reset => row'.cursor = head /\ row'.processing = 0
      /\ ~reset => row'.cursor = row.cursor /\ row'.processing = row.processing
  BY <1>2, ConfiguredIs DEF Configure
<1>4. UNCHANGED <<head, expired, grant, up, sweep, turn, begun, overlapped, faults>>
  BY DEF Configure
<1>5. TypeOK' /\ Alone'
  BY <1>1, <1>3, <1>4 DEF TypeOK, Alone
<1>6. RowFine'
  BY <1>1, <1>2, <1>3, <1>4 DEF RowFine, BegunIsBehind, OneTurnPerEvent
<1>7. ASSUME NEW w \in Worker PROVE Fine(w)'
  <2>1. Fine(w) /\ sweep[w].version \in Nat /\ turn[w].version \in Nat
        /\ turn[w].late \in Nat
    BY <1>1 DEF TypeOK, Sweep, Turn
  <2>2. turn[w].late > 0 => turn[w].version <= row.version
    BY <2>1 DEF Fine
  <2>3. row'.version # row.version /\ row'.version > row.version
    BY <1>2, <1>3
  <2>4. turn[w].late > 0 => row'.version # turn[w].version
    BY <1>2, <1>3, <2>1, <2>2
  <2>5. turn'[w].late > 0 => Changed(turn[w])'
    BY <1>4, <2>4 DEF Changed
  <2>6. /\ UNCHANGED <<head, grant, up, sweep[w], turn[w], overlapped>>
        /\ row'.version # row.version /\ row'.version > row.version /\ row.version \in Nat
    BY <1>1, <1>4, <2>3 DEF TypeOK, Row
  <2>7. Checking(w)' <=> Checking(w)
    BY <2>6 DEF Checking
  <2>8. /\ turn[w].version <= row.version => turn[w].version <= row'.version
        /\ sweep[w].version <= row.version =>
             sweep[w].version <= row'.version /\ sweep[w].version # row'.version
    BY <1>2, <1>3, <2>1
  <2> QED BY <2>1, <2>5, <2>6, <2>7, <2>8 DEF Fine
<1> QED BY <1>5, <1>6, <1>7, SumNext DEF Whole

LEMMA ArriveStep ==
  ASSUME Inv, Arrive
  PROVE  Inv'
<1>1. TypeOK /\ Alone /\ RowFine /\ \A w \in Worker : Fine(w)
  BY Parts DEF Whole
<1>2. row.cursor \in Nat /\ row.processing \in Nat /\ head \in Nat /\ MaxEvents \in Nat
  BY <1>1, NatConstants DEF TypeOK, Row
<1>3. head' = head + 1 /\ head < MaxEvents
      /\ UNCHANGED <<row, expired, grant, up, sweep, turn, begun, overlapped, faults>>
  BY DEF Arrive
<1>4. TypeOK' /\ Alone'
  BY <1>1, <1>2, <1>3 DEF TypeOK, Alone
<1>5. RowFine'
  BY <1>1, <1>2, <1>3 DEF RowFine, BegunIsBehind, OneTurnPerEvent
<1>6. ASSUME NEW w \in Worker PROVE Fine(w)'
  <2>1. Fine(w) /\ sweep[w].end \in Nat
    BY <1>1 DEF TypeOK, Sweep
  <2> QED BY <1>2, <1>3, <2>1 DEF Fine, Checking, Changed
<1> QED BY <1>4, <1>5, <1>6, SumNext DEF Whole

LEMMA ExpireStep ==
  ASSUME Inv, Expire
  PROVE  Inv'
<1>1. TypeOK /\ Alone /\ RowFine /\ \A w \in Worker : Fine(w)
  BY Parts DEF Whole
<1>2. TypeOK' /\ Alone'
  BY <1>1 DEF Expire, Fault, TypeOK, Alone
<1>3. RowFine'
  BY <1>1 DEF Expire, RowFine, BegunIsBehind, OneTurnPerEvent
<1>4. \A w \in Worker : Fine(w)'
  BY <1>1 DEF Expire, Fine, Checking, Changed
<1> QED BY <1>2, <1>3, <1>4, SumNext DEF Whole

\* What a change of the credential does to a turn: it is the first step after this
\* change that will be late, unless the configuration has changed as well.
LEMMA TurnAfterGrant ==
  ASSUME NEW t \in Turn, NEW u,
         u = IF t.version = row.version THEN [t EXCEPT !.late = 0] ELSE t
  PROVE  /\ u \in Turn /\ u.step = t.step /\ u.event = t.event /\ u.version = t.version
         /\ u.late = IF t.version = row.version THEN 0 ELSE t.late
BY DEF Turn

(* A turn that is still late has a version that is no longer the row's.    *)
LEMMA ChangeGrantStep ==
  ASSUME Inv, NEW g \in Grant \cup {Withheld, Disabled}, ChangeGrant(g)
  PROVE  Inv'
<1>1. TypeOK /\ Alone /\ RowFine /\ \A w \in Worker : Fine(w)
  BY Parts DEF Whole
<1>2. /\ grant' = g
      /\ UNCHANGED <<row, head, expired, up, sweep, begun, overlapped, faults>>
  BY DEF ChangeGrant
<1>3. ASSUME NEW w \in Worker
      PROVE  /\ turn'[w] \in Turn /\ turn'[w].step = turn[w].step
             /\ turn'[w].version = turn[w].version
             /\ turn'[w].late = IF turn[w].version = row.version THEN 0 ELSE turn[w].late
  <2>1. /\ turn[w] \in Turn
        /\ turn'[w] = IF turn[w].version = row.version THEN [turn[w] EXCEPT !.late = 0]
                      ELSE turn[w]
    BY <1>1 DEF ChangeGrant, TypeOK
  <2> QED BY <2>1, TurnAfterGrant
<1>4. turn' \in [Worker -> Turn]
  BY <1>3 DEF ChangeGrant
<1>5. TypeOK' /\ Alone'
  BY <1>1, <1>2, <1>4 DEF TypeOK, Alone
<1>6. RowFine'
  BY <1>1, <1>2 DEF RowFine, BegunIsBehind, OneTurnPerEvent
<1>7. ASSUME NEW w \in Worker PROVE Fine(w)'
  <2>1. Fine(w) /\ turn[w].late \in Nat
    BY <1>1 DEF TypeOK, Turn
  <2>2. turn'[w].late > 0 => Changed(turn[w])'
    BY <1>2, <1>3 DEF Changed
  <2>3. UNCHANGED <<row, head, up, sweep[w], overlapped>> /\ (Checking(w)' <=> Checking(w))
    BY <1>2 DEF Checking
  <2> QED BY <1>3, <2>1, <2>2, <2>3 DEF Fine
<1> QED BY <1>5, <1>6, <1>7, SumNext DEF Whole

LEMMA TimeStep ==
  ASSUME Inv, TwoMinutesPass \/ HourPasses
  PROVE  Inv'
<1>1. TypeOK /\ Alone /\ RowFine /\ \A w \in Worker : Fine(w)
  BY Parts DEF Whole
<1>2. /\ row' \in Row /\ row'.version = row.version
      /\ row'.processing = row.processing /\ row'.cursor = row.cursor
  <2>1. row \in Row /\ (row' = [row EXCEPT !.recent = FALSE] \/ row' = [row EXCEPT !.turns = 0])
    BY <1>1 DEF TypeOK, TwoMinutesPass, HourPasses
  <2>2. CASE row' = [row EXCEPT !.recent = FALSE]
    BY <2>1, <2>2 DEF Row
  <2>3. CASE row' = [row EXCEPT !.turns = 0]
    BY <2>1, <2>3 DEF Row
  <2> QED BY <2>1, <2>2, <2>3
<1>3. UNCHANGED <<head, expired, grant, up, sweep, turn, begun, overlapped, faults>>
  BY DEF TwoMinutesPass, HourPasses
<1>4. TypeOK' /\ Alone'
  BY <1>1, <1>2, <1>3 DEF TypeOK, Alone
<1>5. RowFine'
  BY <1>1, <1>2, <1>3 DEF RowFine, BegunIsBehind, OneTurnPerEvent
<1>6. \A w \in Worker : Fine(w)'
  BY <1>1, <1>2, <1>3 DEF Fine, Checking, Changed
<1> QED BY <1>4, <1>5, <1>6, SumNext DEF Whole

-----------------------------------------------------------------------------
(* The theorems.                                                           *)

LEMMA Start0 == Init => Inv
<1> SUFFICES ASSUME Init PROVE Inv
  OBVIOUS
<1>1. /\ row \in Row /\ row.cursor = 0 /\ row.processing = 0
      /\ grant \in Grant
  <2>1. PICK events \in Selection :
          row = [enabled |-> TRUE, version |-> 1, events |-> events, cursor |-> 0,
                 processing |-> 0, recent |-> FALSE, error |-> FALSE, turns |-> 0]
    BY DEF Init
  <2>2. events \in SUBSET Kind
    BY AgentAssumption
  <2>3. row \in Row /\ row.cursor = 0 /\ row.processing = 0
    BY <2>1, <2>2 DEF Row
  <2>4. grant \in Grant
    BY DEF Init
  <2> QED BY <2>3, <2>4
<1>2. TypeOK
  BY <1>1, Blank DEF Init, TypeOK
<1>3. Alone
  BY DEF Init, Alone
<1>4. RowFine
  <2>1. head = 0 /\ \A e \in Event : begun[e] = 0
    BY DEF Init
  <2>2. row.cursor <= head /\ row.processing <= head /\ head <= MaxEvents
    BY <1>1, <2>1, NatConstants
  <2> QED BY <2>1, <2>2 DEF RowFine, BegunIsBehind, OneTurnPerEvent
<1>5. ASSUME NEW w \in Worker PROVE Fine(w)
  <2>1. sweep[w] = Asleep /\ turn[w] = NoTurn
    BY DEF Init
  <2>2. sweep[w].step = "idle" /\ turn[w].step = "none" /\ turn[w].late = 0
    BY <2>1, Fields
  <2> QED BY <2>2 DEF Fine, Checking
<1> QED BY <1>2, <1>3, <1>4, <1>5, Sum DEF Whole

LEMMA Stutter == Inv /\ UNCHANGED vars => Inv'
<1> SUFFICES ASSUME Inv, UNCHANGED vars PROVE Inv'
  OBVIOUS
<1>1. TypeOK /\ Alone /\ RowFine /\ \A w \in Worker : Fine(w)
  BY Parts DEF Whole
<1>2. TypeOK' /\ Alone'
  BY <1>1 DEF vars, TypeOK, Alone
<1>3. RowFine'
  BY <1>1 DEF vars, RowFine, BegunIsBehind, OneTurnPerEvent
<1>4. \A w \in Worker : Fine(w)'
  BY <1>1 DEF vars, Fine, Checking, Changed
<1> QED BY <1>2, <1>3, <1>4, SumNext DEF Whole

LEMMA WorldSteps == Inv /\ World => Inv'
  BY ConfigureStep, ArriveStep, ExpireStep, ChangeGrantStep, TimeStep DEF World

LEMMA WorkerSteps ==
  ASSUME Inv, NEW w \in Worker, Check(w) \/ Work(w) \/ Break(w) \/ Life(w)
  PROVE  Inv'
<1>1. CASE Check(w)
  BY <1>1, FindStep, ReadStep, PageStep, SkipStep, BeginStep, DeclineStep, EndPageStep,
     ReportStep DEF Check
<1>2. CASE Work(w)
  BY <1>2, VetStep, ActStep, AnswerStep, CompleteStep, BeatStep, FailStep DEF Work
<1>3. CASE Break(w)
  BY <1>3, AbortStep, CheckFailsStep, BeginLostStep, TurnFailsStep, CompleteStep,
     StartEarlyStep, StopStep, CrashStep DEF Break
<1>4. CASE Life(w)
  BY <1>4, StartStep, StoppedStep DEF Life
<1> QED BY <1>1, <1>2, <1>3, <1>4

(* The inductive invariant: what the rows, the checks and the turns of a   *)
(* hosted agent keep to (store.ts, worker.ts of the agent runtime).        *)
THEOREM InvHolds == Spec => []Inv
<1>1. Init => Inv
  BY Start0
<1>2. Inv /\ [Next]_vars => Inv'
  BY WorldSteps, WorkerSteps, Stutter DEF Next
<1> QED BY <1>1, <1>2, PTL DEF Spec

(* While no two workers overlap, no event is given to the model twice: not *)
(* after a crash, a failed call, a lost answer, a reset or a restart.      *)
THEOREM TurnsOnce == Spec => []OneTurnPerEvent
<1>1. Inv => OneTurnPerEvent
  BY DEF Inv
<1> QED BY <1>1, InvHolds, PTL

(* After a change of configuration, and after one of the credential until  *)
(* the next, a turn takes at most the one step vetted before the change.   *)
THEOREM LateOnce == Spec => []AtMostOneLateStep
<1>1. Inv => AtMostOneLateStep
  BY DEF Inv
<1> QED BY <1>1, InvHolds, PTL
-----------------------------------------------------------------------------
(* What the cursor passes.  Every worker's check and the turn in progress  *)
(* are ahead of the cursor only by events that may be passed.              *)

PassAt(w) ==
  Checking(w) =>
    /\ ~overlapped => row.processing = 0
    /\ sweep[w].version = row.version =>
         /\ sweep[w].events = row.events
         /\ sweep[w].step = "read" => sweep[w].at <= row.cursor
         /\ sweep[w].step = "page" =>
              \A e \in Event : row.cursor < e /\ e <= sweep[w].at => MayPass(e)

PassFine == (\A w \in Worker : PassAt(w)) /\ TurnPassedOver

LEMMA PassParts == IInv <=> Inv /\ PassFine
  BY DEF IInv, PassFine, PassAt, Checking, SelectionKept, ChecksWithoutProgress,
         CheckPassedOver

(* What a step may do to the cursor.                                       *)
Passes ==
  \A e \in 1 .. head :
    row.cursor < e /\ e <= row'.cursor =>
      \/ e = row.processing
      \/ Source[e] \notin row.events
      \/ row'.version # row.version
      \/ overlapped /\ ~row.enabled

Keeps == PassFine' /\ Passes

LEMMA RowTypes ==
  ASSUME Inv
  PROVE  /\ row \in Row /\ row.version \in Nat /\ row.cursor \in Nat
         /\ row.processing \in Nat /\ row.events \subseteq Kind
         /\ row.cursor <= head /\ head \in Nat /\ head <= MaxEvents
         /\ MaxEvents \in Nat
         /\ \A w \in Worker : sweep[w] \in Sweep /\ sweep[w].at \in Nat
                              /\ sweep[w].end \in Nat /\ sweep[w].version \in Nat
         /\ \A w \in Worker : Checking(w) => sweep[w].version <= row.version
  BY Parts, NatConstants DEF Whole, RowFine, Fine, TypeOK, Row, Sweep

(* The statements of the store leave the selection alone.                  *)
SameSelection(r, q) == q.events = r.events /\ q.enabled = r.enabled

LEMMA AdvancedSelects ==
  ASSUME NEW r \in Row, NEW v, NEW e
  PROVE  SameSelection(r, Advanced(r, v, e))
  BY DEF SameSelection, Advanced, Row

LEMMA BegunSelects ==
  ASSUME NEW r \in Row, NEW e
  PROVE  SameSelection(r, Begun(r, e))
  BY DEF SameSelection, Begun, Row

LEMMA CompletedSelects ==
  ASSUME NEW r \in Row, NEW e
  PROVE  SameSelection(r, Completed(r, e))
  BY DEF SameSelection, Completed, Row

LEMMA FailedSelects ==
  ASSUME NEW r \in Row
  PROVE  SameSelection(r, Failed(r))
  BY DEF SameSelection, Failed, Row

(* A worker's check stays what it is while the row moves on under it.      *)
LEMMA CheckKept ==
  ASSUME IInv, NEW v \in Worker, sweep'[v] = sweep[v], overlapped => overlapped',
         row' \in Row, row'.version >= row.version,
         row'.version = row.version =>
           row'.events = row.events /\ row'.cursor >= row.cursor,
         \/ row'.processing = row.processing
         \/ row'.processing = 0
         \/ ~overlapped => ~Checking(v)
  PROVE  PassAt(v)'
<1>1. PassAt(v)
  BY PassParts DEF PassFine
<1>2. SUFFICES ASSUME Checking(v)' PROVE PassAt(v)'
  BY DEF PassAt
<1>3. Checking(v)
  BY <1>2 DEF Checking
<1>4. ~overlapped' => row'.processing = 0
  BY <1>1, <1>3 DEF PassAt
<1>5. ASSUME sweep[v].version = row'.version
      PROVE  /\ row'.version = row.version
             /\ row.cursor \in Nat /\ row'.cursor \in Nat /\ sweep[v].at \in Nat
  <2>1. sweep[v].version <= row.version /\ sweep[v].version \in Nat /\ row.version \in Nat
        /\ row.cursor \in Nat /\ sweep[v].at \in Nat
    BY <1>3, RowTypes, PassParts
  <2>2. row'.cursor \in Nat /\ row'.version \in Nat
    BY DEF Row
  <2> QED BY <1>5, <2>1, <2>2
<1>6. sweep'[v].version = row'.version =>
        /\ sweep'[v].events = row'.events
        /\ sweep'[v].step = "read" => sweep'[v].at <= row'.cursor
        /\ sweep'[v].step = "page" =>
             \A e \in Event : row'.cursor < e /\ e <= sweep'[v].at => MayPass(e)'
  <2> SUFFICES ASSUME sweep[v].version = row'.version
               PROVE  /\ sweep[v].events = row'.events
                      /\ sweep[v].step = "read" => sweep[v].at <= row'.cursor
                      /\ sweep[v].step = "page" =>
                           \A e \in Event :
                             row'.cursor < e /\ e <= sweep[v].at => MayPass(e)'
    OBVIOUS
  <2>1. row'.version = row.version /\ row'.events = row.events /\ row'.cursor >= row.cursor
        /\ row.cursor \in Nat /\ row'.cursor \in Nat /\ sweep[v].at \in Nat
    BY <1>5
  <2>2. \A e \in Event : MayPass(e) => MayPass(e)'
    BY <2>1 DEF MayPass
  <2> QED BY <1>1, <1>3, <2>1, <2>2 DEF PassAt, Event
<1> QED BY <1>4, <1>6 DEF PassAt

(* A worker that does not check has nothing to keep.                       *)
LEMMA CheckOver ==
  ASSUME NEW v \in Worker, sweep'[v].step \notin {"read", "page"}
  PROVE  PassAt(v)'
  BY DEF PassAt, Checking

(* A turn that goes on, or none, while the row moves on.                   *)
LEMMA TurnKept ==
  ASSUME IInv, row' \in Row, overlapped => overlapped',
         row'.processing # 0 => row'.processing = row.processing /\ row'.cursor >= row.cursor,
         row'.enabled /\ row'.processing # 0 => row.enabled /\ row'.events = row.events
  PROVE  TurnPassedOver'
<1>1. TurnPassedOver
  BY DEF IInv
<1>2. row.cursor \in Nat /\ row'.cursor \in Nat /\ row.processing \in Nat
  BY RowTypes DEF IInv, Row
<1> QED BY <1>1, <1>2 DEF TurnPassedOver, Event

(* A step that leaves version, selection, cursor and event in progress as  *)
(* they are, and starts no check.                                          *)
LEMMA Quiet ==
  ASSUME IInv, row' \in Row, overlapped => overlapped',
         row'.version = row.version, SameSelection(row, row'),
         row'.cursor = row.cursor, row'.processing = row.processing,
         \A v \in Worker : sweep'[v] = sweep[v] \/ sweep'[v].step \notin {"read", "page"}
  PROVE  Keeps
<1>1. row.cursor \in Nat /\ row.version \in Nat
  BY RowTypes DEF IInv
<1>2. Passes
  BY <1>1 DEF Passes
<1>3. \A v \in Worker : PassAt(v)'
  BY <1>1, CheckKept, CheckOver DEF SameSelection
<1>4. TurnPassedOver'
  BY <1>1, TurnKept DEF SameSelection
<1> QED BY <1>2, <1>3, <1>4 DEF Keeps, PassFine
(* The check reads the row: it starts at the cursor, with its selection.   *)
LEMMA ReadKeeps ==
  ASSUME IInv, NEW w \in Worker, Read(w)
  PROVE  Keeps
<1>1. TypeOK /\ row \in Row /\ row.cursor \in Nat
  BY RowTypes DEF IInv, Inv
<1>2. UNCHANGED <<row, head, overlapped>>
  BY DEF Read
<1>3. CASE Rest(w)
  <2>1. \A v \in Worker : sweep'[v] = sweep[v] \/ sweep'[v].step \notin {"read", "page"}
    BY <1>1, <1>3, RestIs
  <2> QED BY <1>1, <1>2, <2>1, Quiet DEF SameSelection
<1>4. CASE Go(w, "report")
  <2>1. \A v \in Worker : sweep'[v] = sweep[v] \/ sweep'[v].step \notin {"read", "page"}
    BY <1>1, <1>4, GoIs
  <2> QED BY <1>1, <1>2, <2>1, Quiet DEF SameSelection
<1>5. CASE sweep' = [sweep EXCEPT ![w] = Snapshot] /\ row.processing = 0
  <2>1. /\ Snapshot.step = "read" /\ Snapshot.events = row.events
        /\ Snapshot.at = row.cursor
    BY DEF Asleep, Snapshot
  <2>2. sweep'[w] = Snapshot /\ \A v \in Worker \ {w} : sweep'[v] = sweep[v]
    BY <1>1, <1>5 DEF TypeOK
  <2>3. PassAt(w)'
    BY <1>1, <1>2, <1>5, <2>1, <2>2 DEF PassAt
  <2>4. \A v \in Worker : PassAt(v)'
    BY <1>1, <1>2, <2>2, <2>3, RowTypes, CheckKept DEF IInv
  <2>5. TurnPassedOver'
    BY <1>1, <1>2, TurnKept
  <2>6. Passes
    BY <1>1, <1>2 DEF Passes
  <2> QED BY <2>4, <2>5, <2>6 DEF Keeps, PassFine
<1> QED BY <1>3, <1>4, <1>5 DEF Read

(* The page is read from where the check stands.                           *)
LEMMA PageKeeps ==
  ASSUME IInv, NEW w \in Worker, Page(w)
  PROVE  Keeps
<1>1. TypeOK /\ row \in Row /\ row.cursor \in Nat /\ sweep[w] \in Sweep
      /\ sweep[w].at \in Nat /\ sweep[w].step = "read"
  BY RowTypes DEF IInv, Inv, Page
<1>2. UNCHANGED <<row, head, overlapped>>
  BY DEF Page
<1>3. CASE Go(w, "report")
  <2>1. \A v \in Worker : sweep'[v] = sweep[v] \/ sweep'[v].step \notin {"read", "page"}
    BY <1>1, <1>3, GoIs
  <2> QED BY <1>1, <1>2, <2>1, Quiet DEF SameSelection
<1>4. CASE ~ResetRequired(sweep[w].at) /\ sweep' = [sweep EXCEPT ![w] = Paged(@)]
  <2>1. Later(sweep[w].at, expired) = sweep[w].at
    BY <1>1, <1>4 DEF ResetRequired, Floor, Later, TypeOK
  <2>2. /\ sweep'[w].step = "page" /\ sweep'[w].version = sweep[w].version
        /\ sweep'[w].events = sweep[w].events /\ sweep'[w].at = sweep[w].at
        /\ \A v \in Worker \ {w} : sweep'[v] = sweep[v]
    <3>1. sweep'[w] = Paged(sweep[w]) /\ \A v \in Worker \ {w} : sweep'[v] = sweep[v]
      BY <1>1, <1>4 DEF TypeOK
    <3>2. /\ Paged(sweep[w]).step = "page" /\ Paged(sweep[w]).version = sweep[w].version
          /\ Paged(sweep[w]).events = sweep[w].events
          /\ Paged(sweep[w]).at = Later(sweep[w].at, expired)
      BY <1>1 DEF Paged, Sweep
    <3> QED BY <2>1, <3>1, <3>2
  <2>3. PassAt(w)'
    <3>1. PassAt(w) /\ Checking(w)
      BY <1>1, PassParts DEF PassFine, Checking
    <3> QED BY <1>1, <1>2, <2>2, <3>1 DEF PassAt, Checking, Event
  <2>4. \A v \in Worker : PassAt(v)'
    BY <1>1, <1>2, <2>2, <2>3, RowTypes, CheckKept DEF IInv
  <2>5. TurnPassedOver'
    BY <1>1, <1>2, TurnKept
  <2>6. Passes
    BY <1>1, <1>2 DEF Passes
  <2> QED BY <2>4, <2>5, <2>6 DEF Keeps, PassFine
<1> QED BY <1>3, <1>4 DEF Page

(* Where an advance may take the cursor: past what may be passed.          *)
LEMMA AdvanceKeeps ==
  ASSUME IInv, NEW w \in Worker, sweep[w].step = "page",
         NEW e \in Nat, e <= sweep[w].at \/ e = sweep[w].at + 1,
         e = sweep[w].at + 1 =>
           e \in Event /\ Source[e] \notin sweep[w].events,
         row' = Advanced(row, sweep[w].version, e),
         UNCHANGED <<head, overlapped>>,
         \A v \in Worker \ {w} : sweep'[v] = sweep[v],
         PassAt(w)'
  PROVE  Keeps
<1>1. /\ row \in Row /\ row.cursor \in Nat /\ row.version \in Nat /\ row.processing \in Nat
      /\ sweep[w].at \in Nat /\ sweep[w].version \in Nat /\ head \in Nat
      /\ head <= MaxEvents /\ MaxEvents \in Nat
  BY RowTypes DEF IInv
<1>2. MovedOn(row, row', e) /\ SameSelection(row, row')
  BY <1>1, AdvancedIs, AdvancedSelects
<1>3. \A v \in Worker : PassAt(v)'
  BY <1>1, <1>2, CheckKept DEF MovedOn, SameSelection
<1>4. TurnPassedOver'
  BY <1>1, <1>2, TurnKept DEF MovedOn, SameSelection
<1>5. Passes
  <2>1. CASE row.version = sweep[w].version
    <3>1. PassAt(w) /\ Checking(w)
      BY PassParts DEF PassFine, Checking
    <3>2. sweep[w].events = row.events
          /\ \A d \in Event : row.cursor < d /\ d <= sweep[w].at => MayPass(d)
      BY <2>1, <3>1 DEF PassAt
    <3>3. ASSUME NEW d \in 1 .. head, row.cursor < d, d <= row'.cursor
          PROVE  Source[d] \notin row.events
      <4>1. d \in Event /\ d <= e /\ d \in Nat
        BY <1>1, <1>2, <3>3 DEF MovedOn, Event
      <4>2. CASE d <= sweep[w].at
        BY <3>2, <3>3, <4>1, <4>2 DEF MayPass
      <4>3. CASE d = sweep[w].at + 1
        BY <1>1, <3>2, <4>1, <4>3
      <4> QED BY <1>1, <4>1, <4>2, <4>3
    <3> QED BY <3>3 DEF Passes
  <2>2. CASE row.version # sweep[w].version
    BY <1>1, <2>2 DEF Advanced, Passes
  <2> QED BY <2>1, <2>2
<1> QED BY <1>3, <1>4, <1>5 DEF Keeps, PassFine
LEMMA SkipKeeps ==
  ASSUME IInv, NEW w \in Worker, Skip(w)
  PROVE  Keeps
<1> DEFINE a == sweep[w].at
           e0 == sweep[w].at + 1
<1>1. /\ row \in Row /\ row.cursor \in Nat /\ row.version \in Nat /\ row.processing \in Nat
      /\ row.events \subseteq Kind /\ sweep[w] \in Sweep
      /\ a \in Nat /\ sweep[w].end \in Nat /\ head \in Nat /\ head <= MaxEvents
      /\ MaxEvents \in Nat /\ TypeOK
  BY RowTypes DEF IInv, Inv
<1>2. InPage(w) /\ sweep[w].step = "page" /\ UNCHANGED <<head, overlapped>>
      /\ Source[e0] \notin sweep[w].events
  BY DEF Skip, InPage, Ahead
<1>3. e0 \in Event /\ e0 \in Nat /\ e0 > a
  <2>1. Fine(w) /\ a < sweep[w].end
    BY <1>2, Parts DEF IInv, Whole, InPage
  <2>2. sweep[w].end <= head
    BY <1>2, <2>1 DEF Fine
  <2> QED BY <1>1, <2>1, <2>2, NextEvent
<1>4. /\ sweep'[w].at = e0
      /\ sweep'[w].step = "page" /\ sweep'[w].version = sweep[w].version
      /\ sweep'[w].events = sweep[w].events
      /\ \A v \in Worker \ {w} : sweep'[v] = sweep[v]
  <2>1. sweep' = [sweep EXCEPT ![w].at = a + 1]
    BY DEF Skip
  <2> QED BY <1>1, <1>2, <2>1 DEF TypeOK, Sweep
<1>5. PassAt(w) /\ Checking(w)
  BY <1>2, PassParts DEF PassFine, Checking
<1>6. CASE Source[e0] = Hidden
  <2>1. row' = row
    BY <1>6 DEF Skip, Ahead
  <2>2. MayPass(e0)
    BY <1>1, <1>6, AgentAssumption DEF MayPass
  <2>3. PassAt(w)'
    <3>1. \A e \in Event : MayPass(e) => MayPass(e)'
      BY <1>2, <2>1 DEF MayPass
    <3>2. sweep[w].version = row.version =>
            \A e \in Event : row.cursor < e /\ e <= e0 => MayPass(e)
      BY <1>1, <1>2, <1>3, <1>5, <2>2 DEF PassAt
    <3> QED BY <1>2, <1>4, <1>5, <2>1, <3>1, <3>2 DEF PassAt, Checking
  <2>4. \A v \in Worker : PassAt(v)'
    BY <1>1, <1>2, <1>4, <2>1, <2>3, CheckKept
  <2>5. TurnPassedOver'
    BY <1>1, <1>2, <2>1, TurnKept
  <2>6. Passes
    BY <1>1, <2>1 DEF Passes
  <2> QED BY <2>4, <2>5, <2>6 DEF Keeps, PassFine
<1>7. CASE Source[e0] # Hidden
  <2>1. row' = Advanced(row, sweep[w].version, e0)
    BY <1>7 DEF Skip, Ahead
  <2>2. MovedOn(row, row', e0) /\ SameSelection(row, row')
    <3>1. MovedOn(row, row', e0)
      <4> HIDE DEF e0
      <4>1. row' = Advanced(row, sweep[w].version, e0) /\ sweep[w].version \in Nat
        BY <1>1, <2>1 DEF Sweep
      <4> QED BY <1>1, <1>3, <4>1, AdvancedIs
    <3>2. SameSelection(row, row')
      BY <1>1, <2>1, AdvancedSelects
    <3> QED BY <3>1, <3>2
  <2>3. row.version = sweep[w].version /\ row.processing = 0 => row'.cursor >= e0
    <3>1. Later(row.cursor, e0) >= e0
      BY <1>1, <1>3, LaterIs
    <3> QED BY <1>1, <2>1, <3>1 DEF Advanced, Row
  <2>4. PassAt(w)'
    <3>1. \A e \in Event : MayPass(e) => MayPass(e)'
      BY <1>2, <2>2 DEF MayPass, SameSelection
    <3>2. ASSUME sweep[w].version = row.version, NEW e \in Event, row'.cursor < e, e <= e0
          PROVE  MayPass(e)
      <4>1. row.cursor < e /\ row'.cursor \in Nat
        BY <1>1, <2>2, <3>2 DEF MovedOn, Row
      <4>2. CASE e <= a
        BY <1>2, <1>5, <3>2, <4>1, <4>2 DEF PassAt
      <4>3. CASE e = e0
        <5>1. overlapped
          BY <1>1, <1>3, <1>5, <2>3, <3>2, <4>1, <4>3 DEF PassAt
        <5>2. Source[e] \notin row.events
          BY <1>2, <1>5, <3>2, <4>3 DEF PassAt
        <5> QED BY <5>1, <5>2 DEF MayPass
      <4> QED BY <1>1, <1>3, <3>2, <4>2, <4>3
    <3> QED BY <1>2, <1>4, <1>5, <2>2, <3>1, <3>2 DEF PassAt, Checking, MovedOn, SameSelection
  <2> QED BY <1>1, <1>2, <1>3, <1>4, <2>1, <2>4, AdvanceKeeps
<1> QED BY <1>6, <1>7

LEMMA EndPageKeeps ==
  ASSUME IInv, NEW w \in Worker, EndPage(w)
  PROVE  Keeps
<1>1. /\ TypeOK /\ sweep[w].at \in Nat /\ sweep[w].step = "page"
      /\ sweep[w].at = sweep[w].end
      /\ row' = Advanced(row, sweep[w].version, sweep[w].at)
      /\ UNCHANGED <<head, overlapped>> /\ Rest(w)
  BY RowTypes DEF IInv, Inv, EndPage
<1>2. sweep'[w].step = "idle" /\ \A v \in Worker \ {w} : sweep'[v] = sweep[v]
  BY <1>1, RestIs
<1>3. PassAt(w)'
  BY <1>2, CheckOver
<1>4. sweep[w].at # sweep[w].at + 1
  BY <1>1
<1> QED BY <1>1, <1>2, <1>3, <1>4, AdvanceKeeps

(* The event of the new turn is the check's next: what lies before it may  *)
(* be passed.                                                              *)
LEMMA BeginKeeps ==
  ASSUME IInv, NEW w \in Worker, InPage(w), Beginnable(row, sweep[w].version),
         row' = Begun(row, sweep[w].at + 1),
         sweep'[w].step \notin {"read", "page"},
         \A v \in Worker \ {w} : sweep'[v] = sweep[v],
         UNCHANGED <<head, overlapped>>
  PROVE  Keeps
<1> DEFINE e0 == sweep[w].at + 1
<1>1. /\ row \in Row /\ row.cursor \in Nat /\ row.version \in Nat /\ row.processing \in Nat
      /\ sweep[w].at \in Nat /\ e0 \in Nat /\ Inv
  BY RowTypes DEF IInv
<1>2. /\ row' \in Row /\ row'.version = row.version
      /\ row'.processing = e0 /\ row'.cursor = row.cursor /\ SameSelection(row, row')
  <2> HIDE DEF e0
  <2>1. row' = Begun(row, e0)
    BY DEF e0
  <2>2. SameSelection(row, row')
    BY <1>1, <2>1, BegunSelects
  <2>3. row \in Row /\ e0 \in Nat
    BY <1>1
  <2>4. /\ row' \in Row /\ row'.version = row.version
        /\ row'.processing = e0 /\ row'.cursor = row.cursor
    BY <2>1, <2>3, BegunRow
  <2> QED BY <2>2, <2>4
<1>3. Checking(w) /\ sweep[w].step = "page" /\ sweep[w].version = row.version
  BY DEF InPage, Checking, Beginnable
<1>4. \A v \in Worker \ {w} : ~overlapped => ~Checking(v)
  <2>1. Fine(w) /\ \A v \in Worker : Fine(v)
    BY <1>1, Parts DEF Whole
  <2>2. up[w] # "down"
    BY <1>3, <2>1 DEF Fine
  <2> QED BY <1>1, <2>1, <2>2, NobodyElse DEF Fine, Checking
<1>5. \A v \in Worker : PassAt(v)'
  BY <1>1, <1>2, <1>4, CheckKept, CheckOver DEF SameSelection
<1>6. TurnPassedOver'
  <2>1. \A e \in Event : row.cursor < e /\ e <= sweep[w].at => MayPass(e)
    BY <1>3, PassParts DEF PassFine, PassAt
  <2>2. ASSUME NEW e \in Event, row.cursor < e, e < e0
        PROVE  Source[e] \notin row.events /\ (~overlapped => Source[e] = Hidden)
    BY <1>1, <2>1, <2>2 DEF MayPass
  <2> QED BY <1>2, <2>2 DEF TurnPassedOver, SameSelection
<1>7. Passes
  BY <1>1, <1>2 DEF Passes
<1> QED BY <1>5, <1>6, <1>7 DEF Keeps, PassFine

(* A turn takes the cursor to its event.                                   *)
LEMMA CompletionKeeps ==
  ASSUME IInv, NEW w \in Worker, Complete(w) \/ CompleteLost(w)
  PROVE  Keeps
<1> DEFINE t == turn[w].event
<1>1. /\ row \in Row /\ row.cursor \in Nat /\ row.version \in Nat /\ row.processing \in Nat
      /\ row.events \subseteq Kind /\ head \in Nat /\ head <= MaxEvents /\ MaxEvents \in Nat
      /\ t \in Nat
  BY RowTypes DEF IInv, Inv, TypeOK, Turn
<1>2. row' = Completed(row, t) /\ UNCHANGED <<head, sweep, overlapped>>
  BY DEF Complete, CompleteLost
<1>3. Done(row, row', t) /\ SameSelection(row, row')
  BY <1>1, <1>2, CompletedIs, CompletedSelects
<1>4. /\ row' \in Row /\ row'.version = row.version /\ row'.cursor >= row.cursor
      /\ row'.processing = row.processing \/ row'.processing = 0
      /\ row'.cursor = row.cursor \/ row'.cursor = row.processing
  BY <1>1, <1>3 DEF Done
<1>5. \A v \in Worker : PassAt(v)'
  BY <1>1, <1>2, <1>3, <1>4, CheckKept DEF SameSelection
<1>6. TurnPassedOver'
  BY <1>2, <1>3, <1>4, TurnKept DEF SameSelection
<1>7. Passes
  <2>1. ASSUME NEW e \in 1 .. head, row.cursor < e, e <= row'.cursor, e # row.processing
        PROVE  Source[e] \notin row.events \/ (overlapped /\ ~row.enabled)
    <3>1. e \in Event /\ e \in Nat /\ e < row.processing
      BY <1>1, <1>4, <2>1 DEF Event
    <3>2. TurnPassedOver
      BY DEF IInv
    <3> QED BY <1>1, <2>1, <3>1, <3>2, AgentAssumption DEF TurnPassedOver
  <2> QED BY <2>1 DEF Passes
<1> QED BY <1>5, <1>6, <1>7 DEF Keeps, PassFine

(* While an event is in progress, the configuration is saved only to pause *)
(* or to start from the current inbox.                                     *)
LEMMA ConfigureKeeps ==
  ASSUME IInv, NEW b \in BOOLEAN, NEW reset \in BOOLEAN, NEW s \in Selection,
         Configure(b, s, reset)
  PROVE  Keeps
<1>1. /\ row \in Row /\ row.cursor \in Nat /\ row.version \in Nat /\ row.processing \in Nat
      /\ head \in Nat
  BY RowTypes DEF IInv
<1>2. /\ row' = Configured(row, b, s, reset) /\ ~Refused(b, reset)
      /\ UNCHANGED <<head, sweep, overlapped>>
  BY DEF Configure
<1>3. /\ row' \in Row /\ row'.version = row.version + 1
      /\ reset => row'.processing = 0
      /\ ~reset => row'.cursor = row.cursor /\ row'.processing = row.processing
  BY <1>1, <1>2, ConfiguredIs
<1>4. row'.enabled = b
  BY <1>1, <1>2 DEF Configured, Row
<1>5. row'.processing # 0 =>
        ~row'.enabled /\ row'.processing = row.processing /\ row'.cursor = row.cursor
  BY <1>2, <1>3, <1>4 DEF Refused
<1>6. row'.version # row.version /\ row'.version >= row.version
  BY <1>1, <1>3
<1>7. \A v \in Worker : PassAt(v)'
  BY <1>2, <1>3, <1>5, <1>6, CheckKept
<1>8. TurnPassedOver'
  BY <1>1, <1>2, <1>3, <1>5, TurnKept
<1>9. Passes
  BY <1>6 DEF Passes
<1> QED BY <1>7, <1>8, <1>9 DEF Keeps, PassFine

(* The steps that move neither the cursor nor a check.                     *)
StillSweeps ==
  \A v \in Worker : sweep'[v] = sweep[v] \/ sweep'[v].step \notin {"read", "page"}

LEMMA StillRow ==
  ASSUME IInv, row' = row, overlapped => overlapped', StillSweeps
  PROVE  Keeps
<1>1. row \in Row
  BY RowTypes DEF IInv
<1> QED BY <1>1, Quiet DEF SameSelection, StillSweeps

LEMMA FailureKeeps ==
  ASSUME IInv, row' = Failed(row), UNCHANGED overlapped, StillSweeps
  PROVE  Keeps
<1>1. row \in Row
  BY RowTypes DEF IInv
<1>2. /\ row' \in Row /\ row'.version = row.version /\ row'.cursor = row.cursor
      /\ row'.processing = row.processing /\ SameSelection(row, row')
  BY <1>1, FailedIs, FailedSelects
<1> QED BY <1>2, Quiet DEF StillSweeps

LEMMA TimeKeeps ==
  ASSUME IInv, TwoMinutesPass \/ HourPasses
  PROVE  Keeps
<1>1. row \in Row /\ (row' = [row EXCEPT !.recent = FALSE] \/ row' = [row EXCEPT !.turns = 0])
  BY RowTypes DEF IInv, TwoMinutesPass, HourPasses
<1>2. /\ row' \in Row /\ row'.version = row.version /\ row'.cursor = row.cursor
      /\ row'.processing = row.processing /\ SameSelection(row, row')
  <2>1. CASE row' = [row EXCEPT !.recent = FALSE]
    BY <1>1, <2>1 DEF Row, SameSelection
  <2>2. CASE row' = [row EXCEPT !.turns = 0]
    BY <1>1, <2>2 DEF Row, SameSelection
  <2> QED BY <1>1, <2>1, <2>2
<1>3. UNCHANGED <<overlapped, sweep>>
  BY DEF TwoMinutesPass, HourPasses
<1> QED BY <1>2, <1>3, Quiet

LEMMA WorldKeeps == ASSUME IInv, World PROVE Keeps
<1>1. CASE \E b, reset \in BOOLEAN, s \in Selection : Configure(b, s, reset)
  BY <1>1, ConfigureKeeps
<1>2. CASE Arrive \/ Expire \/ \E g \in Grant \cup {Withheld, Disabled} : ChangeGrant(g)
  BY <1>2, StillRow DEF Arrive, Expire, ChangeGrant, StillSweeps
<1> QED BY <1>1, <1>2, TimeKeeps DEF World

LEMMA CheckKeeps ==
  ASSUME IInv, NEW w \in Worker, Check(w)
  PROVE  Keeps
<1>1. TypeOK
  BY DEF IInv, Inv
<1>2. CASE Find(w)
  BY <1>1, <1>2, GoIs, StillRow DEF Find, StillSweeps
<1>3. CASE Decline(w)
  BY <1>1, <1>3, RestIs, StillRow DEF Decline, StillSweeps
<1>4. CASE Report(w)
  BY <1>1, <1>4, RestIs, FailureKeeps DEF Report, StillSweeps
<1>5. CASE Begin(w)
  BY <1>1, <1>5, RestIs, BeginKeeps DEF Begin
<1> QED BY <1>2, <1>3, <1>4, <1>5, ReadKeeps, PageKeeps, SkipKeeps, EndPageKeeps DEF Check

LEMMA WorkKeeps ==
  ASSUME IInv, NEW w \in Worker, Work(w)
  PROVE  Keeps
<1>1. CASE \/ \E next \in {"act", "answer"} : Vet(w, next)
           \/ \E next \in {"vet", "fail"} : Act(w, next)
           \/ \E next \in {"complete", "fail"} : Answer(w, next)
           \/ Beat(w)
  <2>1. UNCHANGED <<row, sweep, overlapped>>
    BY <1>1 DEF Vet, Act, Answer, Beat
  <2> QED BY <2>1, StillRow DEF StillSweeps
<1>2. CASE Fail(w)
  BY <1>2, FailureKeeps DEF Fail, StillSweeps
<1> QED BY <1>1, <1>2, CompletionKeeps DEF Work

LEMMA BreakKeeps ==
  ASSUME IInv, NEW w \in Worker, Break(w)
  PROVE  Keeps
<1>1. TypeOK
  BY DEF IInv, Inv
<1>2. CASE Abort(w) \/ TurnFails(w) \/ StartEarly(w) \/ Stop(w)
  BY <1>2, StillRow DEF Abort, TurnFails, StartEarly, Stop, StillSweeps
<1>3. CASE CheckFails(w)
  BY <1>1, <1>3, GoIs, RestIs, StillRow DEF CheckFails, StillSweeps
<1>4. CASE Crash(w)
  BY <1>1, <1>4, RestIs, StillRow DEF Crash, StillSweeps
<1>5. CASE BeginLost(w)
  BY <1>1, <1>5, GoIs, BeginKeeps DEF BeginLost
<1> QED BY <1>2, <1>3, <1>4, <1>5, CompletionKeeps DEF Break

LEMMA LifeKeeps ==
  ASSUME IInv, NEW w \in Worker, Life(w)
  PROVE  Keeps
  BY StillRow DEF Life, Start, Stopped, StillSweeps

LEMMA NextKeeps == IInv /\ Next => Keeps
  BY WorldKeeps, CheckKeeps, WorkKeeps, BreakKeeps, LifeKeeps DEF Next

LEMMA StutterKeeps == IInv /\ UNCHANGED vars => Keeps
  BY StillRow DEF vars, StillSweeps

LEMMA PassStart == Init => IInv
<1> SUFFICES ASSUME Init PROVE PassFine
  BY Start0, PassParts
<1>1. \A w \in Worker : PassAt(w)
  BY Fields DEF Init, PassAt, Checking
<1>2. row.processing = 0
  BY DEF Init
<1>3. TurnPassedOver
  BY <1>2 DEF TurnPassedOver, Event
<1> QED BY <1>1, <1>3 DEF PassFine

LEMMA PassPartsNext == Inv' /\ PassFine' => IInv'
  BY PassParts, PTL

(* The invariant behind the cursor: a check and a turn are ahead of it     *)
(* only by events that may be passed (advance, begin and complete of        *)
(* store.ts).                                                              *)
THEOREM Invariance == Spec => []IInv
<1>1. Init => IInv
  BY PassStart
<1>2. IInv /\ [Next]_vars => IInv'
  <2> SUFFICES ASSUME IInv, [Next]_vars PROVE IInv'
    OBVIOUS
  <2>1. Inv
    BY DEF IInv
  <2>2. Inv'
    BY <2>1, WorldSteps, WorkerSteps, Stutter DEF Next
  <2>3. Keeps
    BY NextKeeps, StutterKeeps
  <2> QED BY <2>2, <2>3, PassPartsNext DEF Keeps
<1> QED BY <1>1, <1>2, PTL DEF Spec

(* The cursor passes an event that is selected only with the event's turn  *)
(* or when an administrator starts from the current inbox.                 *)
THEOREM NothingSelectedPassed == Spec => PassesNothingSelected
<1>1. IInv /\ [Next]_vars => [Passes]_vars
  BY NextKeeps DEF Keeps
<1>2. [][Passes]_vars => PassesNothingSelected
  BY PTL DEF PassesNothingSelected, Passes
<1> QED BY <1>1, <1>2, Invariance, PTL DEF Spec
=============================================================================
