----------------------------- MODULE Leadership -----------------------------
(***************************************************************************)
(* Leader election for one singleton worker: every replica of the server   *)
(* has a supervisor that asks PostgreSQL for an advisory lock, starts the  *)
(* worker when it gets it and asks again on a timer when it does not.      *)
(*                                                                         *)
(* The lock belongs to the database session the replica reserved and is    *)
(* counted: a session that asks twice holds it twice.  The supervisor is   *)
(* asynchronous: a question, its answer and the code that continues after  *)
(* it are separate steps, stop() may come between any two of them, and the *)
(* timer does not wait for the previous question.                          *)
(***************************************************************************)
EXTENDS Naturals

CONSTANTS
  Replica,
  MaxAttempts,      \* bound on a replica's questions in flight and on the locks it got
  MaxBoots,         \* bound on the processes started, restarts included
  MaxLosses         \* bound on the sessions that end while their process goes on

ASSUME LeadershipAssumption ==
  /\ MaxAttempts \in Nat \ {0}
  /\ MaxBoots \in Nat \ {0}
  /\ MaxLosses \in Nat

VARIABLES
  sup,         \* sup[r]: fields of the supervisor
  calls,       \* calls[r]: its lock client's promises in flight, by what they wait for
  work,        \* work[r]: the supervised worker
  held,        \* held[r]: how often the session of r holds the lock
  boots,       \* processes started so far
  losses,      \* sessions lost so far
  kind         \* the kind of worker, which never changes

vars == <<sup, calls, work, held, boots, losses, kind>>

\* start() arms a timer, runs a first batch and then arms it, or arms it and waits for
\* a first batch.
Kind == {"timer", "batchThenTimer", "timerThenBatch"}

\* leader is workerRunning, timer a scheduled retry.
Supervisor == [phase   : {"down", "running", "stopping", "stopped"},
               leader  : BOOLEAN,
               lease   : BOOLEAN,
               timer   : BOOLEAN,
               healthy : BOOLEAN]

\* Questions the database has not answered; answers the supervisor has not seen;
\* unlocks the database has not executed.
Calls == [asked : Nat, granted : Nat, refused : Nat, failed : Nat, unlocks : Nat]

\* starting: calls of start() that wait for the first batch; timers: intervals that
\* are armed.  A halting worker finishes its batch before its stop() returns.
Worker == [starting : Nat, timers : Nat, halting : BOOLEAN]

Down == [phase |-> "down", leader |-> FALSE, lease |-> FALSE, timer |-> FALSE,
         healthy |-> TRUE]
NoCalls == [asked |-> 0, granted |-> 0, refused |-> 0, failed |-> 0, unlocks |-> 0]
NoWork == [starting |-> 0, timers |-> 0, halting |-> FALSE]

Init ==
  /\ sup = [r \in Replica |-> Down]
  /\ calls = [r \in Replica |-> NoCalls]
  /\ work = [r \in Replica |-> NoWork]
  /\ held = [r \in Replica |-> 0]
  /\ boots = 0
  /\ losses = 0
  /\ kind \in Kind

Stopped(r) == sup[r].phase \in {"stopping", "stopped"}

InFlight(r) == calls[r].asked + calls[r].granted + calls[r].refused + calls[r].failed

-----------------------------------------------------------------------------
(* The lock client and the database.                                       *)

Answer(r) ==
  /\ calls[r].asked > 0
  /\ IF \A q \in Replica \ {r} : held[q] = 0
     THEN /\ held' = [held EXCEPT ![r] = @ + 1]
          /\ calls' = [calls EXCEPT ![r].asked = @ - 1, ![r].granted = @ + 1]
     ELSE /\ calls' = [calls EXCEPT ![r].asked = @ - 1, ![r].refused = @ + 1]
          /\ UNCHANGED held
  /\ UNCHANGED <<sup, work, boots, losses, kind>>

\* No connection can be reserved, or the query fails.
QueryFails(r) ==
  /\ calls[r].asked > 0
  /\ calls' = [calls EXCEPT ![r].asked = @ - 1, ![r].failed = @ + 1]
  /\ UNCHANGED <<sup, work, held, boots, losses, kind>>

Unlock(r) ==
  /\ calls[r].unlocks > 0
  /\ calls' = [calls EXCEPT ![r].unlocks = @ - 1]
  /\ held' = [held EXCEPT ![r] = IF @ > 0 THEN @ - 1 ELSE 0]
  /\ UNCHANGED <<sup, work, boots, losses, kind>>

\* The session ends: the database frees its locks and the pending queries fail.
LoseSession(r) ==
  /\ losses < MaxLosses
  /\ sup[r].phase # "down"
  /\ held[r] > 0
  /\ held' = [held EXCEPT ![r] = 0]
  /\ calls' = [calls EXCEPT ![r] =
                 [calls[r] EXCEPT !.asked = 0, !.unlocks = 0,
                                  !.failed = calls[r].failed + calls[r].asked]]
  /\ losses' = losses + 1
  /\ UNCHANGED <<sup, work, boots, kind>>

-----------------------------------------------------------------------------
(* The supervisor.                                                         *)

Start(r) ==
  /\ sup[r].phase = "down"
  /\ boots < MaxBoots
  /\ boots' = boots + 1
  /\ sup' = [sup EXCEPT ![r].phase = "running"]
  /\ calls' = [calls EXCEPT ![r].asked = 1]
  /\ UNCHANGED <<work, held, losses, kind>>

RetryTick(r) ==
  /\ sup[r].phase = "running"
  /\ sup[r].timer
  /\ ~sup[r].leader
  /\ InFlight(r) < MaxAttempts
  /\ held[r] < MaxAttempts
  /\ calls' = [calls EXCEPT ![r].asked = @ + 1]
  /\ UNCHANGED <<sup, work, held, boots, losses, kind>>

\* worker.start(), up to its first wait; it returns if its timer is armed.
Started(w) ==
  IF w.timers > 0 THEN w
  ELSE [w EXCEPT !.starting = IF kind = "timer" THEN @ ELSE @ + 1,
                 !.timers = IF kind = "batchThenTimer" THEN @ ELSE 1]

\* Mutant: the stop flag is not looked at again after the await.
OnGrantedUnchecked(r) ==
  /\ calls[r].granted > 0
  /\ calls[r].refused = 0 \/ losses > 0
  /\ sup' = [sup EXCEPT ![r].healthy = TRUE, ![r].lease = TRUE, ![r].leader = TRUE,
                        ![r].timer = FALSE]
  /\ work' = [work EXCEPT ![r] = Started(@)]
  /\ calls' = [calls EXCEPT ![r].granted = @ - 1]
  /\ UNCHANGED <<held, boots, losses, kind>>

\* The answers of a session arrive in order, so that its refusals come first; those
\* of two sessions may come in any order.
OnGranted(r) ==
  /\ calls[r].granted > 0
  /\ calls[r].refused = 0 \/ losses > 0
  /\ IF Stopped(r)
     THEN /\ sup' = [sup EXCEPT ![r].healthy = TRUE]
          /\ calls' = [calls EXCEPT ![r].granted = @ - 1, ![r].unlocks = @ + 1]
          /\ UNCHANGED work
     ELSE /\ sup' = [sup EXCEPT ![r].healthy = TRUE, ![r].lease = TRUE,
                                ![r].leader = TRUE, ![r].timer = FALSE]
          /\ calls' = [calls EXCEPT ![r].granted = @ - 1]
          /\ work' = [work EXCEPT ![r] = Started(@)]
  /\ UNCHANGED <<held, boots, losses, kind>>

OnRefused(r) ==
  /\ calls[r].refused > 0
  /\ calls' = [calls EXCEPT ![r].refused = @ - 1]
  /\ sup' = [sup EXCEPT ![r].healthy = TRUE, ![r].timer = @ \/ ~Stopped(r)]
  /\ UNCHANGED <<work, held, boots, losses, kind>>

\* Mutant: only a refusal schedules another attempt.
OnFailedNoRetry(r) ==
  /\ calls[r].failed > 0
  /\ calls' = [calls EXCEPT ![r].failed = @ - 1]
  /\ sup' = [sup EXCEPT ![r].healthy = FALSE]
  /\ UNCHANGED <<work, held, boots, losses, kind>>

OnFailed(r) ==
  /\ calls[r].failed > 0
  /\ calls' = [calls EXCEPT ![r].failed = @ - 1]
  /\ sup' = [sup EXCEPT ![r].healthy = FALSE, ![r].timer = @ \/ ~Stopped(r)]
  /\ UNCHANGED <<work, held, boots, losses, kind>>

\* The first batch is over: each start() that waits goes on, and arms a timer if that is
\* still to be done, also when stop() has been waiting for the batch.
BatchEnds(r) ==
  /\ work[r].starting > 0
  /\ work' = [work EXCEPT ![r].starting = 0,
                          ![r].timers = IF kind = "batchThenTimer" THEN work[r].starting
                                                                   ELSE @]
  /\ UNCHANGED <<sup, calls, held, boots, losses, kind>>

\* Mutant: a worker that does not start is not reported.
BatchFailsSilently(r) ==
  /\ work[r].starting > 0
  /\ work' = [work EXCEPT ![r].starting = 0, ![r].halting = FALSE]
  /\ sup' = [sup EXCEPT ![r].leader = FALSE,
                        ![r].phase = IF @ = "stopping" THEN "stopped" ELSE @]
  /\ UNCHANGED <<calls, held, boots, losses, kind>>

\* start() rejects: the lease is kept, as is a timer that is armed, and no retry is
\* scheduled; the replica reports not ready.  A stop() that waits for the batch rejects
\* too and keeps the lease.
BatchFails(r) ==
  /\ work[r].starting > 0
  /\ work' = [work EXCEPT ![r].starting = 0, ![r].halting = FALSE]
  /\ sup' = [sup EXCEPT ![r].leader = FALSE, ![r].healthy = FALSE,
                        ![r].phase = IF @ = "stopping" THEN "stopped" ELSE @]
  /\ UNCHANGED <<calls, held, boots, losses, kind>>

\* The worker as its stop() leaves it, which knows of one timer.
Halted(w) ==
  [w EXCEPT !.timers = IF @ > 0 THEN @ - 1 ELSE 0, !.halting = TRUE]

\* Mutant: the lease is given up first.
StopReleasesFirst(r) ==
  /\ sup[r].phase = "running"
  /\ sup' = [sup EXCEPT ![r].phase = "stopping", ![r].timer = FALSE,
                        ![r].lease = FALSE, ![r].leader = FALSE]
  /\ work' = [work EXCEPT ![r] = IF sup[r].leader THEN Halted(@) ELSE @]
  /\ calls' = [calls EXCEPT ![r].unlocks = IF sup[r].lease THEN @ + 1 ELSE @]
  /\ UNCHANGED <<held, boots, losses, kind>>

\* stop(), up to the wait for the worker; without a running worker to the end.
Stop(r) ==
  /\ sup[r].phase = "running"
  /\ IF sup[r].leader
     THEN /\ sup' = [sup EXCEPT ![r].phase = "stopping", ![r].timer = FALSE,
                                ![r].leader = FALSE]
          /\ work' = [work EXCEPT ![r] = Halted(@)]
          /\ UNCHANGED calls
     ELSE /\ sup' = [sup EXCEPT ![r].phase = "stopped", ![r].timer = FALSE,
                                ![r].lease = FALSE]
          /\ calls' = [calls EXCEPT ![r].unlocks = IF sup[r].lease THEN @ + 1 ELSE @]
          /\ UNCHANGED work
  /\ UNCHANGED <<held, boots, losses, kind>>

\* worker.stop() has returned: the rest of stop().
WorkerStopped(r) ==
  /\ sup[r].phase = "stopping"
  /\ work[r].starting = 0
  /\ work' = [work EXCEPT ![r].halting = FALSE]
  /\ sup' = [sup EXCEPT ![r].phase = "stopped", ![r].lease = FALSE]
  /\ calls' = [calls EXCEPT ![r].unlocks = IF sup[r].lease THEN @ + 1 ELSE @]
  /\ UNCHANGED <<held, boots, losses, kind>>

\* The batch that worker.stop() waits for fails, and so does stop(): the lease stays
\* until the process ends.
WorkerStopFails(r) ==
  /\ sup[r].phase = "stopping"
  /\ work[r].starting = 0
  /\ work' = [work EXCEPT ![r].halting = FALSE]
  /\ sup' = [sup EXCEPT ![r].phase = "stopped"]
  /\ UNCHANGED <<calls, held, boots, losses, kind>>

\* The process ends, after stop() or without it, and its session with it.
Exit(r) ==
  /\ sup[r].phase # "down"
  /\ sup' = [sup EXCEPT ![r] = Down]
  /\ calls' = [calls EXCEPT ![r] = NoCalls]
  /\ work' = [work EXCEPT ![r] = NoWork]
  /\ held' = [held EXCEPT ![r] = 0]
  /\ UNCHANGED <<boots, losses, kind>>

-----------------------------------------------------------------------------
\* Steps that happen by themselves once they are due.
Continue(r) ==
  \/ OnGranted(r)
  \/ OnRefused(r)
  \/ OnFailed(r)
  \/ Unlock(r)
  \/ WorkerStopped(r)
  \/ WorkerStopFails(r)

Next ==
  \E r \in Replica :
    \/ Start(r)
    \/ RetryTick(r)
    \/ Answer(r)
    \/ QueryFails(r)
    \/ LoseSession(r)
    \/ Continue(r)
    \/ BatchEnds(r)
    \/ BatchFails(r)
    \/ Stop(r)
    \/ Exit(r)

Spec == Init /\ [][Next]_vars

\* The event loop and the timer go on, a process that has stopped ends, and a
\* replica that keeps asking is answered some time.
Fairness ==
  \A r \in Replica :
    /\ WF_vars(Continue(r))
    /\ WF_vars(RetryTick(r))
    /\ SF_vars(Answer(r))
    /\ WF_vars(sup[r].phase = "stopped" /\ Exit(r))

FairSpec == Spec /\ Fairness

-----------------------------------------------------------------------------
(* Properties.                                                             *)

TypeOK ==
  /\ sup \in [Replica -> Supervisor]
  /\ calls \in [Replica -> Calls]
  /\ work \in [Replica -> Worker]
  /\ held \in [Replica -> Nat]
  /\ boots \in Nat
  /\ losses \in Nat
  /\ kind \in Kind

Active(r) == work[r].starting > 0 \/ work[r].timers > 0 \/ work[r].halting

\* A replica whose supervisor has stopped runs nothing.
StopEndsWorker == \A r \in Replica : sup[r].phase = "stopped" => ~Active(r)

\* Until a session is lost the worker runs on one replica at a time, through stops,
\* crashes, retries and overlapping attempts to get the lock, not counting a timer that
\* the stop of a worker with a first batch leaves behind.
WorkerRunsOnce ==
  losses = 0 => \A q, r \in Replica :
    /\ Active(q) /\ Active(r)
    /\ kind # "timer" => sup[q].phase # "stopped" /\ sup[r].phase # "stopped"
    => q = r

\* Until a session is lost, one supervisor at most takes itself for the leader,
\* whatever worker it has.
AtMostOneLeader ==
  losses = 0 => \A q, r \in Replica : sup[q].leader /\ sup[r].leader => q = r

\* Until a session is lost, a replica that keeps the lease without a worker, and so
\* keeps the others from taking over, reports itself unhealthy.
IdleLeaseIsReported ==
  losses = 0 => \A r \in Replica :
    sup[r].phase = "running" /\ sup[r].lease /\ ~sup[r].leader => ~sup[r].healthy

\* As long as a replica is up, a worker that starts at once comes to run on some
\* replica: when a leader stops, also without giving up its lease, or crashes, another
\* one takes over, errors and lost sessions notwithstanding.
Takeover ==
  \A r \in Replica :
    sup[r].phase = "running" /\ kind = "timer"
      ~> (sup[r].phase # "running" \/ \E q \in Replica : Active(q))

-----------------------------------------------------------------------------
(* The inductive invariant behind WorkerRunsOnce and AtMostOneLeader.      *)

OneSession == \A q, r \in Replica : held[q] > 0 /\ held[r] > 0 => q = r

\* Until a session is lost, every unlock under way or still owed takes back a lock
\* of its own, and the lease is one more.
LocksCovered ==
  losses = 0 => \A r \in Replica :
    held[r] >= calls[r].granted + calls[r].unlocks + (IF sup[r].lease THEN 1 ELSE 0)

\* A leader has the lease, and so has whoever runs the worker; a worker that starts at
\* once runs nowhere but at the leader until stop() waits for it.
LeaseOfLeader ==
  \A r \in Replica :
    /\ sup[r].leader => sup[r].lease /\ sup[r].phase = "running"
    /\ Active(r) /\ sup[r].phase # "stopped" => sup[r].lease
    /\ work[r].halting => sup[r].phase = "stopping"
    /\ kind = "timer" =>
         /\ work[r].starting = 0 /\ work[r].timers <= 1
         /\ work[r].timers = 1 => sup[r].leader

\* A process that is not there has nothing under way.
QuietWhenDown ==
  \A r \in Replica :
    sup[r].phase = "down" => calls[r] = NoCalls /\ work[r] = NoWork /\ ~sup[r].leader

LockInv ==
  /\ TypeOK
  /\ QuietWhenDown
  /\ OneSession
  /\ LocksCovered
  /\ LeaseOfLeader

-----------------------------------------------------------------------------
(* The inductive invariant behind IdleLeaseIsReported.                     *)

NoLeaseWhenDown == \A r \in Replica : sup[r].phase = "down" => ~sup[r].lease

\* The refusals of a session come before its lease, so that none can clear what a
\* holder of the lease reports.
RefusedBeforeLease == losses = 0 => \A r \in Replica : sup[r].lease => calls[r].refused = 0

IInv ==
  /\ LockInv
  /\ NoLeaseWhenDown
  /\ RefusedBeforeLease
  /\ IdleLeaseIsReported
=============================================================================
