-------------------------- MODULE LeadershipProofs --------------------------
(***************************************************************************)
(* Proofs about Leadership, for any number of replicas, overlapping        *)
(* attempts, processes and lost sessions.                                  *)
(***************************************************************************)
EXTENDS Leadership, TLAPS

\* The parts of the inductive invariant that speak about one replica.
QuietAt(r) ==
  sup[r].phase = "down" => calls[r] = NoCalls /\ work[r] = NoWork /\ ~sup[r].leader

Covered(r) ==
  losses = 0 =>
    held[r] >= calls[r].granted + calls[r].unlocks + (IF sup[r].lease THEN 1 ELSE 0)

LeaseAt(r) ==
  /\ sup[r].leader => sup[r].lease /\ sup[r].phase = "running"
  /\ Active(r) /\ sup[r].phase # "stopped" => sup[r].lease
  /\ work[r].halting => sup[r].phase = "stopping"
  /\ kind = "timer" =>
       /\ work[r].starting = 0 /\ work[r].timers <= 1
       /\ work[r].timers = 1 => sup[r].leader

ReplicaInv(r) ==
  /\ sup[r] \in Supervisor
  /\ calls[r] \in Calls
  /\ work[r] \in Worker
  /\ held[r] \in Nat
  /\ QuietAt(r)
  /\ Covered(r)
  /\ LeaseAt(r)

\* A step of r leaves the other replicas as they are.
OnlyAt(r) ==
  \A q \in Replica \ {r} :
    /\ sup'[q] = sup[q]
    /\ calls'[q] = calls[q]
    /\ work'[q] = work[q]
    /\ held'[q] = held[q]

\* The functions keep their domain; the rest keeps its type.
Maps ==
  /\ boots \in Nat
  /\ losses \in Nat
  /\ kind \in Kind
  /\ sup = [r \in Replica |-> sup[r]]
  /\ calls = [r \in Replica |-> calls[r]]
  /\ work = [r \in Replica |-> work[r]]
  /\ held = [r \in Replica |-> held[r]]

-----------------------------------------------------------------------------
(* The invariant, replica by replica.                                      *)

LEMMA InvByReplica ==
  LockInv <=> Maps /\ OneSession /\ \A r \in Replica : ReplicaInv(r)
<1>1. LockInv => Maps /\ OneSession /\ \A r \in Replica : ReplicaInv(r)
  BY DEF LockInv, TypeOK, Maps, ReplicaInv, QuietWhenDown, LocksCovered, LeaseOfLeader,
         QuietAt, Covered, LeaseAt
<1>2. Maps /\ (\A r \in Replica : ReplicaInv(r)) => TypeOK
  BY DEF TypeOK, Maps, ReplicaInv
<1>3. (\A r \in Replica : ReplicaInv(r)) => QuietWhenDown /\ LocksCovered /\ LeaseOfLeader
  BY DEF ReplicaInv, QuietWhenDown, LocksCovered, LeaseOfLeader, QuietAt, Covered, LeaseAt
<1> QED
  BY <1>1, <1>2, <1>3 DEF LockInv

LEMMA InitLock == Init => LockInv
<1> SUFFICES ASSUME Init PROVE Maps /\ OneSession /\ \A r \in Replica : ReplicaInv(r)
  BY InvByReplica
<1>1. Maps /\ OneSession
  BY DEF Init, Maps, OneSession
<1>2. ASSUME NEW r \in Replica PROVE ReplicaInv(r)
  BY DEF Init, Down, NoCalls, NoWork, Supervisor, Calls, Worker, ReplicaInv, QuietAt,
         Covered, LeaseAt, Active
<1> QED
  BY <1>1, <1>2

LEMMA PartsGiveInv ==
  Maps' /\ OneSession' /\ (\A r \in Replica : ReplicaInv(r)') => LockInv'
<1> SUFFICES ASSUME Maps', OneSession', \A r \in Replica : ReplicaInv(r)'
             PROVE  LockInv'
  OBVIOUS
<1>1. TypeOK'
  BY DEF TypeOK, Maps, ReplicaInv
<1>2. QuietWhenDown' /\ LocksCovered' /\ LeaseOfLeader'
  BY DEF ReplicaInv, QuietWhenDown, LocksCovered, LeaseOfLeader, QuietAt, Covered,
         LeaseAt, Active
<1> QED
  BY <1>1, <1>2 DEF LockInv

-----------------------------------------------------------------------------
(* What one step does, for the replica that takes it and for the others.   *)

\* The step of one replica, without the loss of a session.
Step(r) ==
  \/ Start(r)
  \/ RetryTick(r)
  \/ Answer(r)
  \/ QueryFails(r)
  \/ Continue(r)
  \/ BatchEnds(r)
  \/ BatchFails(r)
  \/ Stop(r)
  \/ Exit(r)

LEMMA StepKeeps ==
  ASSUME NEW r \in Replica, Step(r)
  PROVE  UNCHANGED <<losses, kind>>
BY DEF Step, Continue, Start, RetryTick, Answer, QueryFails, OnGranted, OnRefused,
       OnFailed, Unlock, WorkerStopped, WorkerStopFails, BatchEnds, BatchFails, Stop,
       Exit

LEMMA StepFrame ==
  ASSUME Maps, NEW r \in Replica, Step(r)
  PROVE  Maps' /\ OnlyAt(r)
<1>1. CASE Start(r)
  <2>1. /\ sup' = [sup EXCEPT ![r].phase = "running"]
        /\ calls' = [calls EXCEPT ![r].asked = 1]
        /\ UNCHANGED <<work, held, losses, kind>>
    BY <1>1 DEF Start
  <2>2. boots' \in Nat
    BY <1>1 DEF Start, Maps
  <2>3. OnlyAt(r)
    BY <2>1 DEF OnlyAt, Maps
  <2>4. /\ sup' = [q \in Replica |-> sup'[q]]
        /\ calls' = [q \in Replica |-> calls'[q]]
    BY <2>1 DEF Maps
  <2> QED
    BY <2>1, <2>2, <2>3, <2>4 DEF Maps
<1>2. CASE RetryTick(r)
  BY <1>2 DEF RetryTick, Maps, OnlyAt
<1>3. CASE Answer(r)
  BY <1>3 DEF Answer, Maps, OnlyAt
<1>4. CASE QueryFails(r)
  BY <1>4 DEF QueryFails, Maps, OnlyAt
<1>5. CASE OnGranted(r)
  BY <1>5 DEF OnGranted, Maps, OnlyAt
<1>6. CASE OnRefused(r)
  BY <1>6 DEF OnRefused, Maps, OnlyAt
<1>7. CASE OnFailed(r)
  BY <1>7 DEF OnFailed, Maps, OnlyAt
<1>8. CASE Unlock(r)
  BY <1>8 DEF Unlock, Maps, OnlyAt
<1>9. CASE WorkerStopped(r)
  BY <1>9 DEF WorkerStopped, Maps, OnlyAt
<1>10. CASE BatchEnds(r)
  BY <1>10 DEF BatchEnds, Maps, OnlyAt
<1>11. CASE BatchFails(r)
  BY <1>11 DEF BatchFails, Maps, OnlyAt
<1>14. CASE WorkerStopFails(r)
  BY <1>14 DEF WorkerStopFails, Maps, OnlyAt
<1>12. CASE Stop(r)
  BY <1>12 DEF Stop, Maps, OnlyAt
<1>13. CASE Exit(r)
  BY <1>13 DEF Exit, Maps, OnlyAt
<1> QED
  BY <1>1, <1>2, <1>3, <1>4, <1>5, <1>6, <1>7, <1>8, <1>9, <1>10, <1>11, <1>12, <1>13,
     <1>14 DEF Step, Continue

\* The fields of one replica after each kind of step that changes several of them.
LEMMA Fields ==
  ASSUME NEW s \in Supervisor, NEW c \in Calls, NEW w \in Worker
  PROVE  /\ s.phase \in {"down", "running", "stopping", "stopped"}
         /\ s.lease \in BOOLEAN /\ s.leader \in BOOLEAN /\ s.timer \in BOOLEAN
         /\ c.asked \in Nat /\ c.granted \in Nat /\ c.refused \in Nat
         /\ c.failed \in Nat /\ c.unlocks \in Nat
         /\ w.starting \in Nat /\ w.timers \in Nat /\ w.halting \in BOOLEAN
BY DEF Supervisor, Calls, Worker

LEMMA CallGranted ==
  ASSUME NEW c \in Calls, NEW x \in Nat, NEW y \in Nat
  PROVE  /\ [c EXCEPT !.asked = x, !.granted = y] \in Calls
         /\ [c EXCEPT !.asked = x, !.granted = y].granted = y
         /\ [c EXCEPT !.asked = x, !.granted = y].unlocks = c.unlocks
BY DEF Calls

LEMMA CallRefused ==
  ASSUME NEW c \in Calls, NEW x \in Nat, NEW y \in Nat
  PROVE  /\ [c EXCEPT !.asked = x, !.refused = y] \in Calls
         /\ [c EXCEPT !.asked = x, !.refused = y].granted = c.granted
         /\ [c EXCEPT !.asked = x, !.refused = y].unlocks = c.unlocks
BY DEF Calls

LEMMA CallFailed ==
  ASSUME NEW c \in Calls, NEW x \in Nat, NEW y \in Nat
  PROVE  /\ [c EXCEPT !.asked = x, !.failed = y] \in Calls
         /\ [c EXCEPT !.asked = x, !.failed = y].granted = c.granted
         /\ [c EXCEPT !.asked = x, !.failed = y].unlocks = c.unlocks
BY DEF Calls

LEMMA WorkerGivesUp ==
  ASSUME NEW w \in Worker, NEW v, v = [w EXCEPT !.starting = 0, !.halting = FALSE]
  PROVE  v \in Worker /\ v.starting = 0 /\ v.timers = w.timers /\ ~v.halting
BY DEF Worker

\* A started worker is not halting; one that starts at once has one timer.
LEMMA StartedWorker ==
  ASSUME NEW w \in Worker
  PROVE  /\ Started(w) \in Worker
         /\ Started(w).halting = w.halting
         /\ kind = "timer" => /\ Started(w).starting = w.starting
                              /\ w.timers <= 1 => Started(w).timers <= 1
<1>1. w.starting \in Nat /\ w.timers \in Nat
  BY DEF Worker
<1>2. CASE w.timers > 0
  BY <1>2 DEF Started
<1>3. CASE ~(w.timers > 0)
  <2> DEFINE x == IF kind = "timer" THEN w.starting ELSE w.starting + 1
             y == IF kind = "batchThenTimer" THEN w.timers ELSE 1
  <2>1. Started(w) = [w EXCEPT !.starting = x, !.timers = y]
    BY <1>3 DEF Started
  <2>2. x \in Nat /\ y \in Nat
    BY <1>1
  <2>3. (kind = "timer" => x = w.starting) /\ (kind = "timer" => y <= 1)
    OBVIOUS
  <2> HIDE DEF x, y
  <2>4. /\ Started(w) \in Worker
        /\ Started(w).starting = x /\ Started(w).timers = y
        /\ Started(w).halting = w.halting
    BY <2>1, <2>2 DEF Worker
  <2> QED
    BY <2>3, <2>4
<1> QED
  BY <1>2, <1>3

\* stop() leaves no timer of a worker that starts at once.
LEMMA HaltedWorker ==
  ASSUME NEW w \in Worker
  PROVE  /\ Halted(w) \in Worker
         /\ Halted(w).halting
         /\ Halted(w).starting = w.starting
         /\ w.timers <= 1 => Halted(w).timers = 0
<1> DEFINE y == IF w.timers > 0 THEN w.timers - 1 ELSE 0
<1>1. w.starting \in Nat /\ w.timers \in Nat
  BY DEF Worker
<1>2. y \in Nat /\ (w.timers <= 1 => y = 0)
  BY <1>1
<1>3. Halted(w) = [w EXCEPT !.timers = y, !.halting = TRUE]
  BY DEF Halted
<1> HIDE DEF y
<1> QED
  BY <1>2, <1>3 DEF Worker

LEMMA StepReplica ==
  ASSUME Maps, NEW r \in Replica, ReplicaInv(r), Step(r)
  PROVE  ReplicaInv(r)'
<1> DEFINE s == sup[r]
           c == calls[r]
           w == work[r]
           sn == sup'[r]
           cn == calls'[r]
           wn == work'[r]
<1>t. /\ s \in Supervisor /\ c \in Calls /\ w \in Worker
      /\ held[r] \in Nat
      /\ QuietAt(r) /\ Covered(r) /\ LeaseAt(r)
  BY DEF ReplicaInv
<1>f. /\ s.phase \in {"down", "running", "stopping", "stopped"}
      /\ s.lease \in BOOLEAN /\ s.leader \in BOOLEAN /\ s.timer \in BOOLEAN
      /\ c.asked \in Nat /\ c.granted \in Nat /\ c.refused \in Nat
      /\ c.failed \in Nat /\ c.unlocks \in Nat
      /\ w.starting \in Nat /\ w.timers \in Nat /\ w.halting \in BOOLEAN
  BY <1>t, Fields
<1>0. /\ kind \in Kind /\ losses \in Nat
      /\ UNCHANGED <<losses, kind>>
  BY StepKeeps DEF Maps
\* What has to be shown once the new fields are known.
<1>q. ASSUME sn \in Supervisor, cn \in Calls, wn \in Worker, held'[r] \in Nat,
             QuietAt(r)', Covered(r)', LeaseAt(r)'
      PROVE  ReplicaInv(r)'
  BY <1>q DEF ReplicaInv
<1>up. s.phase # "down" \/ (c = NoCalls /\ w = NoWork /\ ~s.leader)
  BY <1>t DEF QuietAt
<1>1. CASE Start(r)
  <2>1. /\ s.phase = "down" /\ c = NoCalls /\ w = NoWork /\ ~s.leader
        /\ UNCHANGED <<work, held>>
    BY <1>1, <1>up DEF Start, Maps
  <2>2. sn = [s EXCEPT !.phase = "running"] /\ cn = [c EXCEPT !.asked = 1]
    BY <1>1 DEF Start, Maps
  <2>3. sn \in Supervisor /\ sn.phase = "running" /\ sn.lease = s.lease /\ sn.leader = s.leader
    BY <1>t, <2>2 DEF Supervisor
  <2>4. cn \in Calls /\ cn.granted = c.granted /\ cn.unlocks = c.unlocks
    BY <1>t, <2>2 DEF Calls
  <2>5. QuietAt(r)' /\ Covered(r)' /\ LeaseAt(r)'
    BY <1>0, <1>t, <1>f, <2>1, <2>3, <2>4 DEF QuietAt, Covered, LeaseAt, Active, NoWork
  <2> QED
    BY <1>q, <1>t, <2>1, <2>3, <2>4, <2>5
<1>2. CASE RetryTick(r)
  <2>1. s.phase = "running" /\ UNCHANGED <<sup, work, held, boots>>
        /\ cn = [c EXCEPT !.asked = c.asked + 1]
    BY <1>2 DEF RetryTick, Maps
  <2>2. cn \in Calls /\ cn.granted = c.granted /\ cn.unlocks = c.unlocks
    BY <1>t, <1>f, <2>1 DEF Calls
  <2>3. QuietAt(r)' /\ Covered(r)' /\ LeaseAt(r)'
    BY <1>0, <1>t, <1>f, <2>1, <2>2 DEF QuietAt, Covered, LeaseAt, Active
  <2> QED
    BY <1>q, <1>t, <2>1, <2>2, <2>3
<1>3. CASE Answer(r)
  <2>1. c.asked > 0 /\ UNCHANGED <<sup, work, boots>>
        /\ \/ /\ held'[r] = held[r] + 1
              /\ cn = [c EXCEPT !.asked = c.asked - 1, !.granted = c.granted + 1]
           \/ /\ UNCHANGED held
              /\ cn = [c EXCEPT !.asked = c.asked - 1, !.refused = c.refused + 1]
    BY <1>3 DEF Answer, Maps
  <2>2. cn \in Calls /\ cn.unlocks = c.unlocks /\ held'[r] \in Nat
        /\ held'[r] - cn.granted = held[r] - c.granted
    <3>1. c.asked - 1 \in Nat /\ c.granted + 1 \in Nat /\ c.refused + 1 \in Nat
      BY <1>f, <2>1
    <3> HIDE DEF c, cn
    <3>2. CASE held'[r] = held[r] + 1
               /\ cn = [c EXCEPT !.asked = c.asked - 1, !.granted = c.granted + 1]
      <4> DEFINE x == c.asked - 1
                 y == c.granted + 1
      <4>0. x \in Nat /\ y \in Nat /\ cn = [c EXCEPT !.asked = x, !.granted = y]
        BY <3>1, <3>2
      <4> HIDE DEF x, y
      <4>2. cn \in Calls /\ cn.granted = y /\ cn.unlocks = c.unlocks
        <5>1. c \in Calls
          BY <1>t
        <5> QED
          BY <4>0, <5>1, CallGranted
      <4>1. cn \in Calls /\ cn.granted = c.granted + 1 /\ cn.unlocks = c.unlocks
        BY <4>2 DEF y
      <4> QED
        BY <1>t, <1>f, <3>2, <4>1
    <3>3. CASE UNCHANGED held
               /\ cn = [c EXCEPT !.asked = c.asked - 1, !.refused = c.refused + 1]
      <4>1. cn \in Calls /\ cn.granted = c.granted /\ cn.unlocks = c.unlocks
        BY <1>t, <3>1, <3>3, CallRefused
      <4> QED
        BY <1>t, <1>f, <3>3, <4>1
    <3> QED
      BY <2>1, <3>2, <3>3
  <2>3. s.phase # "down"
    BY <1>up, <2>1 DEF NoCalls
  <2>4. cn.granted \in Nat
    BY <2>2 DEF Calls
  <2>5. QuietAt(r)' /\ Covered(r)' /\ LeaseAt(r)'
    BY <1>0, <1>t, <1>f, <2>1, <2>2, <2>3, <2>4 DEF QuietAt, Covered, LeaseAt, Active
  <2> QED
    BY <1>q, <1>t, <2>1, <2>2, <2>5
<1>4. CASE QueryFails(r)
  <2>1. c.asked > 0 /\ UNCHANGED <<sup, work, held, boots>>
        /\ cn = [c EXCEPT !.asked = c.asked - 1, !.failed = c.failed + 1]
    BY <1>4 DEF QueryFails, Maps
  <2>2. cn \in Calls /\ cn.granted = c.granted /\ cn.unlocks = c.unlocks
    <3>1. c.asked - 1 \in Nat /\ c.failed + 1 \in Nat
      BY <1>f, <2>1
    <3> HIDE DEF c, cn
    <3> QED
      BY <1>t, <2>1, <3>1, CallFailed
  <2>3. s.phase # "down"
    BY <1>up, <2>1 DEF NoCalls
  <2>4. QuietAt(r)' /\ Covered(r)' /\ LeaseAt(r)'
    BY <1>0, <1>t, <1>f, <2>1, <2>2, <2>3 DEF QuietAt, Covered, LeaseAt, Active
  <2> QED
    BY <1>q, <1>t, <2>1, <2>2, <2>4
<1>5. CASE OnGranted(r)
  <2>0. c.granted > 0 /\ s.phase # "down" /\ UNCHANGED <<held, boots>>
    BY <1>5, <1>up DEF OnGranted, NoCalls
  <2>1. CASE Stopped(r)
    <3>1. UNCHANGED work /\ sn = [s EXCEPT !.healthy = TRUE]
          /\ cn = [c EXCEPT !.granted = c.granted - 1, !.unlocks = c.unlocks + 1]
      BY <1>5, <2>1 DEF OnGranted, Maps
    <3>2. sn \in Supervisor /\ sn.phase = s.phase /\ sn.lease = s.lease /\ sn.leader = s.leader
      BY <1>t, <3>1 DEF Supervisor
    <3>3. cn \in Calls /\ cn.granted = c.granted - 1 /\ cn.unlocks = c.unlocks + 1
      <4> DEFINE x == c.granted - 1
                 y == c.unlocks + 1
      <4>1. x \in Nat /\ y \in Nat /\ cn = [c EXCEPT !.granted = x, !.unlocks = y]
        BY <1>f, <2>0, <3>1
      <4> HIDE DEF c, cn, x, y
      <4>2. cn \in Calls /\ cn.granted = x /\ cn.unlocks = y
        BY <1>t, <4>1 DEF Calls
      <4> QED
        BY <4>2 DEF x, y
    <3>4. QuietAt(r)' /\ Covered(r)' /\ LeaseAt(r)'
      BY <1>0, <1>t, <1>f, <2>0, <3>1, <3>2, <3>3 DEF QuietAt, Covered, LeaseAt, Active
    <3> QED
      BY <1>q, <1>t, <2>0, <3>1, <3>2, <3>3, <3>4
  <2>2. CASE ~Stopped(r)
    <3>1. /\ sn = [s EXCEPT !.healthy = TRUE, !.lease = TRUE, !.leader = TRUE, !.timer = FALSE]
          /\ cn = [c EXCEPT !.granted = c.granted - 1]
          /\ wn = Started(w)
      BY <1>5, <2>2 DEF OnGranted, Maps
    <3>2. sn \in Supervisor /\ sn.phase = "running" /\ sn.lease /\ sn.leader
      BY <1>t, <1>f, <2>0, <2>2, <3>1 DEF Supervisor, Stopped
    <3>3. cn \in Calls /\ cn.granted = c.granted - 1 /\ cn.unlocks = c.unlocks
      BY <1>t, <1>f, <2>0, <3>1 DEF Calls
    <3>4. /\ wn \in Worker /\ wn.halting = w.halting
          /\ kind = "timer" => wn.starting = w.starting /\ (w.timers <= 1 => wn.timers <= 1)
      BY <1>t, <3>1, StartedWorker
    <3>6. ~w.halting
      BY <1>t, <2>0, <2>2 DEF LeaseAt, Stopped
    <3>5. QuietAt(r)' /\ Covered(r)' /\ LeaseAt(r)'
      BY <1>0, <1>t, <1>f, <2>0, <3>2, <3>3, <3>4, <3>6
         DEF QuietAt, Covered, LeaseAt, Active
    <3> QED
      BY <1>q, <1>t, <2>0, <3>2, <3>3, <3>4, <3>5
  <2> QED
    BY <2>1, <2>2
<1>6. CASE OnRefused(r)
  <2>1. c.refused > 0 /\ UNCHANGED <<work, held, boots>>
        /\ cn = [c EXCEPT !.refused = c.refused - 1]
        /\ sn = [s EXCEPT !.healthy = TRUE, !.timer = s.timer \/ ~Stopped(r)]
    BY <1>6 DEF OnRefused, Maps
  <2>2. (s.timer \/ ~Stopped(r)) \in BOOLEAN
    BY Zenon
  <2>3. sn \in Supervisor /\ sn.phase = s.phase /\ sn.lease = s.lease /\ sn.leader = s.leader
    BY <1>t, <2>1, <2>2 DEF Supervisor
  <2>4. cn \in Calls /\ cn.granted = c.granted /\ cn.unlocks = c.unlocks
    BY <1>t, <1>f, <2>1 DEF Calls
  <2>5. s.phase # "down"
    BY <1>up, <2>1 DEF NoCalls
  <2>6. QuietAt(r)' /\ Covered(r)' /\ LeaseAt(r)'
    BY <1>0, <1>t, <1>f, <2>1, <2>3, <2>4, <2>5 DEF QuietAt, Covered, LeaseAt, Active
  <2> QED
    BY <1>q, <1>t, <2>1, <2>3, <2>4, <2>6
<1>7. CASE OnFailed(r)
  <2>1. c.failed > 0 /\ UNCHANGED <<work, held, boots>>
        /\ cn = [c EXCEPT !.failed = c.failed - 1]
        /\ sn = [s EXCEPT !.healthy = FALSE, !.timer = s.timer \/ ~Stopped(r)]
    BY <1>7 DEF OnFailed, Maps
  <2>2. (s.timer \/ ~Stopped(r)) \in BOOLEAN
    BY Zenon
  <2>3. sn \in Supervisor /\ sn.phase = s.phase /\ sn.lease = s.lease /\ sn.leader = s.leader
    BY <1>t, <2>1, <2>2 DEF Supervisor
  <2>4. cn \in Calls /\ cn.granted = c.granted /\ cn.unlocks = c.unlocks
    BY <1>t, <1>f, <2>1 DEF Calls
  <2>5. s.phase # "down"
    BY <1>up, <2>1 DEF NoCalls
  <2>6. QuietAt(r)' /\ Covered(r)' /\ LeaseAt(r)'
    BY <1>0, <1>t, <1>f, <2>1, <2>3, <2>4, <2>5 DEF QuietAt, Covered, LeaseAt, Active
  <2> QED
    BY <1>q, <1>t, <2>1, <2>3, <2>4, <2>6
<1>8. CASE Unlock(r)
  <2>1. c.unlocks > 0 /\ UNCHANGED <<sup, work, boots>>
        /\ cn = [c EXCEPT !.unlocks = c.unlocks - 1]
        /\ held'[r] = IF held[r] > 0 THEN held[r] - 1 ELSE 0
    BY <1>8 DEF Unlock, Maps
  <2>2. cn \in Calls /\ cn.granted = c.granted /\ cn.unlocks = c.unlocks - 1
    BY <1>t, <1>f, <2>1 DEF Calls
  <2>3. held'[r] \in Nat /\ held'[r] >= held[r] - 1
    BY <1>t, <2>1
  <2>4. s.phase # "down"
    BY <1>up, <2>1 DEF NoCalls
  <2>5. QuietAt(r)' /\ Covered(r)' /\ LeaseAt(r)'
    BY <1>0, <1>t, <1>f, <2>1, <2>2, <2>3, <2>4 DEF QuietAt, Covered, LeaseAt, Active
  <2> QED
    BY <1>q, <1>t, <2>1, <2>2, <2>3, <2>5
<1>9. CASE WorkerStopped(r)
  <2> DEFINE n == IF s.lease THEN c.unlocks + 1 ELSE c.unlocks
  <2>1. s.phase = "stopping" /\ UNCHANGED <<held, boots>>
        /\ sn = [s EXCEPT !.phase = "stopped", !.lease = FALSE]
        /\ cn = [c EXCEPT !.unlocks = n]
        /\ wn = [w EXCEPT !.halting = FALSE]
    BY <1>9 DEF WorkerStopped, Maps
  <2>2. sn \in Supervisor /\ sn.phase = "stopped" /\ ~sn.lease /\ sn.leader = s.leader
    BY <1>t, <2>1 DEF Supervisor
  <2>3. cn \in Calls /\ cn.granted = c.granted /\ cn.unlocks = n
    BY <1>t, <1>f, <2>1 DEF Calls
  <2>4. wn \in Worker /\ wn.starting = w.starting /\ wn.timers = w.timers /\ ~wn.halting
    BY <1>t, <1>f, <2>1 DEF Worker
  <2>5. QuietAt(r)' /\ Covered(r)' /\ LeaseAt(r)'
    BY <1>0, <1>t, <1>f, <2>1, <2>2, <2>3, <2>4 DEF QuietAt, Covered, LeaseAt, Active
  <2> QED
    BY <1>q, <1>t, <2>1, <2>2, <2>3, <2>4, <2>5
<1>14. CASE WorkerStopFails(r)
  <2>1. s.phase = "stopping" /\ UNCHANGED <<calls, held, boots>>
        /\ sn = [s EXCEPT !.phase = "stopped"]
        /\ wn = [w EXCEPT !.halting = FALSE]
    BY <1>14 DEF WorkerStopFails, Maps
  <2>2. sn \in Supervisor /\ sn.phase = "stopped" /\ sn.lease = s.lease /\ sn.leader = s.leader
    BY <1>t, <2>1 DEF Supervisor
  <2>3. wn \in Worker /\ wn.starting = w.starting /\ wn.timers = w.timers /\ ~wn.halting
    BY <1>t, <1>f, <2>1 DEF Worker
  <2>4. QuietAt(r)' /\ Covered(r)' /\ LeaseAt(r)'
    BY <1>0, <1>t, <1>f, <2>1, <2>2, <2>3 DEF QuietAt, Covered, LeaseAt, Active
  <2> QED
    BY <1>q, <1>t, <2>1, <2>2, <2>3, <2>4
<1>10. CASE BatchEnds(r)
  <2> DEFINE y == IF kind = "batchThenTimer" THEN w.starting ELSE w.timers
  <2>1. w.starting > 0 /\ UNCHANGED <<sup, calls, held, boots>>
        /\ wn = [w EXCEPT !.starting = 0, !.timers = y]
    BY <1>10 DEF BatchEnds, Maps
  <2>2. wn \in Worker /\ wn.starting = 0 /\ wn.timers = y /\ wn.halting = w.halting
    <3>1. y \in Nat /\ 0 \in Nat
      BY <1>f
    <3>2. w \in Worker /\ wn = [w EXCEPT !.starting = 0, !.timers = y]
      BY <1>t, <2>1
    <3> HIDE DEF w, wn, y
    <3> QED
      BY <3>1, <3>2 DEF Worker
  <2>3. s.phase # "down" /\ kind # "timer" /\ Active(r)
    BY <1>0, <1>t, <1>up, <2>1 DEF NoWork, LeaseAt, Active
  <2>4. QuietAt(r)' /\ Covered(r)' /\ LeaseAt(r)'
    BY <1>0, <1>t, <1>f, <2>1, <2>2, <2>3 DEF QuietAt, Covered, LeaseAt
  <2> QED
    BY <1>q, <1>t, <2>1, <2>2, <2>4
<1>11. CASE BatchFails(r)
  <2> DEFINE ph == IF s.phase = "stopping" THEN "stopped" ELSE s.phase
  <2>1. w.starting > 0 /\ UNCHANGED <<calls, held, boots>>
        /\ wn = [w EXCEPT !.starting = 0, !.halting = FALSE]
        /\ sn = [s EXCEPT !.leader = FALSE, !.healthy = FALSE, !.phase = ph]
    BY <1>11 DEF BatchFails, Maps
  <2>5. w \in Worker
    BY <1>t
  <2>2. sn \in Supervisor /\ sn.phase = ph /\ sn.lease = s.lease /\ ~sn.leader
    BY <1>t, <1>f, <2>1 DEF Supervisor
  <2>3. wn \in Worker /\ wn.starting = 0 /\ wn.timers = w.timers /\ ~wn.halting
    <3> HIDE DEF w, wn
    <3> QED
      BY <2>1, <2>5, WorkerGivesUp
  <2>4. s.phase # "down" /\ kind # "timer" /\ Active(r)
    BY <1>0, <1>t, <1>up, <2>1 DEF NoWork, LeaseAt, Active
  <2>6. QuietAt(r)' /\ Covered(r)' /\ LeaseAt(r)'
    BY <1>0, <1>t, <1>f, <2>1, <2>2, <2>3, <2>4 DEF QuietAt, Covered, LeaseAt
  <2> QED
    BY <1>q, <1>t, <2>1, <2>2, <2>3, <2>6
<1>12. CASE Stop(r)
  <2>0. s.phase = "running" /\ UNCHANGED <<held, boots>>
    BY <1>12 DEF Stop
  <2>1. CASE s.leader
    <3>1. UNCHANGED calls
          /\ sn = [s EXCEPT !.phase = "stopping", !.timer = FALSE, !.leader = FALSE]
          /\ wn = Halted(w)
      BY <1>12, <2>1 DEF Stop, Maps
    <3>2. sn \in Supervisor /\ sn.phase = "stopping" /\ sn.lease = s.lease /\ ~sn.leader
      BY <1>t, <3>1 DEF Supervisor
    <3>3. /\ wn \in Worker /\ wn.starting = w.starting /\ wn.halting
          /\ w.timers <= 1 => wn.timers = 0
      BY <1>t, <3>1, HaltedWorker
    <3>4. QuietAt(r)' /\ Covered(r)' /\ LeaseAt(r)'
      BY <1>0, <1>t, <1>f, <2>0, <2>1, <3>1, <3>2, <3>3 DEF QuietAt, Covered, LeaseAt, Active
    <3> QED
      BY <1>q, <1>t, <2>0, <3>1, <3>2, <3>3, <3>4
  <2>2. CASE ~s.leader
    <3> DEFINE n == IF s.lease THEN c.unlocks + 1 ELSE c.unlocks
    <3>1. UNCHANGED work
          /\ sn = [s EXCEPT !.phase = "stopped", !.timer = FALSE, !.lease = FALSE]
          /\ cn = [c EXCEPT !.unlocks = n]
      BY <1>12, <2>2 DEF Stop, Maps
    <3>2. sn \in Supervisor /\ sn.phase = "stopped" /\ ~sn.lease /\ sn.leader = s.leader
      BY <1>t, <3>1 DEF Supervisor
    <3>3. cn \in Calls /\ cn.granted = c.granted /\ cn.unlocks = n
      BY <1>t, <1>f, <3>1 DEF Calls
    <3>4. QuietAt(r)' /\ Covered(r)' /\ LeaseAt(r)'
      BY <1>0, <1>t, <1>f, <2>0, <2>2, <3>1, <3>2, <3>3 DEF QuietAt, Covered, LeaseAt, Active
    <3> QED
      BY <1>q, <1>t, <2>0, <3>1, <3>2, <3>3, <3>4
  <2> QED
    BY <2>1, <2>2
<1>13. CASE Exit(r)
  <2>1. sn = Down /\ cn = NoCalls /\ wn = NoWork /\ held'[r] = 0 /\ UNCHANGED boots
    BY <1>13 DEF Exit, Maps
  <2>2. sn \in Supervisor /\ cn \in Calls /\ wn \in Worker
    BY <2>1 DEF Down, NoCalls, NoWork, Supervisor, Calls, Worker
  <2>3. QuietAt(r)' /\ Covered(r)' /\ LeaseAt(r)'
    BY <1>0, <2>1 DEF Down, NoCalls, NoWork, QuietAt, Covered, LeaseAt, Active
  <2> QED
    BY <1>q, <1>t, <2>1, <2>2, <2>3
<1> QED
  BY <1>1, <1>2, <1>3, <1>4, <1>5, <1>6, <1>7, <1>8, <1>9, <1>10, <1>11, <1>12, <1>13,
     <1>14 DEF Step, Continue

\* Only the answer to a question takes the lock, and only a free one or one's own.
LEMMA StepLock ==
  ASSUME Maps, NEW r \in Replica, ReplicaInv(r), Step(r), held'[r] > 0
  PROVE  held[r] > 0 \/ \A q \in Replica \ {r} : held[q] = 0
<1> USE DEF Maps, ReplicaInv
<1>1. CASE Answer(r)
  BY <1>1 DEF Answer
<1>2. CASE Unlock(r)
  BY <1>2 DEF Unlock
<1>3. CASE Exit(r)
  BY <1>3 DEF Exit
<1>4. CASE UNCHANGED held
  BY <1>4
<1> QED
  BY <1>1, <1>2, <1>3, <1>4
     DEF Step, Continue, Start, RetryTick, QueryFails, OnGranted, OnRefused, OnFailed,
         WorkerStopped, WorkerStopFails, BatchEnds, BatchFails, Stop

LEMMA StepLockInv ==
  ASSUME LockInv, NEW r \in Replica, Step(r)
  PROVE  LockInv'
<1>1. Maps /\ OneSession /\ \A q \in Replica : ReplicaInv(q)
  BY InvByReplica
<1>2. Maps' /\ OnlyAt(r) /\ UNCHANGED <<losses, kind>>
  BY <1>1, StepFrame, StepKeeps
<1>3. ReplicaInv(r)'
  BY <1>1, StepReplica
<1>4. ASSUME NEW q \in Replica, q # r PROVE ReplicaInv(q)'
  BY <1>1, <1>2, <1>4 DEF OnlyAt, ReplicaInv, QuietAt, Covered, LeaseAt, Active
<1>5. OneSession'
  <2> SUFFICES ASSUME NEW p \in Replica, NEW q \in Replica, held'[p] > 0, held'[q] > 0
               PROVE  p = q
    BY DEF OneSession
  <2>1. held'[r] > 0 => held[r] > 0 \/ \A s \in Replica \ {r} : held[s] = 0
    BY <1>1, StepLock
  <2>2. \A s \in Replica \ {r} : held'[s] = held[s]
    BY <1>2 DEF OnlyAt
  <2> QED
    BY <1>1, <2>1, <2>2 DEF OneSession
<1>6. \A q \in Replica : ReplicaInv(q)'
  BY <1>3, <1>4
<1> QED
  BY <1>2, <1>5, <1>6, PartsGiveInv

\* A lost session frees the lock and fails the questions; from then on nothing is
\* said about who covers what.
LEMMA LossInv ==
  ASSUME LockInv, NEW r \in Replica, LoseSession(r)
  PROVE  LockInv'
<1> DEFINE c == calls[r]
           n == c.failed + c.asked
<1>1. Maps /\ OneSession /\ \A q \in Replica : ReplicaInv(q)
  BY InvByReplica
<1>2. /\ sup[r].phase # "down"
      /\ held' = [held EXCEPT ![r] = 0]
      /\ calls' = [calls EXCEPT ![r] = [c EXCEPT !.asked = 0, !.unlocks = 0, !.failed = n]]
      /\ losses' = losses + 1
      /\ UNCHANGED <<sup, work, boots, kind>>
  BY DEF LoseSession
<1>3. Maps' /\ losses' # 0
  <2>1. losses' \in Nat /\ losses' # 0
    BY <1>1, <1>2 DEF Maps
  <2>2. /\ held' = [q \in Replica |-> held'[q]]
        /\ calls' = [q \in Replica |-> calls'[q]]
    BY <1>1, <1>2 DEF Maps
  <2> QED
    BY <1>1, <1>2, <2>1, <2>2 DEF Maps
<1>4. OneSession'
  BY <1>1, <1>2 DEF OneSession, Maps
<1>5. ASSUME NEW q \in Replica PROVE ReplicaInv(q)'
  <2>1. ReplicaInv(q)
    BY <1>1
  <2>2. calls'[q] \in Calls /\ (sup[q].phase = "down" => calls'[q] = calls[q])
    <3>1. c \in Calls /\ n \in Nat
      BY <1>1 DEF ReplicaInv, Calls
    <3>2. [c EXCEPT !.asked = 0, !.unlocks = 0, !.failed = n] \in Calls
      <4> HIDE DEF c, n
      <4> QED
        BY <3>1 DEF Calls
    <3> QED
      BY <1>1, <1>2, <2>1, <3>2 DEF Maps, ReplicaInv
  <2>3. held'[q] \in Nat
    BY <1>1, <1>2, <2>1 DEF Maps, ReplicaInv
  <2>4. QuietAt(q)' /\ Covered(q)' /\ LeaseAt(q)'
    BY <1>2, <1>3, <2>1, <2>2 DEF ReplicaInv, QuietAt, Covered, LeaseAt, Active
  <2> QED
    BY <1>2, <2>1, <2>2, <2>3, <2>4 DEF ReplicaInv
<1> QED
  BY <1>3, <1>4, <1>5, PartsGiveInv

-----------------------------------------------------------------------------
(* The theorems.                                                           *)

\* The invariant holds in every reachable state: one session at most holds the lock,
\* a replica leads only with the lease, and until a session is lost every unlock
\* under way and every lease has a lock of its own.
THEOREM LockInvariance == Spec => []LockInv
<1>1. ASSUME LockInv, [Next]_vars PROVE LockInv'
  <2>1. CASE UNCHANGED vars
    BY <1>1, <2>1 DEF vars, LockInv, TypeOK, QuietWhenDown, OneSession, LocksCovered,
                      LeaseOfLeader, Active
  <2>2. CASE Next
    <3>1. PICK r \in Replica : Step(r) \/ LoseSession(r)
      BY <2>2 DEF Next, Step
    <3> QED
      BY <1>1, <3>1, StepLockInv, LossInv
  <2> QED
    BY <1>1, <2>1, <2>2
<1> QED
  BY <1>1, InitLock, PTL DEF Spec

\* As long as no session is lost, two replicas with the lease are the same replica:
\* each lease has a lock of its own and one session at most holds the lock.
LEMMA OneLease ==
  ASSUME LockInv, losses = 0, NEW q \in Replica, NEW r \in Replica,
         sup[q].lease, sup[r].lease
  PROVE  q = r
<1>1. ASSUME NEW p \in Replica, sup[p].lease PROVE held[p] > 0
  <2>1. calls[p].granted \in Nat /\ calls[p].unlocks \in Nat /\ held[p] \in Nat
    BY DEF LockInv, TypeOK, Calls
  <2> QED
    BY <1>1, <2>1 DEF LockInv, LocksCovered
<1> QED
  BY <1>1 DEF LockInv, OneSession

\* Until a session is lost two supervisors never lead at once (the flag that
\* worker.start() and readiness depend on), whatever kind of worker they run.
THEOREM OneLeader == Spec => []AtMostOneLeader
<1>1. LockInv => AtMostOneLeader
  BY OneLease DEF AtMostOneLeader, LockInv, LeaseOfLeader
<1> QED
  BY <1>1, LockInvariance, PTL

\* Until a session is lost a worker runs on one replica at a time, through stops,
\* crashes, retries and overlapping attempts; of a worker with a first batch that is
\* said of the replicas that have not stopped.
THEOREM OneRunning == Spec => []WorkerRunsOnce
<1>1. ASSUME LockInv, NEW r \in Replica, Active(r),
             kind # "timer" => sup[r].phase # "stopped"
      PROVE  sup[r].lease
  <2>1. CASE sup[r].phase # "stopped"
    BY <1>1, <2>1 DEF LockInv, LeaseOfLeader
  <2>2. CASE kind = "timer"
    <3>1. work[r].halting \/ work[r].timers = 1
      <4>1. work[r].timers \in Nat /\ work[r].timers <= 1 /\ work[r].starting = 0
        BY <1>1, <2>2 DEF LockInv, LeaseOfLeader, TypeOK, Worker
      <4> QED
        BY <1>1, <4>1 DEF Active
    <3> QED
      BY <1>1, <2>2, <3>1 DEF LockInv, LeaseOfLeader
  <2> QED
    BY <1>1, <2>1, <2>2
<1>2. LockInv => WorkerRunsOnce
  BY <1>1, OneLease DEF WorkerRunsOnce
<1> QED
  BY <1>2, LockInvariance, PTL
-----------------------------------------------------------------------------
(* Why a lease without a worker is reported: only a refusal or a new lease *)
(* makes a replica healthy again, and a session that holds the lock is not *)
(* refused.                                                                *)
ReportInv == NoLeaseWhenDown /\ RefusedBeforeLease /\ IdleLeaseIsReported

ReportAt(r) ==
  /\ sup[r].phase = "down" => ~sup[r].lease
  /\ losses = 0 /\ sup[r].lease => calls[r].refused = 0
  /\ losses = 0 /\ sup[r].phase = "running" /\ sup[r].lease /\ ~sup[r].leader
       => ~sup[r].healthy

LEMMA ReportByReplica ==
  /\ ReportInv <=> \A r \in Replica : ReportAt(r)
  /\ ReportInv' <=> \A r \in Replica : ReportAt(r)'
BY DEF ReportInv, NoLeaseWhenDown, RefusedBeforeLease, IdleLeaseIsReported, ReportAt

\* A session with the lease has the lock, so that its questions are granted.
LEMMA HolderIsGranted ==
  ASSUME LockInv, losses = 0, NEW r \in Replica, sup[r].lease
  PROVE  \A q \in Replica \ {r} : held[q] = 0
<1>1. calls[r].granted \in Nat /\ calls[r].unlocks \in Nat
      /\ \A q \in Replica : held[q] \in Nat
  BY DEF LockInv, TypeOK, Calls
<1>2. held[r] > 0
  BY <1>1 DEF LockInv, LocksCovered
<1>3. ASSUME NEW q \in Replica, q # r PROVE held[q] = 0
  <2>1. ~(held[q] > 0)
    BY <1>2, <1>3 DEF LockInv, OneSession
  <2> QED
    BY <1>1, <2>1
<1> QED
  BY <1>3

LEMMA ReportStep ==
  ASSUME LockInv, NEW r \in Replica, ReportAt(r), Step(r)
  PROVE  ReportAt(r)'
<1> DEFINE s == sup[r]
           c == calls[r]
           sn == sup'[r]
           cn == calls'[r]
<1>m. Maps /\ ReplicaInv(r)
  BY InvByReplica
<1>t. s \in Supervisor /\ c \in Calls /\ work[r] \in Worker /\ LeaseAt(r)
  BY <1>m DEF ReplicaInv
<1>f. /\ s.phase \in {"down", "running", "stopping", "stopped"}
      /\ s.lease \in BOOLEAN /\ s.leader \in BOOLEAN /\ c.refused \in Nat
  BY <1>t, Fields
<1>0. UNCHANGED losses
  BY StepKeeps
<1>1. CASE Start(r)
  <2>1. s.phase = "down" /\ sn = [s EXCEPT !.phase = "running"]
    BY <1>1, <1>m DEF Start, Maps
  <2>2. sn.phase = "running" /\ ~sn.lease
    BY <1>t, <2>1 DEF Supervisor, ReportAt
  <2> QED
    BY <2>2 DEF ReportAt
<1>2. CASE RetryTick(r) \/ QueryFails(r)
  <2>1. UNCHANGED sup
    BY <1>2 DEF RetryTick, QueryFails
  <2>2. cn.refused = c.refused
    <3>1. CASE RetryTick(r)
      <4>1. cn = [c EXCEPT !.asked = c.asked + 1]
        BY <1>m, <3>1 DEF RetryTick, Maps
      <4> QED
        BY <1>t, <4>1 DEF Calls
    <3>2. CASE QueryFails(r)
      <4>1. cn = [c EXCEPT !.asked = c.asked - 1, !.failed = c.failed + 1]
        BY <1>m, <3>2 DEF QueryFails, Maps
      <4> QED
        BY <1>t, <4>1 DEF Calls
    <3> QED
      BY <1>2, <3>1, <3>2
  <2> QED
    BY <1>0, <2>1, <2>2 DEF ReportAt
<1>3. CASE Answer(r)
  <2>1. UNCHANGED sup
    BY <1>3 DEF Answer
  <2>2. losses = 0 /\ s.lease => cn.refused = c.refused
    <3>1. losses = 0 /\ s.lease => \A q \in Replica \ {r} : held[q] = 0
      BY HolderIsGranted
    <3>2. losses = 0 /\ s.lease
            => cn = [c EXCEPT !.asked = c.asked - 1, !.granted = c.granted + 1]
      BY <1>3, <1>m, <3>1 DEF Answer, Maps
    <3> QED
      BY <1>t, <3>2 DEF Calls
  <2> QED
    BY <1>0, <2>1, <2>2 DEF ReportAt
<1>4. CASE OnGranted(r) /\ Stopped(r)
  <2>1. sn = [s EXCEPT !.healthy = TRUE]
        /\ cn = [c EXCEPT !.granted = c.granted - 1, !.unlocks = c.unlocks + 1]
    BY <1>4, <1>m DEF OnGranted, Maps
  <2>2. sn.phase = s.phase /\ sn.lease = s.lease /\ cn.refused = c.refused
    BY <1>t, <2>1 DEF Supervisor, Calls
  <2>3. s.phase # "running"
    BY <1>4 DEF Stopped
  <2> QED
    BY <1>0, <2>2, <2>3 DEF ReportAt
<1>5. CASE OnGranted(r) /\ ~Stopped(r)
  <2>1. /\ sn = [s EXCEPT !.healthy = TRUE, !.lease = TRUE, !.leader = TRUE, !.timer = FALSE]
        /\ cn = [c EXCEPT !.granted = c.granted - 1]
        /\ c.granted > 0 /\ (c.refused = 0 \/ losses > 0)
    BY <1>5, <1>m DEF OnGranted, Maps
  <2>2. sn.leader /\ sn.phase = s.phase /\ cn.refused = c.refused
    BY <1>t, <2>1 DEF Supervisor, Calls
  <2>3. s.phase # "down"
    BY <1>m, <2>1 DEF ReplicaInv, QuietAt, NoCalls
  <2> QED
    BY <1>0, <2>1, <2>2, <2>3 DEF ReportAt
<1>6. CASE OnRefused(r)
  <2>1. /\ c.refused > 0
        /\ cn = [c EXCEPT !.refused = c.refused - 1]
        /\ sn = [s EXCEPT !.healthy = TRUE, !.timer = s.timer \/ ~Stopped(r)]
    BY <1>6, <1>m DEF OnRefused, Maps
  <2>2. sn.phase = s.phase /\ sn.lease = s.lease
    BY <1>t, <2>1 DEF Supervisor
  <2>3. losses = 0 => ~s.lease
    BY <1>f, <2>1 DEF ReportAt
  <2> QED
    BY <1>0, <2>2, <2>3 DEF ReportAt
<1>7. CASE OnFailed(r)
  <2>1. /\ cn = [c EXCEPT !.failed = c.failed - 1]
        /\ sn = [s EXCEPT !.healthy = FALSE, !.timer = s.timer \/ ~Stopped(r)]
    BY <1>7, <1>m DEF OnFailed, Maps
  <2>2. sn.phase = s.phase /\ sn.lease = s.lease /\ ~sn.healthy /\ cn.refused = c.refused
    BY <1>t, <2>1 DEF Supervisor, Calls
  <2> QED
    BY <1>0, <2>2 DEF ReportAt
<1>8. CASE Unlock(r)
  <2>1. UNCHANGED sup /\ cn = [c EXCEPT !.unlocks = c.unlocks - 1]
    BY <1>8, <1>m DEF Unlock, Maps
  <2>2. cn.refused = c.refused
    BY <1>t, <2>1 DEF Calls
  <2> QED
    BY <1>0, <2>1, <2>2 DEF ReportAt
<1>9. CASE WorkerStopped(r)
  <2>1. sn = [s EXCEPT !.phase = "stopped", !.lease = FALSE]
    BY <1>9, <1>m DEF WorkerStopped, Maps
  <2>2. ~sn.lease
    BY <1>t, <2>1 DEF Supervisor
  <2> QED
    BY <2>2 DEF ReportAt
<1>14. CASE WorkerStopFails(r)
  <2>1. UNCHANGED calls /\ sn = [s EXCEPT !.phase = "stopped"]
    BY <1>14, <1>m DEF WorkerStopFails, Maps
  <2>2. sn.phase = "stopped" /\ sn.lease = s.lease
    BY <1>t, <2>1 DEF Supervisor
  <2> QED
    BY <1>0, <2>1, <2>2 DEF ReportAt
<1>10. CASE BatchEnds(r)
  BY <1>0, <1>10 DEF BatchEnds, ReportAt
<1>11. CASE BatchFails(r)
  <2> DEFINE ph == IF s.phase = "stopping" THEN "stopped" ELSE s.phase
  <2>1. UNCHANGED calls /\ sn = [s EXCEPT !.leader = FALSE, !.healthy = FALSE, !.phase = ph]
    BY <1>11, <1>m DEF BatchFails, Maps
  <2>2. sn.phase = ph /\ sn.lease = s.lease /\ ~sn.healthy
    BY <1>t, <2>1 DEF Supervisor
  <2> QED
    BY <1>0, <2>1, <2>2 DEF ReportAt
<1>12. CASE Stop(r)
  <2>1. CASE s.leader
    <3>1. UNCHANGED calls
          /\ sn = [s EXCEPT !.phase = "stopping", !.timer = FALSE, !.leader = FALSE]
      BY <1>12, <1>m, <2>1 DEF Stop, Maps
    <3>2. sn.phase = "stopping" /\ sn.lease = s.lease
      BY <1>t, <3>1 DEF Supervisor
    <3> QED
      BY <1>0, <3>1, <3>2 DEF ReportAt
  <2>2. CASE ~s.leader
    <3>1. sn = [s EXCEPT !.phase = "stopped", !.timer = FALSE, !.lease = FALSE]
      BY <1>12, <1>m, <2>2 DEF Stop, Maps
    <3>2. ~sn.lease
      BY <1>t, <3>1 DEF Supervisor
    <3> QED
      BY <3>2 DEF ReportAt
  <2> QED
    BY <2>1, <2>2
<1>13. CASE Exit(r)
  <2>1. sn = Down
    BY <1>13, <1>m DEF Exit, Maps
  <2> QED
    BY <2>1 DEF Down, ReportAt
<1> QED
  BY <1>1, <1>2, <1>3, <1>4, <1>5, <1>6, <1>7, <1>8, <1>9, <1>10, <1>11, <1>12, <1>13,
     <1>14 DEF Step, Continue

\* The whole invariant: on top of the locks, a lease is not there before a process is,
\* no refusal outlives it, and a lease without a worker is reported.
THEOREM Invariance == Spec => []IInv
<1>1. Init => ReportInv
  BY DEF Init, Down, ReportInv, NoLeaseWhenDown, RefusedBeforeLease, IdleLeaseIsReported
<1>2. ASSUME LockInv, ReportInv, [Next]_vars PROVE ReportInv'
  <2> SUFFICES ASSUME NEW q \in Replica PROVE ReportAt(q)'
    BY ReportByReplica
  <2>1. ReportAt(q) /\ Maps /\ ReplicaInv(q)
    BY <1>2, ReportByReplica, InvByReplica
  <2>2. CASE UNCHANGED vars
    BY <2>1, <2>2 DEF vars, ReportAt
  <2>3. ASSUME NEW r \in Replica, Step(r) PROVE ReportAt(q)'
    <3>1. CASE q = r
      BY <1>2, <2>1, <2>3, <3>1, ReportStep
    <3>2. CASE q # r
      <4>1. sup'[q] = sup[q] /\ calls'[q] = calls[q]
        BY <2>1, <2>3, <3>2, StepFrame DEF OnlyAt
      <4>2. UNCHANGED losses
        BY <2>3, StepKeeps
      <4> QED
        BY <2>1, <4>1, <4>2 DEF ReportAt
    <3> QED
      BY <3>1, <3>2
  <2>4. ASSUME NEW r \in Replica, LoseSession(r) PROVE ReportAt(q)'
    <3>1. losses' # 0 /\ UNCHANGED sup
      BY <2>1, <2>4 DEF LoseSession, Maps
    <3> QED
      BY <2>1, <3>1 DEF ReportAt
  <2> QED
    BY <1>2, <2>2, <2>3, <2>4 DEF Next, Step
<1>3. Spec => []ReportInv
  BY <1>1, <1>2, LockInvariance, PTL DEF Spec
<1>4. LockInv /\ ReportInv => IInv
  BY DEF IInv, ReportInv
<1> QED
  BY <1>3, <1>4, LockInvariance, PTL

\* Until a session is lost, a replica that keeps the lease without a worker reports
\* itself unhealthy, for any number of replicas and overlapping attempts.
THEOREM IdleLeaseReported == Spec => []IdleLeaseIsReported
<1>1. IInv => IdleLeaseIsReported
  BY DEF IInv
<1> QED
  BY <1>1, Invariance, PTL
=============================================================================
