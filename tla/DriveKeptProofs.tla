---------------------------- MODULE DriveKeptProofs ----------------------------
(***************************************************************************)
(* What Drive keeps: until something slips, the bytes of every version are *)
(* where it says.  For any number of files, contents, processes, versions  *)
(* and faults, with and without shared blobs.                              *)
(***************************************************************************)
EXTENDS DriveProofs

-----------------------------------------------------------------------------
(* Who may touch a file, until something slips.  Without dedup the keys of *)
(* a file are its own; with it its versions are at keys of their contents. *)

OwnKeys(o) == {QuarantineKey(o)} \cup {OwnKey(o, n) : n \in 1..MaxVersions}
VersionAt(v) == IF Dedup THEN BlobKeyOf(v.content, v.key)
                         ELSE \E n \in 1..v.number : v.key = OwnKey(v.object, n)
RowAt(o, V, row) ==
  /\ ~Dedup => row.key \in OwnKeys(o)
  /\ row.status \notin {"infected", "gone"} =>
       \/ row.key = OwnKey(o, 1) /\ V = {}
       \/ \E v \in V : v.key = row.key

\* A file without a verdict has no job, and one with a dead job no call.
Unscanned == {"pending_upload", "upload_expiring"}
JobAt(row, j) ==
  /\ j.status # "none" =>
       /\ row.status \notin Unscanned
       /\ row.status = "scan_processing" => row.previous \notin Unscanned
  /\ j.status = "dead" => row.status = "scan_dead_letter"
FileAt(o, V, row, j) == (\A v \in V : VersionAt(v)) /\ RowAt(o, V, row) /\ JobAt(row, j)

\* A call that finalizes a file has the claim, and the row is as it read it.  One
\* that undoes what it did may be without: the answer of its commit was lost, and
\* what it still deletes is what it set aside of a file that is quarantined.
Settling == {"infected", "gone"}
Has(w, r, row) ==
  /\ row.status = "scan_processing"
  /\ row.token = w
  /\ row.previous = r.previous
  /\ row.key = r.reserved
Lost(w, r, row) ==
  /\ row.token # w
  /\ r.step \in {"check", "discard"} => row.status \in Settling /\ r.wrote = QuarantineKey(r.o)
Claims(w, r, rows) ==
  /\ r.step \in Finalizing => Has(w, r, rows[r.o])
  /\ r.step \in Undoing => Has(w, r, rows[r.o]) \/ Lost(w, r, rows[r.o])

\* What a call has written, where it will write, what it deletes.
CallAt(r) ==
  /\ r.step \in {"scan", "unscanned", "infected", "reserve", "write"} => r.wrote = None
  /\ r.step = "quarantine" => r.wrote \in {None, QuarantineKey(r.o)}
  /\ r.step = "commit" => r.wrote \in {None, r.key}
  /\ r.step = "unreserve" => Dedup /\ r.wrote = None
  /\ r.step \in {"check", "discard"} =>
       /\ r.wrote \in OwnKeys(r.o)
       /\ Dedup => r.wrote = QuarantineKey(r.o)
  /\ r.step \in {"write", "commit"} /\ ~Dedup =>
       r.key = IF r.inline # None /\ r.previous = "ready" THEN OwnKey(r.o, r.number) ELSE r.reserved
  /\ r.step \in {"erase", "complete"} => r.key \in r.todo

HeldInv ==
  /\ \A o \in Object : FileAt(o, VersionsOf(o), file[o], job[o])
  /\ \A w \in Process : CallAt(worker[w]) /\ Claims(w, worker[w], file)

LEMMA HeldFile ==
  ASSUME CountsInv, HeldInv, NEW o \in Object
  PROVE  /\ file[o] \in File /\ job[o] \in Job
         /\ NumberedSet(VersionsOf(o)) /\ GoodRow(VersionsOf(o), file[o], job[o])
         /\ \A v \in VersionsOf(o) : VersionAt(v) /\ v \in Version
         /\ RowAt(o, VersionsOf(o), file[o]) /\ JobAt(file[o], job[o])
         /\ VersionsOf(o) \in SUBSET Version /\ Cardinality(VersionsOf(o)) \in Nat
<1>1. HistoryInv /\ Inv
  BY CountsParts, HistoryParts
<1>2. VersionsOf(o) \in SUBSET Version /\ Cardinality(VersionsOf(o)) \in Nat
  BY <1>1, VersionsFinite
<1>3. NumberedSet(VersionsOf(o)) /\ GoodRow(VersionsOf(o), file[o], job[o])
  BY <1>1, SettledNow
<1> QED
  BY <1>2, <1>3, RowIs DEF HeldInv, FileAt

LEMMA HeldCall ==
  ASSUME CountsInv, HeldInv, NEW w \in Process
  PROVE  /\ worker[w] \in Call /\ Knows(worker[w]) /\ CallFits(worker[w])
         /\ CallAt(worker[w]) /\ Claims(w, worker[w], file)
         /\ worker[w].step \in {"job", "jobfail"} \cup Undoes \cup Expiring => worker[w].o \in Object
BY CallIs DEF HeldInv

\* A call at work on a file, and what that says of all others.
WorksOn(w, o) == worker[w].step \in Undoes /\ worker[w].o = o /\ file[o].token = w

LEMMA WorkerHolds ==
  ASSUME CountsInv, HeldInv, NEW w \in Process, NEW o \in Object, WorksOn(w, o)
  PROVE  /\ Has(w, worker[w], file[o]) /\ Held(o) /\ Owns(w)
         /\ \A v \in Process \ {w} : ~WorksOn(v, o)
<1>1. \A v \in Process : WorksOn(v, o) => Has(v, worker[v], file[o])
  BY HeldCall DEF Claims, Lost, WorksOn, Undoes
<1>2. Held(o) /\ Owns(w)
  BY <1>1 DEF Held, Owns, Has, WorksOn, Undoes
<1> QED
  BY <1>1, <1>2 DEF Has

LEMMA NobodyWorks ==
  ASSUME CountsInv, HeldInv, NEW o \in Object, ~Held(o) \/ file[o].status # "scan_processing"
  PROVE  \A v \in Process : ~WorksOn(v, o)
BY WorkerHolds DEF Has

\* A call that commits is at work on its file.
LEMMA Finalizes ==
  ASSUME CountsInv, HeldInv, NEW w \in Process, worker[w].step \in Finalizing
  PROVE  WorksOn(w, worker[w].o) /\ worker[w].o \in Object /\ worker[w].step \in Undoes
BY HeldCall DEF Claims, Has, WorksOn, Undoes

\* The number of its next version, of the file that a finalization works on.
LEMMA WorkerKnows ==
  ASSUME CountsInv, HeldInv, NEW w \in Process, worker[w].step \in Finalizing
  PROVE  /\ worker[w].o \in Object /\ WorksOn(w, worker[w].o)
         /\ worker[w].number = NextNumber(worker[w].o)
         /\ Has(w, worker[w], file[worker[w].o])
         /\ Returns(VersionsOf(worker[w].o), file[worker[w].o], worker[w].previous)
         /\ worker[w].reserved \in Key /\ worker[w].number \in 1..MaxVersions
         /\ worker[w].step # "scan" => worker[w].content \in Content
<1> DEFINE r == worker[w]
           o == r.o
<1>1. r.step \in Undoes /\ o \in Object /\ Knows(r)
  BY HeldCall DEF Undoes
<1>2. Has(w, r, file[o])
  BY <1>1, HeldCall DEF Claims
<1>3. Holds(o, file[o], w, r) /\ file[o].status = "scan_processing"
  BY <1>1, <1>2 DEF Holds, Has
<1>4. GoodHolder(VersionsOf(o), file[o], r)
  BY <1>1, <1>3, SettledNow, CountsParts
<1> QED
  BY <1>1, <1>2, <1>3, <1>4, Finalizes DEF GoodHolder, NextNumber, Knows

-----------------------------------------------------------------------------
(* A step that touches one file, and what it has to show.                  *)

Passes(o) ==
  /\ file'[o].token \in {file[o].token, None}
  /\ file[o].status \in Settling => file'[o].status \in Settling
Left(v, o) ==
  /\ worker'[v] = worker[v]
  /\ \/ file'[o] = file[o]
     \/ ~WorksOn(v, o) /\ (Passes(o) \/ (file[o].status \notin Settling /\ file'[o].token # v))

LEMMA HeldStep ==
  ASSUME CountsInv, HeldInv, NEW o \in Object,
         \A p \in Object \ {o} : /\ VersionsOf(p)' = VersionsOf(p)
                                 /\ file'[p] = file[p]
                                 /\ job'[p] = job[p],
         FileAt(o, VersionsOf(o)', file'[o], job'[o]),
         \A v \in Process : \/ Left(v, o)
                            \/ CallAt(worker'[v]) /\ Claims(v, worker'[v], file')
  PROVE  HeldInv'
<1>1. ASSUME NEW p \in Object PROVE FileAt(p, VersionsOf(p)', file'[p], job'[p])
  BY DEF HeldInv
<1>2. ASSUME NEW v \in Process
      PROVE  CallAt(worker'[v]) /\ Claims(v, worker'[v], file')
  <2>1. CASE Left(v, o)
    <3>1. CallAt(worker[v]) /\ Claims(v, worker[v], file)
          /\ (worker[v].step \in Undoes => worker[v].o \in Object)
      BY HeldCall
    <3>2. CASE worker[v].o # o \/ file'[o] = file[o] \/ worker[v].step \notin Undoes
      BY <2>1, <3>1, <3>2 DEF Left, Claims, Undoes, Has, Lost
    <3>3. CASE worker[v].o = o /\ worker[v].step \in Undoes /\ file'[o] # file[o]
      <4>1. /\ ~WorksOn(v, o) /\ file[o].token # v
            /\ file'[o].token # v
            /\ file[o].status \in Settling => file'[o].status \in Settling
        BY <2>1, <3>3, NoneElsewhere DEF Left, Passes, WorksOn
      <4>2. worker[v].step \notin Finalizing /\ Lost(v, worker[v], file[o])
        BY <3>1, <3>3, <4>1 DEF Claims, Has, Undoes
      <4> QED
        BY <2>1, <3>1, <3>3, <4>1, <4>2 DEF Left, Claims, Lost
    <3> QED
      BY <3>2, <3>3
  <2> QED
    BY <1>2, <2>1
<1> QED
  BY <1>1, <1>2 DEF HeldInv

LEMMA HeldCalls ==
  ASSUME CountsInv, HeldInv, UNCHANGED <<version, file, job>>,
         \A v \in Process : \/ worker'[v] = worker[v]
                            \/ CallAt(worker'[v]) /\ Claims(v, worker'[v], file)
  PROVE  HeldInv'
<1>1. \A p \in Object : FileAt(p, VersionsOf(p)', file'[p], job'[p])
  BY DEF HeldInv, VersionsOf
<1>2. \A v \in Process : CallAt(worker'[v]) /\ Claims(v, worker'[v], file')
  BY DEF HeldInv
<1> QED
  BY <1>1, <1>2 DEF HeldInv

\* A step of one call.
LEMMA CallNow ==
  ASSUME CountsInv, NEW w \in Process, NEW r, Does(w, r)
  PROVE  worker'[w] = r /\ \A v \in Process \ {w} : worker'[v] = worker[v]
BY CallIs DEF CallsOK, Does

Alike(r, q) ==
  /\ r.o = q.o /\ r.retry = q.retry /\ r.inline = q.inline /\ r.previous = q.previous
  /\ r.reserved = q.reserved /\ r.number = q.number /\ r.content = q.content /\ r.key = q.key
  /\ r.wrote = q.wrote /\ r.todo = q.todo /\ r.as = q.as /\ r.kept = q.kept

LEMMA GoesNow ==
  ASSUME CountsInv, NEW w \in Process, NEW s, Goes(w, s)
  PROVE  /\ worker'[w].step = s /\ Alike(worker'[w], worker[w])
         /\ \A v \in Process \ {w} : worker'[v] = worker[v]
<1> DEFINE next == [worker[w] EXCEPT !.step = s]
<1>1. worker[w] \in Call
  BY CallIs
<1>2. next.step = s /\ Alike(next, worker[w])
  BY <1>1 DEF Call, Alike
<1>3. Does(w, next)
  BY DEF Goes
<1> HIDE DEF next
<1> QED
  BY <1>2, <1>3, CallNow

LEMMA CallGoesOn ==
  ASSUME CountsInv, HeldInv, UNCHANGED <<version, file, job>>, NEW w \in Process,
         \A v \in Process \ {w} : worker'[v] = worker[v],
         CallAt(worker'[w]),
         worker'[w].step \in Undoes =>
           /\ worker[w].step \in Finalizing \/ (worker[w].step \in Undoing /\ worker'[w].step \in Undoing)
           /\ worker'[w].step \in {"check", "discard"} => worker[w].step \in Finalizing \cup {"check", "discard"}
           /\ worker'[w].wrote = worker[w].wrote \/ worker[w].step \in Finalizing
           /\ worker'[w].o = worker[w].o
           /\ worker'[w].previous = worker[w].previous
           /\ worker'[w].reserved = worker[w].reserved
  PROVE  HeldInv'
<1>1. Claims(w, worker[w], file)
  BY HeldCall
<1>2. Claims(w, worker'[w], file)
  <2>1. CASE worker'[w].step \in Undoes /\ worker[w].step \in Finalizing
    BY <1>1, <2>1 DEF Claims, Has
  <2>2. CASE worker'[w].step \in Undoes /\ worker[w].step \notin Finalizing
    BY <1>1, <2>2 DEF Claims, Has, Lost, Undoing, Finalizing
  <2>3. CASE worker'[w].step \notin Undoes
    BY <2>3 DEF Claims, Undoes
  <2> QED
    BY <2>1, <2>2, <2>3
<1> QED
  BY <1>2, HeldCalls

\* Calls that have nothing to do with a finalization.
LEMMA FreeCall ==
  ASSUME NEW r, r.step \notin Undoes \cup {"erase", "complete"}
  PROVE  CallAt(r) /\ \A w, rows : Claims(w, r, rows)
BY DEF CallAt, Claims, Undoes, Finalizing, Undoing

LEMMA FreeSteps ==
  /\ "idle" \notin Undoes \cup {"erase", "complete"}
  /\ "job" \notin Undoes \cup {"erase", "complete"}
  /\ "jobfail" \notin Undoes \cup {"erase", "complete"}
  /\ "look" \notin Undoes \cup {"erase", "complete"}
  /\ "expire" \notin Undoes \cup {"erase", "complete"}
  /\ "forget" \notin Undoes \cup {"erase", "complete"}
BY DEF Undoes, Finalizing, Undoing

-----------------------------------------------------------------------------
(* Steps of calls that leave the rows of all files alone.                  *)

\* What a call keeps of itself while it finalizes.
Kin(q, r) ==
  /\ q.o = r.o /\ q.inline = r.inline /\ q.previous = r.previous
  /\ q.reserved = r.reserved /\ q.number = r.number /\ q.todo = r.todo

LEMMA UndoHeld ==
  ASSUME CountsInv, HeldInv, UNCHANGED <<version, file, job>>, NEW w \in Process,
         worker[w].step \in Finalizing, Goes(w, UndoStep(w)),
         worker[w].step = "commit" /\ Dedup => worker[w].wrote = None
  PROVE  HeldInv'
<1> DEFINE r == worker[w]
           q == worker'[w]
           s == UndoStep(w)
<1>1. q.step = s /\ Alike(q, r) /\ \A v \in Process \ {w} : worker'[v] = worker[v]
  BY GoesNow
<1>2. r.step \in Undoes /\ r.o \in Object /\ CallAt(r) /\ Has(w, r, file[r.o])
  BY HeldCall, WorkerKnows DEF Undoes
<1>3. s \in {"unreserve", "check", "release"}
  BY DEF UndoStep
<1>4. s = "unreserve" => Dedup /\ r.wrote = None
  BY <1>2 DEF UndoStep, CallAt
<1>5. ASSUME s = "check" PROVE r.wrote \in OwnKeys(r.o) /\ (Dedup => r.wrote = QuarantineKey(r.o))
  <2>1. r.wrote # None /\ r.step \in {"quarantine", "commit"} /\ (r.step = "commit" => ~Dedup)
    BY <1>2, <1>5 DEF UndoStep, CallAt, Finalizing
  <2>2. CASE r.step = "quarantine"
    BY <1>2, <2>1, <2>2 DEF CallAt, OwnKeys
  <2>3. CASE r.step = "commit"
    <3>1. r.wrote = r.key /\ r.key \in {r.reserved, OwnKey(r.o, r.number)} /\ ~Dedup
      BY <1>2, <2>1, <2>3 DEF CallAt
    <3>2. r.number \in 1..MaxVersions
      BY WorkerKnows
    <3>3. r.reserved \in OwnKeys(r.o)
      BY <1>2, <3>1, HeldFile DEF Has, RowAt
    <3> QED
      BY <3>1, <3>2, <3>3 DEF OwnKeys
  <2> QED
    BY <2>1, <2>2, <2>3
<1> HIDE DEF r, q, s
<1>6. CallAt(q)
  BY <1>1, <1>3, <1>4, <1>5 DEF CallAt, Alike
<1> QED
  BY <1>1, <1>2, <1>6, CallGoesOn DEF Alike, r, q, s

LEMMA ScanNow ==
  ASSUME CountsInv, NEW w \in Process, Scan(w)
  PROVE  /\ worker[w].step = "scan"
         /\ Kin(worker'[w], worker[w]) /\ worker'[w].wrote = worker[w].wrote
         /\ \A v \in Process \ {w} : worker'[v] = worker[v]
         /\ UNCHANGED <<blobVars, file, job, slipped>>
         /\ \/ worker'[w].step = UndoStep(w) /\ Goes(w, UndoStep(w))
            \/ /\ worker'[w].content = Source(w) /\ Source(w) # None
               /\ \/ worker'[w].step = "unscanned"
                  \/ worker'[w].step = "infected" /\ Source(w) \in Infected
                  \/ /\ worker'[w].step = IF Dedup THEN "reserve"
                               ELSE IF worker[w].inline # None THEN "write" ELSE "commit"
                     /\ ~Dedup => worker'[w].key =
                          IF worker[w].inline # None /\ worker[w].previous = "ready"
                            THEN OwnKey(worker[w].o, worker[w].number) ELSE worker[w].reserved
<1> DEFINE r == worker[w]
           c == Source(w)
           home == IF r.inline # None /\ r.previous = "ready" THEN OwnKey(r.o, r.number) ELSE r.reserved
           step == IF Dedup THEN "reserve" ELSE IF r.inline # None THEN "write" ELSE "commit"
           key == IF Dedup THEN None ELSE home
<1>1. r.step = "scan" /\ r \in Call
  BY CallIs DEF Scan
<1>2. CASE Undo(w)
  BY <1>1, <1>2, GoesNow DEF Undo, Alike, Kin
<1>3. CASE ~Undo(w)
  <2>1. c # None /\ UNCHANGED <<blobVars, file, job, slipped>>
    BY <1>3 DEF Scan
  <2>2. \/ Does(w, [r EXCEPT !.step = "unscanned", !.content = c])
        \/ c \in Infected /\ Does(w, [r EXCEPT !.step = "infected", !.content = c])
        \/ Does(w, [r EXCEPT !.step = step, !.content = c, !.key = key])
    BY <1>3 DEF Scan
  <2>3. ASSUME NEW s, Does(w, [r EXCEPT !.step = s, !.content = c])
        PROVE  /\ worker'[w].step = s /\ worker'[w].content = c /\ worker'[w].wrote = r.wrote
               /\ Kin(worker'[w], r) /\ \A v \in Process \ {w} : worker'[v] = worker[v]
    <3> DEFINE next == [r EXCEPT !.step = s, !.content = c]
    <3>1. next.step = s /\ next.content = c /\ Kin(next, r) /\ next.wrote = r.wrote
      BY <1>1 DEF Call, Kin
    <3>2. Does(w, next)
      BY <2>3
    <3> HIDE DEF next, r
    <3> QED
      BY <3>1, <3>2, CallNow
  <2>4. ASSUME Does(w, [r EXCEPT !.step = step, !.content = c, !.key = key])
        PROVE  /\ worker'[w].step = step /\ worker'[w].content = c /\ worker'[w].wrote = r.wrote
               /\ worker'[w].key = key
               /\ Kin(worker'[w], r) /\ \A v \in Process \ {w} : worker'[v] = worker[v]
    <3> DEFINE next == [r EXCEPT !.step = step, !.content = c, !.key = key]
    <3>1. next.step = step /\ next.content = c /\ Kin(next, r) /\ next.wrote = r.wrote /\ next.key = key
      BY <1>1 DEF Call, Kin
    <3>2. Does(w, next)
      BY <2>4
    <3> HIDE DEF next, r, key, step
    <3> QED
      BY <3>1, <3>2, CallNow
  <2> HIDE DEF c
  <2>5. CASE Does(w, [r EXCEPT !.step = "unscanned", !.content = c])
    BY <1>1, <2>1, <2>3, <2>5 DEF c
  <2>6. CASE c \in Infected /\ Does(w, [r EXCEPT !.step = "infected", !.content = c])
    BY <1>1, <2>1, <2>3, <2>6 DEF c
  <2>7. CASE Does(w, [r EXCEPT !.step = step, !.content = c, !.key = key])
    BY <1>1, <2>1, <2>4, <2>7 DEF c
  <2> QED
    BY <2>2, <2>5, <2>6, <2>7
<1> QED
  BY <1>2, <1>3

LEMMA ScanHeld == ASSUME CountsInv, HeldInv, NEW w \in Process, Scan(w) PROVE HeldInv'
<1> DEFINE r == worker[w]
           q == worker'[w]
<1>1. /\ r.step = "scan" /\ Kin(q, r) /\ q.wrote = r.wrote
      /\ \A v \in Process \ {w} : worker'[v] = worker[v]
      /\ UNCHANGED <<version, file, job>>
  BY ScanNow DEF blobVars
<1>2. CallAt(r) /\ r.step \in Undoes /\ r.step \in Finalizing
  BY <1>1, HeldCall DEF Undoes, Finalizing
<1>3. CASE Goes(w, UndoStep(w))
  BY <1>1, <1>2, <1>3, UndoHeld
<1>4. CASE ~Goes(w, UndoStep(w))
  <2>1. /\ q.step \in {"unscanned", "infected", "reserve", "write", "commit"}
        /\ q.step \in {"write", "commit"} => ~Dedup
        /\ q.step \in {"write", "commit"} =>
             q.key = IF r.inline # None /\ r.previous = "ready" THEN OwnKey(r.o, r.number) ELSE r.reserved
    BY <1>4, ScanNow
  <2>2. r.wrote = None
    BY <1>1, <1>2 DEF CallAt
  <2>3. CallAt(q)
    BY <1>1, <2>1, <2>2 DEF CallAt, Kin
  <2> QED
    BY <1>1, <1>2, <2>3, CallGoesOn DEF Kin
<1> QED
  BY <1>3, <1>4

LEMMA SetAsideNow ==
  ASSUME CountsInv, NEW w \in Process, SetAside(w)
  PROVE  /\ worker[w].step = "infected" /\ worker'[w].step = "quarantine"
         /\ Kin(worker'[w], worker[w]) /\ worker'[w].content = worker[w].content
         /\ \A v \in Process \ {w} : worker'[v] = worker[v]
         /\ UNCHANGED <<version, blob, reservation, deletion, file, job, slipped>>
         /\ \/ worker'[w].wrote = QuarantineKey(worker[w].o)
               /\ bytes' = [bytes EXCEPT ![QuarantineKey(worker[w].o)] = Source(w)]
               /\ Source(w) # None
            \/ worker'[w].wrote = worker[w].wrote /\ UNCHANGED bytes
<1> DEFINE r == worker[w]
           next == [r EXCEPT !.step = "quarantine", !.wrote = QuarantineKey(r.o)]
<1>1. r \in Call /\ r.step = "infected"
  BY CallIs DEF SetAside
<1>2. next.step = "quarantine" /\ next.wrote = QuarantineKey(r.o) /\ Kin(next, r)
      /\ next.content = r.content
  BY <1>1 DEF Call, Kin
<1>3. CASE Goes(w, "quarantine") /\ UNCHANGED bytes
  BY <1>1, <1>3, GoesNow DEF SetAside, Alike, Kin
<1>4. CASE Does(w, next) /\ bytes' = [bytes EXCEPT ![QuarantineKey(r.o)] = Source(w)] /\ Source(w) # None
  <2> HIDE DEF next
  <2>1. worker'[w] = next /\ \A v \in Process \ {w} : worker'[v] = worker[v]
    BY <1>4, CallNow
  <2> QED
    BY <1>1, <1>2, <1>4, <2>1 DEF SetAside
<1>5. \/ Goes(w, "quarantine") /\ UNCHANGED bytes
      \/ Does(w, next) /\ bytes' = [bytes EXCEPT ![QuarantineKey(r.o)] = Source(w)] /\ Source(w) # None
  BY DEF SetAside
<1> QED
  BY <1>3, <1>4, <1>5

LEMMA SetAsideHeld == ASSUME CountsInv, HeldInv, NEW w \in Process, SetAside(w) PROVE HeldInv'
<1> DEFINE r == worker[w]
           q == worker'[w]
<1>1. /\ r.step = "infected" /\ q.step = "quarantine" /\ Kin(q, r)
      /\ q.wrote \in {r.wrote, QuarantineKey(r.o)}
      /\ \A v \in Process \ {w} : worker'[v] = worker[v]
      /\ UNCHANGED <<version, file, job>>
  BY SetAsideNow
<1>2. CallAt(r) /\ r.step \in Undoes
  BY <1>1, HeldCall DEF Undoes, Finalizing
<1>3. CallAt(q)
  BY <1>1, <1>2 DEF CallAt, Kin
<1> QED
  BY <1>1, <1>2, <1>3, CallGoesOn DEF Kin, Finalizing

\* The file of a call at work is there, and the call has the claim.
LEMMA FileThere ==
  ASSUME CountsInv, HeldInv, NEW w \in Process, worker[w].step \in Finalizing
  PROVE  /\ Exists(worker[w].o) /\ Owns(w) /\ worker[w].o \in Object
         /\ WorksOn(w, worker[w].o)
BY Finalizes, WorkerHolds DEF Exists, Has

LEMMA ReserveNow ==
  ASSUME CountsInv, HeldInv, NEW w \in Process, Reserve(w)
  PROVE  /\ worker[w].step = "reserve" /\ Dedup
         /\ Kin(worker'[w], worker[w]) /\ worker'[w].content = worker[w].content
         /\ worker'[w].wrote = worker[w].wrote
         /\ \A v \in Process \ {w} : worker'[v] = worker[v]
         /\ UNCHANGED <<version, deletion, bytes, file, job, faults>>
         /\ worker'[w].step = IF blob[worker[w].content].refs > 0 THEN "commit" ELSE "write"
         /\ worker'[w].key \in Key /\ Destination(worker[w].content, worker'[w].key)
         /\ Unless(worker'[w].key = CurrentKey(worker[w].content)
                     \/ ~CountedOn(CurrentKey(worker[w].content)), "split")
         /\ blob' = BlobClaimed(worker[w].content, worker'[w].key)
         /\ reservation' = Reserved(worker[w].o, worker'[w].key, w)
<1> DEFINE r == worker[w]
           s == IF blob[r.content].refs > 0 THEN "commit" ELSE "write"
<1>1. r.step = "reserve" /\ r \in Call /\ CallFits(r)
  BY CallIs DEF Reserve
<1>2. Exists(r.o)
  BY <1>1, FileThere DEF Finalizing
<1>3. PICK k \in Key :
        /\ Destination(r.content, k)
        /\ Unless(k = CurrentKey(r.content) \/ ~CountedOn(CurrentKey(r.content)), "split")
        /\ blob' = BlobClaimed(r.content, k)
        /\ reservation' = Reserved(r.o, k, w)
        /\ Does(w, [r EXCEPT !.step = s, !.key = k])
        /\ UNCHANGED <<version, deletion, bytes, file, job, faults>>
  BY <1>2 DEF Reserve
<1> DEFINE next == [r EXCEPT !.step = s, !.key = k]
<1>4. /\ next.step = s /\ next.key = k /\ Kin(next, r) /\ next.content = r.content
      /\ next.wrote = r.wrote
  BY <1>1 DEF Call, Kin
<1> HIDE DEF s
<1>5. Does(w, next)
  BY <1>3
<1> HIDE DEF next
<1>6. worker'[w] = next /\ \A v \in Process \ {w} : worker'[v] = worker[v]
  BY <1>5, CallNow
<1>7. Dedup
  BY <1>1 DEF CallFits
<1> QED
  BY <1>1, <1>3, <1>4, <1>6, <1>7 DEF s

LEMMA ReserveHeld == ASSUME CountsInv, HeldInv, NEW w \in Process, Reserve(w) PROVE HeldInv'
<1> DEFINE r == worker[w]
           q == worker'[w]
<1>1. /\ r.step = "reserve" /\ q.step \in {"write", "commit"} /\ Kin(q, r) /\ Dedup
      /\ q.wrote = r.wrote
      /\ \A v \in Process \ {w} : worker'[v] = worker[v]
      /\ UNCHANGED <<version, file, job>>
  BY ReserveNow
<1>2. CallAt(r) /\ r.step \in Undoes
  BY <1>1, HeldCall DEF Undoes, Finalizing
<1>3. CallAt(q)
  BY <1>1, <1>2 DEF CallAt, Kin
<1> QED
  BY <1>1, <1>2, <1>3, CallGoesOn DEF Kin, Finalizing

LEMMA WriteNow ==
  ASSUME CountsInv, NEW w \in Process, Write(w)
  PROVE  /\ worker[w].step = "write"
         /\ UNCHANGED <<version, blob, reservation, deletion, file, job, slipped>>
         /\ \/ Goes(w, UndoStep(w)) /\ UNCHANGED bytes
            \/ /\ worker'[w].step = "commit" /\ Kin(worker'[w], worker[w])
               /\ worker'[w].content = worker[w].content /\ worker'[w].key = worker[w].key
               /\ worker'[w].wrote = worker[w].key
               /\ \A v \in Process \ {w} : worker'[v] = worker[v]
               /\ Source(w) # None
               /\ bytes' = [bytes EXCEPT ![worker[w].key] = Source(w)]
<1> DEFINE r == worker[w]
           next == [r EXCEPT !.step = "commit", !.wrote = r.key]
<1>1. r.step = "write" /\ r \in Call
  BY CallIs DEF Write
<1>2. CASE Undo(w)
  BY <1>1, <1>2 DEF Undo, blobVars
<1>3. CASE ~Undo(w)
  <2>1. Does(w, next)
    BY <1>3 DEF Write
  <2>2. next.step = "commit" /\ Kin(next, r) /\ next.content = r.content /\ next.key = r.key
        /\ next.wrote = r.key
    BY <1>1 DEF Call, Kin
  <2> HIDE DEF next
  <2>3. worker'[w] = next /\ \A v \in Process \ {w} : worker'[v] = worker[v]
    BY <2>1, CallNow
  <2> QED
    BY <1>1, <1>3, <2>2, <2>3 DEF Write
<1> QED
  BY <1>2, <1>3

LEMMA WriteHeld == ASSUME CountsInv, HeldInv, NEW w \in Process, Write(w) PROVE HeldInv'
<1> DEFINE r == worker[w]
           q == worker'[w]
<1>1. r.step = "write" /\ UNCHANGED <<version, file, job>>
  BY WriteNow
<1>2. CallAt(r) /\ r.step \in Undoes /\ r.step \in Finalizing
  BY <1>1, HeldCall DEF Undoes, Finalizing
<1>3. CASE Goes(w, UndoStep(w))
  BY <1>1, <1>2, <1>3, UndoHeld
<1>4. CASE ~Goes(w, UndoStep(w))
  <2>1. /\ q.step = "commit" /\ Kin(q, r) /\ q.key = r.key /\ q.wrote = r.key
        /\ \A v \in Process \ {w} : worker'[v] = worker[v]
    BY <1>4, WriteNow
  <2>2. CallAt(q)
    BY <1>1, <1>2, <2>1 DEF CallAt, Kin
  <2> QED
    BY <1>1, <1>2, <2>1, <2>2, CallGoesOn DEF Kin
<1> QED
  BY <1>3, <1>4
LEMMA FailHeld ==
  ASSUME CountsInv, HeldInv, slipped' = {}, NEW w \in Process, Fail(w) PROVE HeldInv'
<1>1. worker[w].step = "commit" /\ Dedup => worker[w].wrote = None
  BY DEF Fail, Unless, Slip
<1> QED
  BY <1>1, UndoHeld DEF Fail, blobVars

LEMMA UnreserveHeld ==
  ASSUME CountsInv, HeldInv, NEW w \in Process, Unreserve(w) PROVE HeldInv'
<1> DEFINE r == worker[w]
           q == worker'[w]
<1>1. r.step = "unreserve" /\ UNCHANGED <<version, file, job>>
  BY DEF Unreserve
<1>2. CallAt(r) /\ r.step \in Undoes
  BY <1>1, HeldCall DEF Undoes, Undoing
<1>3. r.wrote = None
  BY <1>1, <1>2 DEF CallAt
<1>4. q.step = "release" /\ Alike(q, r) /\ \A v \in Process \ {w} : worker'[v] = worker[v]
  BY <1>3, GoesNow DEF Unreserve
<1>5. CallAt(q)
  BY <1>4 DEF CallAt
<1> QED
  BY <1>1, <1>2, <1>4, <1>5, CallGoesOn DEF Alike, Undoing

LEMMA CheckWrittenHeld ==
  ASSUME CountsInv, HeldInv, NEW w \in Process, CheckWritten(w) PROVE HeldInv'
<1> DEFINE r == worker[w]
           q == worker'[w]
<1>1. r.step = "check" /\ UNCHANGED <<version, file, job>>
  BY DEF CheckWritten, blobVars
<1>2. CallAt(r) /\ r.step \in Undoes
  BY <1>1, HeldCall DEF Undoes, Undoing
<1>3. /\ q.step \in {"release", "discard"} /\ Alike(q, r)
      /\ \A v \in Process \ {w} : worker'[v] = worker[v]
  BY GoesNow DEF CheckWritten
<1>4. CallAt(q)
  BY <1>1, <1>2, <1>3 DEF CallAt, Alike
<1> QED
  BY <1>1, <1>2, <1>3, <1>4, CallGoesOn DEF Alike, Undoing

LEMMA DiscardHeld == ASSUME CountsInv, HeldInv, NEW w \in Process, Discard(w) PROVE HeldInv'
<1> DEFINE r == worker[w]
           q == worker'[w]
<1>1. r.step = "discard" /\ r.step \in Undoes /\ UNCHANGED <<version, file, job>>
  BY DEF Discard, Undoes, Undoing
<1>2. q.step = "release" /\ Alike(q, r) /\ \A v \in Process \ {w} : worker'[v] = worker[v]
  BY GoesNow DEF Discard
<1>3. CallAt(q)
  BY <1>2 DEF CallAt
<1> QED
  BY <1>1, <1>2, <1>3, CallGoesOn DEF Alike, Undoing

\* Steps that leave the files alone and the call with none.
LEMMA FreeHeld ==
  ASSUME CountsInv, HeldInv, UNCHANGED <<version, file, job>>, NEW w \in Process,
         \A v \in Process \ {w} : worker'[v] = worker[v],
         worker'[w].step \notin Undoes \cup {"erase", "complete"}
  PROVE  HeldInv'
BY FreeCall, HeldCalls

LEMMA EndsNow ==
  ASSUME CountsInv, NEW w \in Process, Ends(w)
  PROVE  /\ worker'[w] = Idle /\ Idle.step = "idle" /\ Idle.todo = {}
         /\ \A v \in Process \ {w} : worker'[v] = worker[v]
BY CallNow DEF Ends, Idle

LEMMA TendsNow ==
  ASSUME CountsInv, NEW w \in Process, NEW K, Tends(w, K)
  PROVE  /\ worker'[w].step \in {"idle", "look"} /\ worker'[w].todo = K
         /\ \A v \in Process \ {w} : worker'[v] = worker[v]
<1> DEFINE next == [Idle EXCEPT !.step = "look", !.todo = K]
<1>1. next.step = "look" /\ next.todo = K
  BY DEF Idle
<1>2. CASE K = {}
  BY <1>2, EndsNow DEF Tends, Ends
<1>3. CASE K # {}
  <2>1. Does(w, next)
    BY <1>3 DEF Tends
  <2> HIDE DEF next
  <2> QED
    BY <1>1, <2>1, CallNow
<1> QED
  BY <1>2, <1>3

LEMMA NextDeletionNow ==
  ASSUME CountsInv, NEW w \in Process, NextDeletion(w)
  PROVE  /\ worker'[w].step \in {"idle", "look"}
         /\ worker'[w].todo = worker[w].todo \ {worker[w].key}
         /\ \A v \in Process \ {w} : worker'[v] = worker[v]
<1> DEFINE rest == worker[w].todo \ {worker[w].key}
           next == [Idle EXCEPT !.step = "look", !.todo = rest, !.as = worker[w].as]
<1>1. next.step = "look" /\ next.todo = rest
  BY DEF Idle
<1>2. CASE rest = {}
  BY <1>2, EndsNow DEF NextDeletion, Ends
<1>3. CASE rest # {}
  <2>1. Does(w, next)
    BY <1>3 DEF NextDeletion
  <2> HIDE DEF next
  <2> QED
    BY <1>1, <2>1, CallNow
<1> QED
  BY <1>2, <1>3

LEMMA LookNow ==
  ASSUME CountsInv, NEW w \in Process, Look(w)
  PROVE  /\ worker[w].step = "look"
         /\ worker'[w].todo = worker[w].todo /\ worker'[w].key \in worker[w].todo
         /\ worker'[w].kept = (IsBlobKey(worker'[w].key) /\ Referenced(worker'[w].key))
         /\ worker'[w].step = IF worker'[w].kept THEN "complete" ELSE "erase"
         /\ \A v \in Process \ {w} : worker'[v] = worker[v]
         /\ UNCHANGED <<blobVars, file, job, slipped>>
<1> DEFINE r == worker[w]
<1>1. r \in Call /\ r.step = "look"
  BY CallIs DEF Look
<1>2. PICK k \in r.todo :
        LET kept == IsBlobKey(k) /\ Referenced(k)
        IN Does(w, [r EXCEPT !.step = IF kept THEN "complete" ELSE "erase", !.key = k, !.kept = kept])
  BY DEF Look
<1> DEFINE kept == IsBlobKey(k) /\ Referenced(k)
           s == IF kept THEN "complete" ELSE "erase"
           next == [r EXCEPT !.step = s, !.key = k, !.kept = kept]
<1>3. next.step = s /\ next.key = k /\ next.kept = kept /\ next.todo = r.todo
  <2> HIDE DEF s, kept
  <2> QED
    BY <1>1 DEF Call
<1>4. Does(w, next)
  BY <1>2
<1> HIDE DEF next
<1>5. worker'[w] = next /\ \A v \in Process \ {w} : worker'[v] = worker[v]
  BY <1>4, CallNow
<1> QED
  BY <1>1, <1>3, <1>5 DEF Look

LEMMA LookHeld == ASSUME CountsInv, HeldInv, NEW w \in Process, Look(w) PROVE HeldInv'
<1> DEFINE q == worker'[w]
<1>1. /\ q.step \in {"erase", "complete"} /\ q.key \in q.todo
      /\ \A v \in Process \ {w} : worker'[v] = worker[v]
      /\ UNCHANGED <<version, file, job>>
  BY LookNow DEF blobVars
<1>2. CallAt(q) /\ q.step \notin Undoes
  BY <1>1 DEF CallAt, Undoes, Finalizing, Undoing
<1> QED
  BY <1>1, <1>2, CallGoesOn

LEMMA EraseHeld == ASSUME CountsInv, HeldInv, NEW w \in Process, Erase(w) PROVE HeldInv'
<1> DEFINE r == worker[w]
           q == worker'[w]
<1>1. r.step = "erase" /\ UNCHANGED <<version, file, job>>
  BY DEF Erase
<1>2. CASE Goes(w, "complete")
  <2>1. q.step = "complete" /\ Alike(q, r) /\ \A v \in Process \ {w} : worker'[v] = worker[v]
    BY <1>2, GoesNow
  <2>2. CallAt(q) /\ q.step \notin Undoes
    BY <1>1, <2>1, HeldCall DEF CallAt, Alike, Undoes, Finalizing, Undoing
  <2> QED
    BY <1>1, <2>1, <2>2, CallGoesOn
<1>3. CASE NextDeletion(w)
  BY <1>1, <1>3, NextDeletionNow, FreeSteps, FreeHeld
<1> QED
  BY <1>2, <1>3 DEF Erase

LEMMA CompleteHeld == ASSUME CountsInv, HeldInv, NEW w \in Process, Complete(w) PROVE HeldInv'
<1>1. NextDeletion(w) /\ UNCHANGED <<version, file, job>>
  BY DEF Complete
<1> QED
  BY <1>1, NextDeletionNow, FreeSteps, FreeHeld

LEMMA ClaimDeletionNow ==
  ASSUME CountsInv, NEW w \in Process, NEW k \in Key, ClaimDeletion(w, k), slipped' = {}
  PROVE  /\ worker'[w].step = "look" /\ worker'[w].todo = {k}
         /\ \A v \in Process \ {w} : worker'[v] = worker[v]
         /\ BeingDeleted(k) /\ ~Tended(k)
         /\ deletion' = [deletion EXCEPT ![k] = "processing"]
         /\ UNCHANGED <<version, blob, reservation, bytes, file, job>>
<1> DEFINE next == [Idle EXCEPT !.step = "look", !.todo = {k}, !.as = "processing"]
<1>1. next.step = "look" /\ next.todo = {k}
  BY DEF Idle
<1>2. Does(w, next)
  BY DEF ClaimDeletion
<1>3. ~Tended(k)
  BY DEF ClaimDeletion, Unless, Slip
<1> HIDE DEF next
<1> QED
  BY <1>1, <1>2, <1>3, CallNow DEF ClaimDeletion

LEMMA ClaimDeletionHeld ==
  ASSUME CountsInv, HeldInv, slipped' = {}, NEW w \in Process, NEW k \in Key, ClaimDeletion(w, k)
  PROVE  HeldInv'
BY ClaimDeletionNow, FreeSteps, FreeHeld

LEMMA EraseUploadHeld ==
  ASSUME CountsInv, HeldInv, NEW w \in Process, EraseUpload(w) PROVE HeldInv'
BY GoesNow, EndsNow, FreeSteps, FreeHeld DEF EraseUpload

LEMMA CrashHeld == ASSUME CountsInv, HeldInv, NEW w \in Process, Crash(w) PROVE HeldInv'
BY EndsNow, FreeSteps, FreeHeld DEF Crash

LEMMA UploadHeld == ASSUME CountsInv, HeldInv, NEW o, NEW c, Upload(o, c) PROVE HeldInv'
BY HeldCalls DEF Upload

LEMMA ExpiresHeld == ASSUME CountsInv, HeldInv, NEW o \in Object, Expires(o) PROVE HeldInv'
BY HeldCalls DEF Expires, ReservationExpires

LEMMA ReconcileHeld == ASSUME CountsInv, HeldInv, ReconcileBlobs PROVE HeldInv'
BY HeldCalls DEF ReconcileBlobs, Reconcile

-----------------------------------------------------------------------------
(* Steps that change the row or the job of one file.                       *)

\* The row keeps its key and its versions.
LEMMA RowHeld ==
  ASSUME CountsInv, HeldInv, NEW o \in Object, UNCHANGED version,
         \A p \in Object \ {o} : file'[p] = file[p] /\ job'[p] = job[p],
         file'[o].key = file[o].key,
         file[o].status \in {"infected", "gone"} => file'[o].status \in {"infected", "gone"},
         JobAt(file'[o], job'[o]),
         \A v \in Process : \/ Left(v, o)
                            \/ CallAt(worker'[v]) /\ Claims(v, worker'[v], file')
  PROVE  HeldInv'
<1>1. \A p \in Object : VersionsOf(p)' = VersionsOf(p)
  BY DEF VersionsOf
<1>2. RowAt(o, VersionsOf(o), file'[o])
  BY HeldFile DEF RowAt
<1>3. FileAt(o, VersionsOf(o)', file'[o], job'[o])
  BY <1>1, <1>2, HeldFile DEF FileAt
<1> QED
  BY <1>1, <1>3, HeldStep

LEMMA RowNow ==
  ASSUME CountsInv, NEW o \in Object, NEW row, Rows(o, row)
  PROVE  file'[o] = row /\ \A p \in Object \ {o} : file'[p] = file[p]
BY RowIs, RowsOthers

LEMMA JobNow ==
  ASSUME CountsInv, NEW o \in Object, NEW j, Jobs(o, j)
  PROVE  job'[o] = j /\ \A p \in Object \ {o} : job'[p] = job[p]
BY RowIs, JobsOthers

LEMMA PrepareNow ==
  ASSUME CountsInv, NEW o \in Object, Prepare(o)
  PROVE  /\ file[o].status = "none" /\ file'[o].status = "pending_upload"
         /\ file'[o].key = file[o].key /\ file'[o].token = file[o].token
         /\ \A p \in Object \ {o} : file'[p] = file[p]
         /\ UNCHANGED <<blobVars, job, worker, slipped, faults>>
<1> DEFINE row == [file[o] EXCEPT !.status = "pending_upload"]
<1>1. file[o] \in File
  BY RowIs
<1>2. row.status = "pending_upload" /\ row.key = file[o].key /\ row.token = file[o].token
  BY <1>1 DEF File
<1>3. Rows(o, row)
  BY DEF Prepare
<1> HIDE DEF row
<1> QED
  BY <1>2, <1>3, RowNow DEF Prepare

LEMMA PrepareHeld == ASSUME CountsInv, HeldInv, NEW o \in Object, Prepare(o) PROVE HeldInv'
<1>1. /\ file[o].status = "none" /\ file'[o].status = "pending_upload"
      /\ file'[o].key = file[o].key /\ file'[o].token = file[o].token
      /\ \A p \in Object \ {o} : file'[p] = file[p]
      /\ UNCHANGED <<version, job, worker>>
  BY PrepareNow DEF blobVars
<1>2. job[o].status = "none"
  BY <1>1, HeldFile DEF GoodRow
<1>3. JobAt(file'[o], job'[o])
  BY <1>1, <1>2 DEF JobAt
<1>4. \A v \in Process : Left(v, o)
  BY <1>1, NobodyWorks DEF Left, Passes, Settling
<1> QED
  BY <1>1, <1>3, <1>4, RowHeld

LEMMA ClaimNow ==
  ASSUME CountsInv, HeldInv, slipped' = {}, NEW w \in Process, NEW o \in Object,
         NEW retry, NEW inline, Claim(w, o, retry, inline)
  PROVE  /\ file[o].status \notin {"none", "gone", "infected", "scan_dead_letter"}
         /\ \A v \in Process : ~WorksOn(v, o)
         /\ ~Dedup => /\ file[o].status # "upload_expiring"
                      /\ ~BeingDeleted(file[o].key) /\ ~BeingDeleted(OwnKey(o, NextNumber(o)))
                      /\ inline # None /\ worker'[w].previous # "ready" => VersionsOf(o) = {}
         /\ file'[o].status = "scan_processing" /\ file'[o].token = w
         /\ file'[o].key = file[o].key /\ file'[o].previous = worker'[w].previous
         /\ \A p \in Object \ {o} : file'[p] = file[p]
         /\ worker'[w].step = "scan" /\ worker'[w].o = o /\ worker'[w].inline = inline
         /\ worker'[w].previous = IF file[o].status = "scan_processing" THEN file[o].previous
                                                                       ELSE file[o].status
         /\ worker'[w].reserved = file[o].key /\ worker'[w].number = NextNumber(o)
         /\ worker'[w].wrote = None /\ worker'[w].todo = {}
         /\ \A v \in Process \ {w} : worker'[v] = worker[v]
         /\ UNCHANGED <<blobVars, job>>
<1> DEFINE previous == IF file[o].status = "scan_processing" THEN file[o].previous
                                                             ELSE file[o].status
           row == [file[o] EXCEPT !.status = "scan_processing", !.token = w, !.previous = previous]
           next == [Idle EXCEPT !.step = "scan", !.o = o, !.retry = retry, !.inline = inline,
                       !.previous = previous, !.reserved = file[o].key,
                       !.number = NextNumber(o)]
<1>1. file[o] \in File
  BY RowIs
<1>2. file[o].status \notin {"none", "gone", "infected", "scan_dead_letter"}
  BY DEF Claim, Claimable, Exists
<1>3. Rows(o, row) /\ Does(w, next) /\ UNCHANGED <<blobVars, job>>
      /\ ClaimSlips(o, inline, previous) = {}
  BY DEF Claim, Slipped
<1>4. /\ row.status = "scan_processing" /\ row.token = w /\ row.previous = previous
      /\ row.key = file[o].key
  BY <1>1 DEF File
<1>5. /\ next.step = "scan" /\ next.o = o /\ next.inline = inline /\ next.previous = previous
      /\ next.reserved = file[o].key /\ next.number = NextNumber(o)
      /\ next.wrote = None /\ next.todo = {}
  BY DEF Idle
<1> HIDE DEF row, next, previous
<1>6. /\ ~(file[o].status = "scan_processing" /\ Held(o))
      /\ ~Dedup => /\ file[o].status # "upload_expiring"
                   /\ ~BeingDeleted(file[o].key) /\ ~BeingDeleted(OwnKey(o, NextNumber(o)))
                   /\ inline # None /\ previous # "ready" => VersionsOf(o) = {}
  <2>1. "lease" \notin ClaimSlips(o, inline, previous) /\ "expiring" \notin ClaimSlips(o, inline, previous)
        /\ "queued" \notin ClaimSlips(o, inline, previous) /\ "replace" \notin ClaimSlips(o, inline, previous)
    BY <1>3
  <2>2. ~(file[o].status = "scan_processing" /\ Held(o))
    BY <2>1 DEF ClaimSlips, SlipKind
  <2>3. ~Dedup => file[o].status # "upload_expiring"
    BY <2>1 DEF ClaimSlips, SlipKind
  <2>4. ~Dedup => ~BeingDeleted(file[o].key) /\ ~BeingDeleted(OwnKey(o, NextNumber(o)))
    BY <2>1 DEF ClaimSlips, SlipKind
  <2>5. ~Dedup /\ inline # None /\ previous # "ready" => VersionsOf(o) = {}
    BY <2>1 DEF ClaimSlips, SlipKind
  <2> QED
    BY <2>2, <2>3, <2>4, <2>5
<1>7. \A v \in Process : ~WorksOn(v, o)
  BY <1>6, NobodyWorks
<1>8. worker'[w] = next /\ \A v \in Process \ {w} : worker'[v] = worker[v]
  BY <1>3, CallNow
<1>9. file'[o] = row /\ \A p \in Object \ {o} : file'[p] = file[p]
  BY <1>3, RowNow
<1> QED
  BY <1>2, <1>3, <1>4, <1>5, <1>6, <1>7, <1>8, <1>9 DEF previous

LEMMA ClaimHeld ==
  ASSUME CountsInv, HeldInv, slipped' = {}, NEW w \in Process, NEW o \in Object,
         NEW retry, NEW inline, Claim(w, o, retry, inline)
  PROVE  HeldInv'
<1> DEFINE q == worker'[w]
<1>1. /\ file[o].status \notin {"none", "gone", "infected", "scan_dead_letter"}
      /\ \A v \in Process : ~WorksOn(v, o)
      /\ file'[o].status = "scan_processing" /\ file'[o].token = w
      /\ file'[o].key = file[o].key /\ file'[o].previous = q.previous
      /\ \A p \in Object \ {o} : file'[p] = file[p]
      /\ q.step = "scan" /\ q.o = o /\ q.reserved = file[o].key /\ q.wrote = None
      /\ q.previous = IF file[o].status = "scan_processing" THEN file[o].previous ELSE file[o].status
      /\ \A v \in Process \ {w} : worker'[v] = worker[v]
      /\ UNCHANGED <<version, job>>
  BY ClaimNow DEF blobVars
<1>2. CallAt(q) /\ Claims(w, q, file')
  BY <1>1 DEF CallAt, Claims, Has, Undoing
<1>3. JobAt(file'[o], job'[o])
  BY <1>1, HeldFile DEF JobAt, Unscanned
<1>4. \A v \in Process \ {w} : Left(v, o)
  BY <1>1 DEF Left, Settling
<1> QED
  BY <1>1, <1>2, <1>3, <1>4, RowHeld

\* The end of a finalization that keeps the row's key and versions.
LEMMA EndHeld ==
  ASSUME CountsInv, HeldInv, UNCHANGED version, NEW w \in Process, NEW o \in Object,
         WorksOn(w, o),
         \A p \in Object \ {o} : file'[p] = file[p] /\ job'[p] = job[p],
         file'[o].key = file[o].key, file'[o].token \in {file[o].token, None},
         JobAt(file'[o], job'[o]),
         \A v \in Process \ {w} : worker'[v] = worker[v],
         CallAt(worker'[w]), Claims(w, worker'[w], file')
  PROVE  HeldInv'
<1>1. Has(w, worker[w], file[o]) /\ \A v \in Process \ {w} : ~WorksOn(v, o)
  BY WorkerHolds
<1>2. file[o].status = "scan_processing"
  BY <1>1 DEF Has
<1>3. \A v \in Process \ {w} : Left(v, o)
  BY <1>1, <1>2 DEF Left, Passes, Settling
<1> QED
  BY <1>2, <1>3, RowHeld

\* When the only call at work on a file is done with it.
LEMMA OthersLeft ==
  ASSUME CountsInv, HeldInv, NEW w \in Process, NEW o \in Object, WorksOn(w, o),
         \A v \in Process \ {w} : worker'[v] = worker[v],
         file'[o].token = None, CallAt(worker'[w]), Claims(w, worker'[w], file')
  PROVE  \A v \in Process : Left(v, o) \/ (CallAt(worker'[v]) /\ Claims(v, worker'[v], file'))
<1>1. file[o].status \notin Settling /\ \A v \in Process \ {w} : ~WorksOn(v, o)
  BY WorkerHolds DEF Has, Settling
<1>2. \A v \in Process \ {w} : Left(v, o)
  BY <1>1 DEF Left, Passes
<1> QED
  BY <1>2

\* A call whose commit was applied and whose answer was lost.
LEMMA LostHeld ==
  ASSUME NEW w \in Process, NEW r, NEW rows, rows[r.o].token = None,
         \/ r.step = "release"
         \/ r.step = "unreserve" /\ Dedup /\ r.wrote = None
         \/ r.step = "check" /\ r.wrote = QuarantineKey(r.o) /\ rows[r.o].status \in Settling
  PROVE  CallAt(r) /\ Claims(w, r, rows)
<1>1. r.step \notin Finalizing
  BY DEF Finalizing
<1>2. CallAt(r)
  BY DEF CallAt, OwnKeys
<1>3. Lost(w, r, rows[r.o])
  BY NoneElsewhere DEF Lost
<1> QED
  BY <1>1, <1>2, <1>3 DEF Claims

LEMMA CommitScanFailureNow ==
  ASSUME CountsInv, HeldInv, NEW w \in Process, NEW o, o = worker[w].o, CommitScanFailure(w)
  PROVE  /\ worker[w].step = "unscanned" /\ o \in Object /\ WorksOn(w, o)
         /\ job'[o] = FailureRecorded(job[o])
         /\ file'[o].status = StatusOf(FailureRecorded(job[o])) /\ file'[o].key = file[o].key
         /\ file'[o].token = None
         /\ \A p \in Object \ {o} : file'[p] = file[p] /\ job'[p] = job[p]
         /\ \/ worker'[w].step \in {"idle", "jobfail"}
            \/ worker'[w].step = "release" /\ worker'[w].o = o
         /\ worker'[w].todo \subseteq worker[w].todo
         /\ \A v \in Process \ {w} : worker'[v] = worker[v]
         /\ UNCHANGED <<blobVars, slipped>>
<1> DEFINE r == worker[w]
           j == FailureRecorded(job[o])
           row == [file[o] EXCEPT !.status = StatusOf(j), !.token = None, !.sha = r.content]
<1>1. r.step = "unscanned" /\ r.step \in Undoes
  BY DEF CommitScanFailure, Undoes, Finalizing
<1>2. o \in Object /\ Owns(w) /\ WorksOn(w, o) /\ r.wrote = None
  BY <1>1, FileThere, HeldCall DEF Finalizing, CallAt
<1>3. file[o] \in File
  BY <1>2, RowIs
<1>4. row.status = StatusOf(j) /\ row.key = file[o].key /\ row.token = None
  BY <1>3 DEF File
<1>5. /\ Rows(o, row) /\ Jobs(o, j) /\ UNCHANGED <<blobVars, slipped>>
      /\ Goes(w, "jobfail") \/ Ends(w) \/ Goes(w, "release")
  BY <1>1, <1>2 DEF CommitScanFailure, Unanswered, UndoStep
<1> HIDE DEF row, j
<1>6. /\ \/ worker'[w].step \in {"idle", "jobfail"}
         \/ worker'[w].step = "release" /\ worker'[w].o = o
      /\ worker'[w].todo \subseteq r.todo
      /\ \A v \in Process \ {w} : worker'[v] = worker[v]
  BY <1>5, GoesNow, EndsNow DEF Alike
<1>7. file'[o] = row /\ job'[o] = j
      /\ \A p \in Object \ {o} : file'[p] = file[p] /\ job'[p] = job[p]
  BY <1>2, <1>5, RowNow, JobNow
<1> QED
  BY <1>1, <1>2, <1>4, <1>5, <1>6, <1>7 DEF j

LEMMA CommitScanFailureHeld ==
  ASSUME CountsInv, HeldInv, NEW w \in Process, CommitScanFailure(w) PROVE HeldInv'
<1> DEFINE o == worker[w].o
<1>1. /\ o \in Object /\ WorksOn(w, o)
      /\ job'[o] = FailureRecorded(job[o])
      /\ file'[o].status = StatusOf(job'[o]) /\ file'[o].key = file[o].key
      /\ file'[o].token = None
      /\ \A p \in Object \ {o} : file'[p] = file[p] /\ job'[p] = job[p]
      /\ \/ worker'[w].step \in {"idle", "jobfail"}
         \/ worker'[w].step = "release" /\ worker'[w].o = o
      /\ \A v \in Process \ {w} : worker'[v] = worker[v]
      /\ UNCHANGED version
  BY CommitScanFailureNow DEF blobVars
<1>2. JobAt(file'[o], job'[o])
  BY <1>1 DEF JobAt, StatusOf, Unscanned
<1>3. CallAt(worker'[w]) /\ Claims(w, worker'[w], file')
  BY <1>1, FreeSteps, FreeCall, LostHeld
<1> QED
  BY <1>1, <1>2, <1>3, EndHeld

LEMMA ReleaseNow ==
  ASSUME CountsInv, HeldInv, NEW w \in Process, NEW o, o = worker[w].o, Release(w)
  PROVE  /\ worker[w].step = "release" /\ o \in Object
         /\ \/ UNCHANGED file
            \/ /\ WorksOn(w, o)
               /\ file'[o].status = worker[w].previous /\ file'[o].key = file[o].key
               /\ file'[o].previous = file[o].previous /\ file'[o].token = None
               /\ \A p \in Object \ {o} : file'[p] = file[p]
         /\ worker'[w].step \in {"idle", "jobfail"}
         /\ worker'[w].todo \subseteq worker[w].todo
         /\ \A v \in Process \ {w} : worker'[v] = worker[v]
         /\ UNCHANGED <<blobVars, job, slipped>>
<1> DEFINE r == worker[w]
           row == [file[o] EXCEPT !.status = r.previous, !.token = None]
<1>1. r.step = "release" /\ r.step \in Undoes
  BY DEF Release, Undoes, Undoing
<1>2. o \in Object /\ (Exists(o) /\ file[o].token = w => WorksOn(w, o))
  BY <1>1, HeldCall DEF WorksOn
<1>3. file[o] \in File
  BY <1>2, RowIs
<1>4. /\ row.status = r.previous /\ row.key = file[o].key /\ row.previous = file[o].previous
      /\ row.token = None
  BY <1>3 DEF File
<1>5. /\ IF Exists(o) /\ file[o].token = w THEN Rows(o, row) ELSE UNCHANGED file
      /\ Goes(w, "jobfail") \/ Ends(w)
      /\ UNCHANGED <<blobVars, job, slipped>>
  BY DEF Release
<1> HIDE DEF row
<1>6. /\ worker'[w].step \in {"idle", "jobfail"} /\ worker'[w].todo \subseteq r.todo
      /\ \A v \in Process \ {w} : worker'[v] = worker[v]
  BY <1>5, GoesNow, EndsNow DEF Alike
<1>7. Rows(o, row) => file'[o] = row /\ \A p \in Object \ {o} : file'[p] = file[p]
  BY <1>2, RowNow
<1> QED
  BY <1>1, <1>2, <1>4, <1>5, <1>6, <1>7

LEMMA ReleaseHeld == ASSUME CountsInv, HeldInv, NEW w \in Process, Release(w) PROVE HeldInv'
<1> DEFINE r == worker[w]
           o == r.o
<1>1. /\ o \in Object
      /\ worker'[w].step \in {"idle", "jobfail"}
      /\ \A v \in Process \ {w} : worker'[v] = worker[v]
      /\ UNCHANGED <<version, job>>
  BY ReleaseNow DEF blobVars
<1>2. CallAt(worker'[w]) /\ Claims(w, worker'[w], file')
  BY <1>1, FreeSteps, FreeCall
<1>3. CASE UNCHANGED file
  BY <1>1, <1>3, FreeSteps, FreeHeld
<1>4. CASE file' # file
  <2>1. /\ WorksOn(w, o)
        /\ file'[o].status = r.previous /\ file'[o].key = file[o].key
        /\ file'[o].previous = file[o].previous /\ file'[o].token = None
        /\ \A p \in Object \ {o} : file'[p] = file[p]
    BY <1>4, ReleaseNow
  <2>2. file[o].status = "scan_processing" /\ file[o].previous = r.previous
    BY <1>1, <2>1, WorkerHolds DEF Has
  <2>3. JobAt(file[o], job[o])
    BY <1>1, HeldFile
  <2>4. r.previous # "scan_processing"
    BY <1>1, <2>2, HeldFile DEF GoodRow, Returns
  <2>5. JobAt(file'[o], job'[o])
    BY <1>1, <2>1, <2>2, <2>3, <2>4 DEF JobAt
  <2> QED
    BY <1>1, <1>2, <2>1, <2>5, EndHeld
<1> QED
  BY <1>3, <1>4

LEMMA ClaimJobNow ==
  ASSUME CountsInv, NEW w \in Process, NEW o \in Object, ClaimJob(w, o)
  PROVE  /\ job[o].status \in {"pending", "processing"} /\ job'[o].status = "processing"
         /\ \A p \in Object \ {o} : job'[p] = job[p]
         /\ worker'[w].step = "job" /\ worker'[w].todo = {}
         /\ \A v \in Process \ {w} : worker'[v] = worker[v]
         /\ UNCHANGED <<blobVars, file>>
<1> DEFINE j == [job[o] EXCEPT !.status = "processing"]
           next == [Idle EXCEPT !.step = "job", !.o = o]
<1>1. job[o] \in Job
  BY RowIs
<1>2. j.status = "processing"
  BY <1>1 DEF Job
<1>3. next.step = "job" /\ next.todo = {}
  BY DEF Idle
<1>4. Jobs(o, j) /\ Does(w, next)
  BY DEF ClaimJob
<1> HIDE DEF j, next
<1>5. job'[o] = j /\ \A p \in Object \ {o} : job'[p] = job[p]
  BY <1>4, JobNow
<1>6. worker'[w] = next /\ \A v \in Process \ {w} : worker'[v] = worker[v]
  BY <1>4, CallNow
<1> QED
  BY <1>2, <1>3, <1>5, <1>6 DEF ClaimJob

LEMMA ClaimJobHeld ==
  ASSUME CountsInv, HeldInv, NEW w \in Process, NEW o \in Object, ClaimJob(w, o) PROVE HeldInv'
<1>1. /\ job[o].status \in {"pending", "processing"} /\ job'[o].status = "processing"
      /\ \A p \in Object \ {o} : job'[p] = job[p]
      /\ worker'[w].step = "job"
      /\ \A v \in Process \ {w} : worker'[v] = worker[v]
      /\ UNCHANGED <<version, file>>
  BY ClaimJobNow DEF blobVars
<1>2. JobAt(file'[o], job'[o])
  BY <1>1, HeldFile DEF JobAt
<1>3. CallAt(worker'[w]) /\ Claims(w, worker'[w], file')
  BY <1>1, FreeSteps, FreeCall
<1>4. \A v \in Process \ {w} : Left(v, o)
  BY <1>1 DEF Left
<1> QED
  BY <1>1, <1>2, <1>3, <1>4, RowHeld

LEMMA FinalizeJobHeld ==
  ASSUME CountsInv, HeldInv, slipped' = {}, NEW w \in Process, FinalizeJob(w) PROVE HeldInv'
<1>1. worker[w].o \in Object
  BY HeldCall DEF FinalizeJob
<1>2. CASE Claim(w, worker[w].o, TRUE, None)
  BY <1>1, <1>2, ClaimHeld
<1>3. CASE Goes(w, "jobfail") /\ UNCHANGED <<blobVars, file, job>>
  BY <1>3, GoesNow, FreeSteps, FreeHeld DEF blobVars
<1> QED
  BY <1>2, <1>3 DEF FinalizeJob

\* A step that gives a file whose job it changes another status.
Rejobbed(o) ==
  /\ job[o].status # "none" /\ job'[o].status # "none"
  /\ file'[o].status = StatusOf(job'[o]) /\ file'[o].key = file[o].key
  /\ file'[o].token = file[o].token
  /\ \A p \in Object \ {o} : file'[p] = file[p] /\ job'[p] = job[p]
  /\ \A v \in Process : ~WorksOn(v, o)

LEMMA JobFailsNow ==
  ASSUME CountsInv, HeldInv, slipped' = {}, NEW w \in Process, NEW o, o = worker[w].o, JobFails(w)
  PROVE  /\ o \in Object /\ (Rejobbed(o) \/ UNCHANGED <<file, job>>)
         /\ worker'[w].step = "idle" /\ worker'[w].todo = {}
         /\ \A v \in Process \ {w} : worker'[v] = worker[v]
         /\ UNCHANGED blobVars
<1> DEFINE j == Failed(job[o])
           row == [file[o] EXCEPT !.status = StatusOf(j)]
<1>1. o \in Object
  BY HeldCall DEF JobFails
<1>2. /\ worker'[w].step = "idle" /\ worker'[w].todo = {}
      /\ \A v \in Process \ {w} : worker'[v] = worker[v]
  BY EndsNow DEF JobFails
<1>3. CASE job[o].status = "processing"
  <2>1. Jobs(o, j) /\ Rows(o, row) /\ ~(file[o].status = "scan_processing" /\ Held(o))
    BY <1>3 DEF JobFails, Unless, Slip
  <2>2. file[o] \in File
    BY <1>1, RowIs
  <2>3. row.status = StatusOf(j) /\ row.key = file[o].key /\ row.token = file[o].token
    BY <2>2 DEF File
  <2>4. j.status # "none"
    BY DEF Failed
  <2> HIDE DEF row, j
  <2>5. file'[o] = row /\ job'[o] = j
        /\ \A p \in Object \ {o} : file'[p] = file[p] /\ job'[p] = job[p]
    BY <1>1, <2>1, RowNow, JobNow
  <2>6. Rejobbed(o)
    BY <1>1, <1>3, <2>1, <2>3, <2>4, <2>5, NobodyWorks DEF Rejobbed
  <2> QED
    BY <1>1, <1>2, <2>6 DEF JobFails
<1>4. CASE job[o].status # "processing"
  BY <1>1, <1>2, <1>4 DEF JobFails
<1> QED
  BY <1>3, <1>4

LEMMA RejobbedHeld ==
  ASSUME CountsInv, HeldInv, UNCHANGED version, NEW o \in Object, Rejobbed(o),
         \A v \in Process : \/ worker'[v] = worker[v]
                            \/ worker'[v].step \notin Undoes \cup {"erase", "complete"}
  PROVE  HeldInv'
<1>1. JobAt(file'[o], job'[o])
  BY DEF Rejobbed, JobAt, StatusOf, Unscanned
<1>2. file[o].status \notin {"infected", "gone"}
  BY SettledNow, CountsParts, HeldFile DEF Rejobbed, GoodRow
<1>3. ASSUME NEW v \in Process
      PROVE  Left(v, o) \/ (CallAt(worker'[v]) /\ Claims(v, worker'[v], file'))
  <2>1. CASE worker'[v] = worker[v]
    BY <1>2, <1>3, <2>1 DEF Left, Rejobbed, Passes, Settling
  <2>2. CASE worker'[v].step \notin Undoes \cup {"erase", "complete"}
    BY <2>2, FreeCall
  <2> QED
    BY <2>1, <2>2
<1> QED
  BY <1>1, <1>2, <1>3, RowHeld DEF Rejobbed

LEMMA JobFailsHeld ==
  ASSUME CountsInv, HeldInv, slipped' = {}, NEW w \in Process, JobFails(w) PROVE HeldInv'
<1> DEFINE o == worker[w].o
<1>1. /\ o \in Object /\ (Rejobbed(o) \/ UNCHANGED <<file, job>>)
      /\ worker'[w].step = "idle"
      /\ \A v \in Process \ {w} : worker'[v] = worker[v]
      /\ UNCHANGED version
  BY JobFailsNow DEF blobVars
<1> QED
  BY <1>1, FreeSteps, FreeHeld, RejobbedHeld

LEMMA OverrideNow ==
  ASSUME CountsInv, HeldInv, NEW o \in Object, Override(o)
  PROVE  Rejobbed(o) /\ UNCHANGED <<blobVars, worker, slipped, faults>>
<1> DEFINE j == [status |-> "pending", tries |-> 0]
           row == [file[o] EXCEPT !.status = "scan_pending"]
<1>1. job[o].status = "dead" /\ file[o] \in File
  BY RowIs DEF Override
<1>2. file[o].status = "scan_dead_letter"
  BY <1>1, HeldFile DEF JobAt
<1>3. j.status # "none" /\ StatusOf(j) = "scan_pending"
  BY DEF StatusOf
<1>4. row.status = "scan_pending" /\ row.key = file[o].key /\ row.token = file[o].token
  BY <1>1 DEF File
<1>5. Jobs(o, j) /\ Rows(o, row)
  BY DEF Override
<1> HIDE DEF row, j
<1>6. file'[o] = row /\ job'[o] = j
      /\ \A p \in Object \ {o} : file'[p] = file[p] /\ job'[p] = job[p]
  BY <1>5, RowNow, JobNow
<1>7. \A v \in Process : ~WorksOn(v, o)
  BY <1>2, NobodyWorks
<1> QED
  BY <1>1, <1>3, <1>4, <1>6, <1>7 DEF Rejobbed, Override

LEMMA OverrideHeld == ASSUME CountsInv, HeldInv, NEW o \in Object, Override(o) PROVE HeldInv'
BY OverrideNow, RejobbedHeld DEF blobVars

LEMMA ExpireUploadNow ==
  ASSUME CountsInv, HeldInv, slipped' = {}, NEW w \in Process, NEW o \in Object, ExpireUpload(w, o)
  PROVE  /\ file[o].status \in Unscanned
              \/ (file[o].status = "scan_processing" /\ file[o].previous = "pending_upload")
         /\ \A v \in Process : ~WorksOn(v, o)
         /\ file'[o].status = "upload_expiring" /\ file'[o].key = file[o].key
         /\ file'[o].token = file[o].token
         /\ \A p \in Object \ {o} : file'[p] = file[p]
         /\ worker'[w].step = "expire" /\ worker'[w].o = o /\ worker'[w].todo = {}
         /\ worker'[w].reserved = file[o].key
         /\ \A v \in Process \ {w} : worker'[v] = worker[v]
         /\ UNCHANGED <<blobVars, job>>
<1> DEFINE row == [file[o] EXCEPT !.status = "upload_expiring"]
           next == [Idle EXCEPT !.step = "expire", !.o = o, !.reserved = file[o].key]
<1>1. file[o] \in File
  BY RowIs
<1>2. row.status = "upload_expiring" /\ row.key = file[o].key /\ row.token = file[o].token
  BY <1>1 DEF File
<1>3. next.step = "expire" /\ next.o = o /\ next.todo = {} /\ next.reserved = file[o].key
  BY DEF Idle
<1>4. Rows(o, row) /\ Does(w, next) /\ ~(file[o].status = "scan_processing" /\ Held(o))
  BY DEF ExpireUpload, Unless, Slip
<1> HIDE DEF row, next
<1>5. file'[o] = row /\ \A p \in Object \ {o} : file'[p] = file[p]
  BY <1>4, RowNow
<1>6. worker'[w] = next /\ \A v \in Process \ {w} : worker'[v] = worker[v]
  BY <1>4, CallNow
<1>7. \A v \in Process : ~WorksOn(v, o)
  BY <1>4, NobodyWorks
<1>8. file[o].status \in Unscanned
        \/ (file[o].status = "scan_processing" /\ file[o].previous = "pending_upload")
  <2>1. Expirable(o)
    BY DEF ExpireUpload
  <2> QED
    BY <2>1 DEF Expirable, Unscanned
<1>9. UNCHANGED <<blobVars, job>>
  BY DEF ExpireUpload
<1> QED
  BY <1>2, <1>3, <1>5, <1>6, <1>7, <1>8, <1>9

LEMMA ExpireUploadHeld ==
  ASSUME CountsInv, HeldInv, slipped' = {}, NEW w \in Process, NEW o \in Object, ExpireUpload(w, o)
  PROVE  HeldInv'
<1>1. /\ file[o].status \in Unscanned
           \/ (file[o].status = "scan_processing" /\ file[o].previous = "pending_upload")
      /\ \A v \in Process : ~WorksOn(v, o)
      /\ file'[o].status = "upload_expiring" /\ file'[o].key = file[o].key
      /\ file'[o].token = file[o].token
      /\ \A p \in Object \ {o} : file'[p] = file[p]
      /\ worker'[w].step = "expire"
      /\ \A v \in Process \ {w} : worker'[v] = worker[v]
      /\ UNCHANGED <<version, job>>
  BY ExpireUploadNow DEF blobVars
<1>2. job[o].status = "none"
  BY <1>1, HeldFile DEF JobAt, Unscanned
<1>3. JobAt(file'[o], job'[o])
  BY <1>1, <1>2 DEF JobAt
<1>4. file[o].status \notin {"infected", "gone"}
  BY <1>1 DEF Unscanned
<1>5. CallAt(worker'[w]) /\ Claims(w, worker'[w], file')
  BY <1>1, FreeSteps, FreeCall
<1>6. \A v \in Process \ {w} : Left(v, o)
  BY <1>1, <1>4 DEF Left, Passes, Settling
<1> QED
  BY <1>1, <1>3, <1>4, <1>5, <1>6, RowHeld

LEMMA RowGoneNow ==
  ASSUME CountsInv, NEW o \in Object, RowGone(o)
  PROVE  /\ file'[o].status = "gone" /\ file'[o].key = file[o].key /\ job'[o] = NoJob
         /\ file'[o].token = None
         /\ \A p \in Object \ {o} : file'[p] = file[p] /\ job'[p] = job[p]
         /\ reservation' = [reservation EXCEPT ![o] = NoReservation]
<1> DEFINE row == [file[o] EXCEPT !.status = "gone", !.token = None]
<1>1. file[o] \in File
  BY RowIs
<1>2. row.status = "gone" /\ row.key = file[o].key /\ row.token = None
  BY <1>1 DEF File
<1>3. Rows(o, row) /\ Jobs(o, NoJob)
  BY DEF RowGone
<1> HIDE DEF row
<1> QED
  BY <1>2, <1>3, RowNow, JobNow DEF RowGone

LEMMA ForgetNow ==
  ASSUME CountsInv, HeldInv, NEW w \in Process, NEW o, o = worker[w].o, Forget(w)
  PROVE  /\ o \in Object
         /\ \/ UNCHANGED <<file, reservation, job>>
            \/ /\ file[o].status = "upload_expiring" /\ RowGone(o)
               /\ \A v \in Process : ~WorksOn(v, o)
         /\ worker'[w].step = "idle" /\ worker'[w].todo = {}
         /\ \A v \in Process \ {w} : worker'[v] = worker[v]
         /\ UNCHANGED <<version, blob, deletion, bytes, slipped>>
<1>1. o \in Object
  BY HeldCall DEF Forget, Expiring
<1>2. file[o].status = "upload_expiring" => \A v \in Process : ~WorksOn(v, o)
  BY <1>1, NobodyWorks
<1> QED
  BY <1>1, <1>2, EndsNow DEF Forget

LEMMA ForgetHeld == ASSUME CountsInv, HeldInv, NEW w \in Process, Forget(w) PROVE HeldInv'
<1> DEFINE o == worker[w].o
<1>1. /\ o \in Object
      /\ worker'[w].step = "idle"
      /\ \A v \in Process \ {w} : worker'[v] = worker[v]
      /\ UNCHANGED version
  BY ForgetNow
<1>2. CASE UNCHANGED <<file, reservation, job>>
  BY <1>1, <1>2, FreeSteps, FreeHeld
<1>3. CASE RowGone(o) /\ \A v \in Process : ~WorksOn(v, o)
  <2>1. /\ file'[o].status = "gone" /\ file'[o].key = file[o].key /\ job'[o] = NoJob
        /\ file'[o].token = None
        /\ \A p \in Object \ {o} : file'[p] = file[p] /\ job'[p] = job[p]
    BY <1>1, <1>3, RowGoneNow
  <2>2. JobAt(file'[o], job'[o])
    BY <2>1 DEF JobAt, NoJob
  <2>3. CallAt(worker'[w]) /\ Claims(w, worker'[w], file')
    BY <1>1, FreeSteps, FreeCall
  <2>4. \A v \in Process \ {w} : Left(v, o)
    BY <1>1, <1>3, <2>1 DEF Left, Passes, Settling
  <2> QED
    BY <1>1, <2>1, <2>2, <2>3, <2>4, RowHeld
<1> QED
  BY <1>2, <1>3, ForgetNow

-----------------------------------------------------------------------------
(* Verdicts, purges and reverts.                                           *)

Condemned(r) == {k \in {r.wrote} : k # None} \cup {k \in {r.reserved} : r.inline = None}

LEMMA CommitInfectedNow ==
  ASSUME CountsInv, HeldInv, NEW w \in Process, NEW o, o = worker[w].o, CommitInfected(w)
  PROVE  /\ worker[w].step = "quarantine" /\ o \in Object /\ WorksOn(w, o)
         /\ file'[o].status = "infected" /\ job'[o] = NoJob
         /\ file'[o].key = IF worker[w].wrote = None THEN file[o].key ELSE worker[w].wrote
         /\ file'[o].token = None
         /\ \A p \in Object \ {o} : file'[p] = file[p] /\ job'[p] = job[p]
         /\ \/ worker'[w].step \in {"idle", "look"} /\ worker'[w].todo = Condemned(worker[w])
            \/ /\ worker'[w].step = IF worker[w].wrote = None THEN "release" ELSE "check"
               /\ Alike(worker'[w], worker[w])
         /\ deletion' = Queued(Condemned(worker[w]))
         /\ \A v \in Process \ {w} : worker'[v] = worker[v]
         /\ UNCHANGED <<version, blob, reservation, bytes, slipped>>
<1> DEFINE r == worker[w]
           doomed == Condemned(r)
           row == [file[o] EXCEPT !.status = "infected", !.token = None, !.sha = r.content,
                         !.key = IF r.wrote = None THEN file[o].key ELSE r.wrote]
           undo == IF r.wrote = None THEN "release" ELSE "check"
<1>1. r.step = "quarantine" /\ r.step \in Undoes
  BY DEF CommitInfected, Undoes, Finalizing
<1>2. o \in Object /\ Owns(w) /\ WorksOn(w, o)
  BY <1>1, FileThere DEF Finalizing
<1>3. file[o] \in File
  BY <1>2, RowIs
<1>4. /\ row.status = "infected" /\ row.key = IF r.wrote = None THEN file[o].key ELSE r.wrote
      /\ row.token = None
  BY <1>3 DEF File
<1>5. /\ Rows(o, row) /\ Jobs(o, NoJob) /\ deletion' = Queued(doomed)
      /\ Tends(w, doomed) \/ Goes(w, undo)
      /\ UNCHANGED <<version, blob, reservation, bytes, slipped>>
  BY <1>1, <1>2 DEF CommitInfected, Unanswered, UndoStep, Condemned
<1> HIDE DEF row, doomed, undo
<1>6. /\ \/ worker'[w].step \in {"idle", "look"} /\ worker'[w].todo = doomed
         \/ worker'[w].step = undo /\ Alike(worker'[w], r)
      /\ \A v \in Process \ {w} : worker'[v] = worker[v]
  BY <1>5, TendsNow, GoesNow
<1>7. file'[o] = row /\ job'[o] = NoJob
      /\ \A p \in Object \ {o} : file'[p] = file[p] /\ job'[p] = job[p]
  BY <1>2, <1>5, RowNow, JobNow
<1> QED
  BY <1>1, <1>2, <1>4, <1>5, <1>6, <1>7 DEF doomed, undo

LEMMA CommitInfectedHeld ==
  ASSUME CountsInv, HeldInv, NEW w \in Process, NEW o, o = worker[w].o, CommitInfected(w)
  PROVE  HeldInv'
<1> DEFINE r == worker[w]
<1>1. /\ r.step = "quarantine" /\ o \in Object /\ WorksOn(w, o)
      /\ file'[o].status = "infected" /\ job'[o] = NoJob
      /\ file'[o].key = IF r.wrote = None THEN file[o].key ELSE r.wrote
      /\ file'[o].token = None
      /\ \A p \in Object \ {o} : file'[p] = file[p] /\ job'[p] = job[p]
      /\ \/ worker'[w].step \in {"idle", "look"}
         \/ /\ worker'[w].step = IF r.wrote = None THEN "release" ELSE "check"
            /\ Alike(worker'[w], r)
      /\ \A v \in Process \ {w} : worker'[v] = worker[v]
      /\ UNCHANGED version
  BY CommitInfectedNow
<1>2. r.wrote \in {None, QuarantineKey(o)}
  BY <1>1, HeldCall DEF CallAt
<1>3. RowAt(o, VersionsOf(o), file[o]) /\ \A v \in VersionsOf(o) : VersionAt(v)
  BY <1>1, HeldFile
<1>4. RowAt(o, VersionsOf(o), file'[o])
  BY <1>1, <1>2, <1>3 DEF RowAt, OwnKeys
<1>5. \A p \in Object : VersionsOf(p)' = VersionsOf(p)
  BY <1>1 DEF VersionsOf
<1>6. JobAt(file'[o], job'[o])
  BY <1>1 DEF JobAt, NoJob
<1>7. FileAt(o, VersionsOf(o)', file'[o], job'[o])
  BY <1>1, <1>3, <1>4, <1>5, <1>6 DEF FileAt
<1>8. CallAt(worker'[w]) /\ Claims(w, worker'[w], file')
  <2>1. CASE worker'[w].step \in {"idle", "look"}
    BY <2>1, FreeSteps, FreeCall
  <2>2. CASE worker'[w].step \notin {"idle", "look"}
    <3>1. worker'[w].step \in {"release", "check"} /\ worker'[w].o = o
          /\ (worker'[w].step = "check" => worker'[w].wrote = QuarantineKey(o))
      BY <1>1, <1>2, <2>2 DEF Alike
    <3>2. file'[o].status \in Settling
      BY <1>1 DEF Settling
    <3> QED
      BY <1>1, <3>1, <3>2, LostHeld
  <2> QED
    BY <2>1, <2>2
<1>9. \A v \in Process : Left(v, o) \/ (CallAt(worker'[v]) /\ Claims(v, worker'[v], file'))
  BY <1>1, <1>8, OthersLeft
<1>10. \A p \in Object \ {o} : /\ VersionsOf(p)' = VersionsOf(p)
                               /\ file'[p] = file[p]
                               /\ job'[p] = job[p]
  BY <1>1, <1>5
<1> QED
  BY <1>1, <1>7, <1>9, <1>10, HeldStep

LEMMA CommitCleanNow ==
  ASSUME CountsInv, HeldInv, slipped' = {}, NEW w \in Process, NEW o, o = worker[w].o, CommitClean(w)
  PROVE  /\ worker[w].step = "commit" /\ o \in Object /\ WorksOn(w, o)
         /\ file'[o].status = "ready" /\ job'[o] = NoJob /\ file'[o].key = worker[w].key
         /\ file'[o].token = None
         /\ \A p \in Object \ {o} : file'[p] = file[p] /\ job'[p] = job[p]
         /\ version' = version \cup {[object |-> o, number |-> worker[w].number,
                                      key |-> worker[w].key, content |-> worker[w].content]}
         /\ \/ worker'[w].step \in {"idle", "look"} /\ worker'[w].todo = Staged(worker[w])
            \/ /\ worker'[w].step = IF Dedup THEN "unreserve" ELSE "release"
               /\ Alike(worker'[w], worker[w]) /\ worker[w].wrote = None
         /\ deletion' = Queued(Staged(worker[w]))
         /\ \A v \in Process \ {w} : worker'[v] = worker[v]
         /\ IF Dedup THEN Adds(worker[w].content, worker[w].key, {}) ELSE UNCHANGED <<blob, slipped>>
         /\ reservation' = Unreserved(o, w)
         /\ UNCHANGED bytes
<1> DEFINE r == worker[w]
           doomed == Staged(r)
           row == [file[o] EXCEPT !.status = "ready", !.token = None, !.key = r.key,
                                  !.sha = r.content]
<1>1. r.step = "commit" /\ r.step \in Undoes
  BY DEF CommitClean, Undoes, Finalizing
<1>2. o \in Object /\ Owns(w) /\ WorksOn(w, o)
  BY <1>1, FileThere DEF Finalizing
<1>3. file[o] \in File
  BY <1>2, RowIs
<1>4. row.status = "ready" /\ row.key = r.key /\ row.token = None
  BY <1>3 DEF File
<1>5. PICK lost \in BOOLEAN :
        /\ IF Dedup THEN Adds(r.content, r.key, CommitSlips(r, lost))
                    ELSE Slipped(CommitSlips(r, lost)) /\ UNCHANGED blob
        /\ IF lost THEN Goes(w, UndoStep(w)) ELSE Tends(w, doomed)
        /\ Rows(o, row) /\ Jobs(o, NoJob) /\ deletion' = Queued(doomed)
        /\ version' = version \cup {[object |-> o, number |-> r.number,
                                     key |-> r.key, content |-> r.content]}
        /\ reservation' = Unreserved(o, w)
        /\ UNCHANGED bytes
  BY <1>2 DEF CommitClean, Unanswered
<1> HIDE DEF row, doomed
<1>6. CommitSlips(r, lost) = {}
  <2>1. CommitSlips(r, lost) \subseteq slipped'
    BY <1>5 DEF Adds, Slipped
  <2> QED
    BY <2>1
<1>7. lost => r.wrote = None
  BY <1>6 DEF CommitSlips
<1>8. /\ \/ worker'[w].step \in {"idle", "look"} /\ worker'[w].todo = doomed
         \/ /\ worker'[w].step = IF Dedup THEN "unreserve" ELSE "release"
            /\ Alike(worker'[w], r) /\ r.wrote = None
      /\ \A v \in Process \ {w} : worker'[v] = worker[v]
  <2>1. CASE lost
    <3>1. UndoStep(w) = IF Dedup THEN "unreserve" ELSE "release"
      BY <1>1, <1>7, <2>1 DEF UndoStep
    <3> QED
      BY <1>5, <1>7, <2>1, <3>1, GoesNow
  <2>2. CASE ~lost
    BY <1>5, <2>2, TendsNow
  <2> QED
    BY <2>1, <2>2
<1>9. IF Dedup THEN Adds(r.content, r.key, {}) ELSE UNCHANGED <<blob, slipped>>
  BY <1>5, <1>6 DEF Slipped
<1>10. file'[o] = row /\ job'[o] = NoJob
       /\ \A p \in Object \ {o} : file'[p] = file[p] /\ job'[p] = job[p]
  BY <1>2, <1>5, RowNow, JobNow
<1> QED
  BY <1>1, <1>2, <1>4, <1>5, <1>8, <1>9, <1>10 DEF doomed

\* A version more of one file, and the row that shows it.
LEMMA VersionHeld ==
  ASSUME CountsInv, HeldInv, NEW o \in Object, NEW v, v.object = o, VersionAt(v),
         v.number \in 1..MaxVersions, version' = version \cup {v},
         file'[o].status = "ready", file'[o].key = v.key,
         job'[o].status = "none" \/ (job'[o] = job[o] /\ file[o].status = "ready"),
         \A p \in Object \ {o} : file'[p] = file[p] /\ job'[p] = job[p],
         \A u \in Process : \/ Left(u, o)
                            \/ CallAt(worker'[u]) /\ Claims(u, worker'[u], file')
  PROVE  HeldInv'
<1>1. VersionsOf(o)' = VersionsOf(o) \cup {v} /\ \A p \in Object \ {o} : VersionsOf(p)' = VersionsOf(p)
  BY DEF VersionsOf
<1>2. ~Dedup => v.key \in OwnKeys(o)
  <2>1. SUFFICES ASSUME ~Dedup PROVE v.key \in OwnKeys(o)
    OBVIOUS
  <2>2. PICK n \in 1..v.number : v.key = OwnKey(o, n)
    BY <2>1 DEF VersionAt
  <2>3. n \in 1..MaxVersions
    BY <2>2, DriveBlobsAssumption
  <2> QED
    BY <2>2, <2>3 DEF OwnKeys
<1>3. RowAt(o, VersionsOf(o)', file'[o])
  BY <1>1, <1>2 DEF RowAt
<1>4. JobAt(file'[o], job'[o])
  BY HeldFile DEF JobAt, Unscanned
<1>5. FileAt(o, VersionsOf(o)', file'[o], job'[o])
  BY <1>1, <1>3, <1>4, HeldFile DEF FileAt
<1> QED
  BY <1>1, <1>5, HeldStep

LEMMA CommitCleanHeld ==
  ASSUME CountsInv, HeldInv, slipped' = {}, NEW w \in Process, NEW o, o = worker[w].o, CommitClean(w)
  PROVE  HeldInv'
<1> DEFINE r == worker[w]
           v == [object |-> o, number |-> r.number, key |-> r.key, content |-> r.content]
<1>1. /\ r.step = "commit" /\ o \in Object /\ WorksOn(w, o)
      /\ file'[o].status = "ready" /\ job'[o] = NoJob /\ file'[o].key = r.key
      /\ file'[o].token = None
      /\ \A p \in Object \ {o} : file'[p] = file[p] /\ job'[p] = job[p]
      /\ version' = version \cup {v}
      /\ \/ worker'[w].step \in {"idle", "look"}
         \/ /\ worker'[w].step = IF Dedup THEN "unreserve" ELSE "release"
            /\ worker'[w].o = o /\ worker'[w].wrote = None
      /\ \A u \in Process \ {w} : worker'[u] = worker[u]
  BY CommitCleanNow DEF Alike
<1>2. /\ r.number = NextNumber(o) /\ r.number \in 1..MaxVersions
      /\ Returns(VersionsOf(o), file[o], r.previous)
  BY <1>1, WorkerKnows DEF Finalizing
<1>3. CallFits(r) /\ CallAt(r) /\ Has(w, r, file[o])
      /\ \A u \in Process \ {w} : ~WorksOn(u, o)
  BY <1>1, HeldCall, WorkerHolds
<1>4. VersionAt(v)
  <2>1. CASE Dedup
    BY <1>1, <1>3, <2>1 DEF VersionAt, CallFits
  <2>2. CASE ~Dedup
    <3>1. CASE r.key = OwnKey(o, r.number)
      BY <1>2, <2>2, <3>1 DEF VersionAt
    <3>2. CASE r.key = file[o].key
      <4>1. CASE r.key = OwnKey(o, 1)
        <5>1. 1 \in 1..r.number
          BY <1>2
        <5> QED
          BY <2>2, <4>1, <5>1 DEF VersionAt
      <4>2. CASE r.key # OwnKey(o, 1)
        <5>1. PICK u \in VersionsOf(o) : u.key = r.key
          BY <1>1, <1>3, <3>2, <4>2, HeldFile DEF RowAt, Has
        <5>2. VersionAt(u) /\ u.object = o /\ u.number <= Cardinality(VersionsOf(o)) /\ u.number \in Nat
          BY <1>1, <5>1, HeldFile DEF VersionsOf, NumberedSet, Version
        <5>3. PICK n \in 1..u.number : u.key = OwnKey(o, n)
          BY <2>2, <5>2 DEF VersionAt
        <5>4. n \in 1..r.number
          BY <1>1, <1>2, <5>2, <5>3, HeldFile DEF NextNumber
        <5> QED
          BY <2>2, <5>1, <5>3, <5>4 DEF VersionAt
      <4> QED
        BY <4>1, <4>2
    <3> QED
      BY <1>1, <1>3, <2>2, <3>1, <3>2 DEF CallAt, Has
  <2> QED
    BY <2>1, <2>2
<1>5. \A u \in Process : Left(u, o) \/ (CallAt(worker'[u]) /\ Claims(u, worker'[u], file'))
  <2>1. CallAt(worker'[w]) /\ Claims(w, worker'[w], file')
    BY <1>1, FreeSteps, FreeCall, LostHeld
  <2> QED
    BY <1>1, <2>1, OthersLeft
<1>6. v.object = o /\ v.number = r.number /\ v.key = r.key
  OBVIOUS
<1>7. job'[o].status = "none"
  BY <1>1 DEF NoJob
<1> HIDE DEF v, r
<1> QED
  BY <1>1, <1>2, <1>4, <1>5, <1>6, <1>7, VersionHeld

LEMMA RevertNow ==
  ASSUME CountsInv, HeldInv, slipped' = {}, NEW o \in Object, Revert(o)
  PROVE  /\ file[o].status = "ready" /\ \A v \in Process : ~WorksOn(v, o)
         /\ file'[o].status = "ready" /\ file'[o].token = file[o].token
         /\ \A p \in Object \ {o} : file'[p] = file[p]
         /\ \E u \in VersionsOf(o), v \in Version :
              /\ v.object = o /\ v.key = u.key /\ v.content = u.content
              /\ v.number = NextNumber(o)
              /\ version' = version \cup {v} /\ file'[o].key = v.key
              /\ IF IsBlobKey(v.key) THEN Adds(v.content, v.key, {}) ELSE UNCHANGED <<blob, slipped>>
         /\ UNCHANGED <<reservation, deletion, bytes, job, worker>>
<1>1. PICK u \in VersionsOf(o) :
        /\ version' = version \cup {[u EXCEPT !.number = NextNumber(o)]}
        /\ Rows(o, [file[o] EXCEPT !.status = "ready", !.key = u.key, !.sha = u.content])
        /\ IF IsBlobKey(u.key) THEN Adds(u.content, u.key, RevertSlips(o))
                               ELSE Slipped(RevertSlips(o)) /\ UNCHANGED blob
  BY DEF Revert
<1> DEFINE v == [u EXCEPT !.number = NextNumber(o)]
           row == [file[o] EXCEPT !.status = "ready", !.key = u.key, !.sha = u.content]
<1>2. u \in Version /\ u.object = o /\ Cardinality(VersionsOf(o)) \in Nat
  BY HeldFile DEF VersionsOf
<1>3. NextNumber(o) \in 1..MaxVersions
  BY <1>2, DriveBlobsAssumption DEF Revert, NextNumber
<1>4. /\ v \in Version /\ v.object = o /\ v.number = NextNumber(o)
      /\ v.key = u.key /\ v.content = u.content
  BY <1>2, <1>3 DEF Version
<1>5. RevertSlips(o) = {} /\ file[o].status = "ready" /\ file[o] \in File
  <2>1. RevertSlips(o) \subseteq slipped'
    BY <1>1 DEF Adds, Slipped
  <2> QED
    BY <2>1, RowIs DEF RevertSlips
<1>6. row.key = u.key /\ row.status = "ready" /\ row.token = file[o].token
  BY <1>5 DEF File
<1>7. version' = version \cup {v} /\ Rows(o, row)
  BY <1>1
<1> HIDE DEF v, row
<1>8. file'[o] = row /\ \A p \in Object \ {o} : file'[p] = file[p]
  BY <1>7, RowNow
<1>9. \A w \in Process : ~WorksOn(w, o)
  BY <1>5, NobodyWorks
<1>10. UNCHANGED <<reservation, deletion, bytes, job, worker>>
  BY DEF Revert
<1>11. IF IsBlobKey(u.key) THEN Adds(u.content, u.key, {}) ELSE UNCHANGED <<blob, slipped>>
  BY <1>1, <1>5 DEF Slipped
<1> QED
  BY <1>1, <1>4, <1>5, <1>6, <1>7, <1>8, <1>9, <1>10, <1>11

LEMMA RevertHeld ==
  ASSUME CountsInv, HeldInv, slipped' = {}, NEW o \in Object, Revert(o) PROVE HeldInv'
<1>1. /\ file[o].status = "ready" /\ file'[o].status = "ready" /\ file'[o].token = file[o].token
      /\ \A v \in Process : ~WorksOn(v, o)
      /\ \A p \in Object \ {o} : file'[p] = file[p]
      /\ UNCHANGED <<job, worker>>
  BY RevertNow
<1>2. PICK u \in VersionsOf(o), v \in Version :
        /\ v.object = o /\ v.key = u.key /\ v.content = u.content /\ v.number = NextNumber(o)
        /\ version' = version \cup {v} /\ file'[o].key = v.key
  BY RevertNow
<1>3. VersionAt(v)
  <2>1. VersionAt(u) /\ u.object = o /\ u.number \in Nat /\ u.number <= Cardinality(VersionsOf(o))
    BY HeldFile DEF VersionsOf, NumberedSet, Version
  <2>2. CASE Dedup
    BY <1>2, <2>1, <2>2 DEF VersionAt
  <2>3. CASE ~Dedup
    <3>1. PICK n \in 1..u.number : u.key = OwnKey(o, n)
      BY <2>1, <2>3 DEF VersionAt
    <3>2. n \in 1..v.number
      BY <1>2, <2>1, <3>1, HeldFile DEF NextNumber
    <3> QED
      BY <1>2, <2>3, <3>1, <3>2 DEF VersionAt
  <2> QED
    BY <2>2, <2>3
<1>4. \A w \in Process : Left(w, o)
  BY <1>1 DEF Left, Passes, Settling
<1>5. v.number \in 1..MaxVersions
  BY DEF Version
<1> QED
  BY <1>1, <1>2, <1>3, <1>4, <1>5, VersionHeld
\* What a purge deletes: all keys but those that other versions may share.
PurgedKeys(o) == {file[o].key} \cup {v.key : v \in VersionsOf(o)}
PurgedBlobs(o) == {k \in PurgedKeys(o) : Dedup /\ IsBlobKey(k)}

LEMMA PurgeNow ==
  ASSUME CountsInv, HeldInv, slipped' = {}, NEW w \in Process, NEW o \in Object, Purge(w, o)
  PROVE  /\ Exists(o) /\ \A v \in Process : ~WorksOn(v, o)
         /\ version' = version \ VersionsOf(o)
         /\ VersionsOf(o)' = {} /\ \A p \in Object \ {o} : VersionsOf(p)' = VersionsOf(p)
         /\ IF Dedup THEN Decrementable(VersionsOf(o)) /\ blob' = BlobDecremented(VersionsOf(o))
                     ELSE UNCHANGED blob
         /\ RowGone(o)
         /\ worker'[w].step \in {"idle", "look"}
         /\ worker'[w].todo = (PurgedKeys(o) \ PurgedBlobs(o)) \cup
              {k \in PurgedBlobs(o) : /\ NamedBy(k, VersionsOf(o)) > 0
                                      /\ \E c \in Content : blob'[c].key = k /\ blob'[c].refs = 0}
         /\ \A k \in worker'[w].todo : IsBlobKey(k) => ~Tended(k)
         /\ deletion' = Queued(worker'[w].todo)
         /\ \A v \in Process \ {w} : worker'[v] = worker[v]
         /\ UNCHANGED bytes
<1> DEFINE V == VersionsOf(o)
           doomed == (PurgedKeys(o) \ PurgedBlobs(o)) \cup
              {k \in PurgedBlobs(o) : /\ NamedBy(k, V) > 0
                                      /\ \E c \in Content : blob'[c].key = k /\ blob'[c].refs = 0}
<1>1. /\ Exists(o) /\ version' = version \ V /\ RowGone(o) /\ UNCHANGED bytes
      /\ Dedup => Decrementable(V)
      /\ blob' = IF Dedup THEN BlobDecremented(V) ELSE blob
  BY DEF Purge
<1>2. /\ PurgeSlips(o, doomed) \subseteq Slips
      /\ slipped' = slipped \cup PurgeSlips(o, doomed)
      /\ deletion' = Queued(doomed)
      /\ Tends(w, doomed)
  BY DEF Purge, Slipped, PurgedKeys, PurgedBlobs
<1> HIDE DEF doomed
<1>3. "purge" \notin PurgeSlips(o, doomed) /\ "overlap" \notin PurgeSlips(o, doomed)
  BY <1>2
<1>4. ~Held(o) /\ \A k \in doomed : IsBlobKey(k) => ~Tended(k)
  BY <1>3 DEF PurgeSlips, SlipKind
<1>5. \A v \in Process : ~WorksOn(v, o)
  BY <1>4, NobodyWorks
<1>6. /\ worker'[w].step \in {"idle", "look"} /\ worker'[w].todo = doomed
      /\ \A v \in Process \ {w} : worker'[v] = worker[v]
  BY <1>2, TendsNow
<1>7. VersionsOf(o)' = {} /\ \A p \in Object \ {o} : VersionsOf(p)' = VersionsOf(p)
  BY <1>1 DEF VersionsOf
<1> HIDE DEF V
<1>8. IF Dedup THEN Decrementable(V) /\ blob' = BlobDecremented(V) ELSE UNCHANGED blob
  BY <1>1
<1> QED
  BY <1>1, <1>2, <1>4, <1>5, <1>6, <1>7, <1>8 DEF doomed, V

LEMMA PurgeHeld ==
  ASSUME CountsInv, HeldInv, slipped' = {}, NEW w \in Process, NEW o \in Object, Purge(w, o)
  PROVE  HeldInv'
<1>1. /\ \A v \in Process : ~WorksOn(v, o)
      /\ VersionsOf(o)' = {} /\ \A p \in Object \ {o} : VersionsOf(p)' = VersionsOf(p)
      /\ RowGone(o)
      /\ worker'[w].step \in {"idle", "look"}
      /\ \A v \in Process \ {w} : worker'[v] = worker[v]
  BY PurgeNow
<1>2. /\ file'[o].status = "gone" /\ file'[o].key = file[o].key /\ job'[o] = NoJob
      /\ file'[o].token = None
      /\ \A p \in Object \ {o} : file'[p] = file[p] /\ job'[p] = job[p]
  BY <1>1, RowGoneNow
<1>3. RowAt(o, VersionsOf(o)', file'[o])
  BY <1>1, <1>2, HeldFile DEF RowAt
<1>4. JobAt(file'[o], job'[o])
  BY <1>2 DEF JobAt, NoJob
<1>5. FileAt(o, VersionsOf(o)', file'[o], job'[o])
  BY <1>1, <1>3, <1>4 DEF FileAt
<1>6. CallAt(worker'[w]) /\ Claims(w, worker'[w], file')
  BY <1>1, FreeSteps, FreeCall
<1>7. \A v \in Process \ {w} : Left(v, o)
  BY <1>1, <1>2 DEF Left, Passes, Settling
<1>8. \A p \in Object \ {o} : /\ VersionsOf(p)' = VersionsOf(p)
                              /\ file'[p] = file[p]
                              /\ job'[p] = job[p]
  BY <1>1, <1>2
<1> QED
  BY <1>5, <1>6, <1>7, <1>8, HeldStep

-----------------------------------------------------------------------------
(* Every step.                                                             *)

LEMMA ContinueHeld ==
  ASSUME CountsInv, HeldInv, slipped' = {}, NEW w \in Process, Continue(w) PROVE HeldInv'
BY ScanHeld, CommitScanFailureHeld, SetAsideHeld, CommitInfectedHeld, ReserveHeld, WriteHeld,
   CommitCleanHeld, UnreserveHeld, CheckWrittenHeld, DiscardHeld, ReleaseHeld, FinalizeJobHeld,
   JobFailsHeld, LookHeld, EraseHeld, CompleteHeld, EraseUploadHeld, ForgetHeld DEF Continue

LEMMA NextHeld == ASSUME CountsInv, HeldInv, slipped' = {}, [Next]_vars PROVE HeldInv'
<1>1. ASSUME NEW o \in Object, Prepare(o) \/ Override(o) \/ Revert(o) \/ Expires(o)
      PROVE  HeldInv'
  BY <1>1, PrepareHeld, OverrideHeld, RevertHeld, ExpiresHeld
<1>2. ASSUME NEW o \in Object, NEW c \in Uploads[o], Upload(o, c) PROVE HeldInv'
  BY <1>2, UploadHeld
<1>3. ASSUME NEW o \in Object, NEW w \in Process,
             \/ Purge(w, o) \/ ClaimJob(w, o) \/ ExpireUpload(w, o)
             \/ \E inline \in Uploads[o] \cup {None} : Finalize(w, o, inline)
      PROVE  HeldInv'
  BY <1>3, PurgeHeld, ClaimJobHeld, ExpireUploadHeld, ClaimHeld DEF Finalize
<1>4. ASSUME NEW w \in Process,
             Continue(w) \/ Fail(w) \/ Crash(w) \/ \E k \in Key : ClaimDeletion(w, k)
      PROVE  HeldInv'
  BY <1>4, ContinueHeld, FailHeld, CrashHeld, ClaimDeletionHeld
<1>5. ASSUME ReconcileBlobs PROVE HeldInv'
  BY <1>5, ReconcileHeld
<1>6. ASSUME UNCHANGED vars PROVE HeldInv'
  BY <1>6, HeldCalls DEF vars
<1> QED
  BY <1>1, <1>2, <1>3, <1>4, <1>5, <1>6 DEF Next

LEMMA HeldInit == Init => HeldInv
<1> SUFFICES ASSUME Init PROVE HeldInv
  OBVIOUS
<1>1. ASSUME NEW o \in Object PROVE FileAt(o, VersionsOf(o), file[o], job[o])
  <2>1. VersionsOf(o) = {} /\ job[o].status = "none" /\ file[o].status = "none"
        /\ file[o].key = OwnKey(o, 1)
    BY <1>1 DEF Init, BlobInit, VersionsOf, NoJob
  <2>2. 1 \in 1..MaxVersions
    BY DriveBlobsAssumption
  <2> QED
    BY <2>1, <2>2 DEF FileAt, RowAt, JobAt, OwnKeys
<1>2. ASSUME NEW w \in Process PROVE CallAt(worker[w]) /\ Claims(w, worker[w], file)
  <2>1. worker[w].step = "idle"
    BY <1>2 DEF Init, Idle
  <2> QED
    BY <2>1, FreeSteps, FreeCall
<1> QED
  BY <1>1, <1>2 DEF HeldInv

-----------------------------------------------------------------------------
(* The bytes of one file, without dedup: no key in use is doomed, nor one  *)
(* that a finalization counts on.                                          *)

Doomed == {k \in Key : BeingDeleted(k) \/ Tended(k)}
Used(V) == {v.key : v \in V}
Expired == {"upload_expiring", "gone"}

\* While a file may be finalized, a deletion of its keys is the work of one call,
\* and that leaves it only when it is done.
TendedOnce == \A o \in Object, n \in 1..MaxVersions, w \in Process :
  file[o].status \notin Settling /\ OwnKey(o, n) \in worker[w].todo =>
    /\ BeingDeleted(OwnKey(o, n))
    /\ \A u \in Process : OwnKey(o, n) \in worker[u].todo => u = w

\* Call r, with D doomed, versions V and bytes b: what it reads, writes or
\* deletes is no version of anybody, and what it read is there when it commits.
Unharmed(r, D, V, b) ==
  /\ r.step \in Finalizing => r.reserved \notin D /\ OwnKey(r.o, r.number) \notin D
  /\ r.step = "scan" /\ r.inline # None /\ r.previous # "ready" => \A v \in V : v.object # r.o
  /\ r.step \in {"infected", "quarantine"} /\ r.inline = None => r.reserved \notin Used(V)
  /\ r.step = "write" => r.key \notin Used(V) /\ r.inline = r.content
  /\ r.step \in Finalizing \cup {"check", "discard"} /\ r.wrote # None => r.wrote \notin Used(V)
  /\ r.step = "commit" => b[r.key] = r.content
Spent(r, rows) ==
  r.step = "expire" => r.reserved \in OwnKeys(r.o) /\ rows[r.o].status \in Expired

OwnInv ==
  /\ Doomed \cap Used(version) = {}
  /\ TendedOnce
  /\ \A w \in Process : Unharmed(worker[w], Doomed, version, bytes) /\ Spent(worker[w], file)
  /\ Kept

\* A step that slips nowhere.
Calm == CountsInv /\ CountsInv' /\ HeldInv /\ HeldInv' /\ slipped = {} /\ slipped' = {}

LEMMA OwnersDiffer ==
  ASSUME NEW o, NEW p, NEW k, k \in OwnKeys(o), k \in OwnKeys(p) PROVE o = p
BY DEF OwnKeys, OwnKey, QuarantineKey

LEMMA VersionsOwned ==
  ASSUME CountsInv, HeldInv, ~Dedup, NEW v \in version
  PROVE  /\ v.object \in Object /\ v.key \in OwnKeys(v.object) /\ v.key \in Key
         /\ v.content \in Content /\ \A o : v.key # QuarantineKey(o)
         /\ \E n \in 1..v.number : v.key = OwnKey(v.object, n)
         /\ v.number \in 1..MaxVersions
<1>1. v \in Version
  BY CountsNow
<1>2. v.object \in Object /\ v \in VersionsOf(v.object) /\ v.number \in 1..MaxVersions
      /\ v.key \in Key /\ v.content \in Content
  BY <1>1 DEF Version, VersionsOf
<1>3. PICK n \in 1..v.number : v.key = OwnKey(v.object, n)
  BY <1>2, HeldFile DEF VersionAt
<1>4. n \in 1..MaxVersions
  BY <1>2, <1>3, DriveBlobsAssumption
<1> QED
  BY <1>2, <1>3, <1>4 DEF OwnKeys, OwnKey, QuarantineKey

LEMMA KeyOwned ==
  ASSUME NEW v \in Version, VersionAt(v), ~Dedup PROVE v.key \in OwnKeys(v.object)
<1>1. PICK n \in 1..v.number : v.key = OwnKey(v.object, n)
  BY DEF VersionAt
<1>2. v.number \in 1..MaxVersions
  BY DEF Version
<1>3. n \in 1..MaxVersions
  BY <1>1, <1>2, DriveBlobsAssumption
<1> QED
  BY <1>1, <1>3 DEF OwnKeys

LEMMA VersionsThen ==
  ASSUME CountsInv', HeldInv' PROVE \A v \in version' : v \in Version /\ VersionAt(v)
<1>1. version' \subseteq Version
  BY DEF CountsInv, HistoryInv, Inv, TypeOK, BlobTypeOK
<1>2. \A o \in Object : \A v \in VersionsOf(o)' : VersionAt(v)
  BY DEF HeldInv, FileAt
<1>3. \A v \in version' : v.object \in Object
  BY <1>1 DEF Version
<1>4. \A v \in version' : v \in VersionsOf(v.object)'
  BY DEF VersionsOf
<1> QED
  BY <1>1, <1>2, <1>3, <1>4

\* The keys that a call at work counts on are those of its file.
LEMMA CallOwned ==
  ASSUME CountsInv, HeldInv, ~Dedup, NEW w \in Process, worker[w].step \in Undoes
  PROVE  /\ worker[w].o \in Object
         /\ worker[w].step \in Finalizing =>
              /\ worker[w].reserved \in OwnKeys(worker[w].o)
              /\ OwnKey(worker[w].o, worker[w].number) \in OwnKeys(worker[w].o)
         /\ worker[w].step \in {"write", "commit"} => worker[w].key \in OwnKeys(worker[w].o)
         /\ worker[w].step \in {"write", "commit"} =>
              worker[w].key \in {worker[w].reserved, OwnKey(worker[w].o, worker[w].number)}
         /\ worker[w].step \in Finalizing \cup {"check", "discard"} /\ worker[w].wrote # None =>
              worker[w].wrote \in OwnKeys(worker[w].o)
<1> DEFINE r == worker[w]
           o == r.o
<1>1. o \in Object /\ CallAt(r) /\ (r.step \in Finalizing => Has(w, r, file[o]))
  BY HeldCall DEF Claims
<1>2. r.step \in Finalizing => r.reserved \in OwnKeys(o)
  BY <1>1, HeldFile DEF Has, RowAt
<1>3. r.step \in Finalizing => OwnKey(o, r.number) \in OwnKeys(o)
  BY WorkerKnows DEF OwnKeys
<1>4. r.step \in {"write", "commit"} => r.key \in {r.reserved, OwnKey(o, r.number)}
  BY <1>1 DEF CallAt
<1>5. r.step \in {"write", "commit"} => r.key \in OwnKeys(o)
  BY <1>2, <1>3, <1>4 DEF Finalizing
<1>6. ASSUME r.step \in Finalizing \cup {"check", "discard"}, r.wrote # None
      PROVE  r.wrote \in OwnKeys(o)
  <2>1. r.step \in {"quarantine", "commit", "check", "discard"}
    BY <1>1, <1>6 DEF CallAt, Finalizing
  <2>2. QuarantineKey(o) \in OwnKeys(o)
    BY DEF OwnKeys
  <2> HIDE DEF o
  <2> QED
    BY <1>1, <1>5, <1>6, <2>1, <2>2 DEF CallAt, o
<1> QED
  BY <1>1, <1>2, <1>3, <1>4, <1>5, <1>6

LEMMA OwnCall ==
  ASSUME OwnInv, NEW w \in Process
  PROVE  Unharmed(worker[w], Doomed, version, bytes) /\ Spent(worker[w], file)
BY DEF OwnInv

\* A call that works on nothing.
LEMMA IdleUnharmed ==
  ASSUME NEW r, r.step \notin Finalizing \cup {"check", "discard"}
  PROVE  \A D, V, b : Unharmed(r, D, V, b)
BY DEF Unharmed, Finalizing

-----------------------------------------------------------------------------
(* What a step has to show, when it touches no other keys than K.          *)

\* The files that call v works on have none of them.
LostNow(v) == worker[v].step \in Undoing /\ Lost(v, worker[v], file[worker[v].o])
Apart(v, K) ==
  /\ worker'[v] = worker[v]
  /\ worker[v].step \in Undoes /\ ~LostNow(v) =>
       /\ OwnKeys(worker[v].o) \cap K = {}
       /\ VersionsOf(worker[v].o)' = VersionsOf(worker[v].o)

LEMMA UnharmedStays ==
  ASSUME Calm, ~Dedup, OwnInv, NEW K, NEW v \in Process, Apart(v, K),
         Doomed' \subseteq Doomed \cup K,
         \A k \in Key : bytes'[k] = bytes[k] \/ k \in Doomed \cup K
  PROVE  Unharmed(worker'[v], Doomed', version', bytes')
<1> DEFINE r == worker[v]
           p == r.o
<1>1. Unharmed(r, Doomed, version, bytes) /\ worker'[v] = r
  BY OwnCall DEF Apart
<1>2. CASE r.step \notin Undoes
  BY <1>1, <1>2, IdleUnharmed DEF Undoes, Undoing
<1>3. CASE LostNow(v)
  <2>1. \A u \in version' : u.key # QuarantineKey(p)
    BY VersionsThen DEF Calm, VersionAt, OwnKey, QuarantineKey
  <2>2. r.step \in {"check", "discard"} => r.wrote = QuarantineKey(p)
    BY <1>3 DEF LostNow, Lost
  <2>3. r.step \notin Finalizing
    BY <1>3 DEF LostNow, Finalizing, Undoing
  <2> HIDE DEF r, p
  <2>4. Unharmed(r, Doomed', version', bytes')
    BY <2>1, <2>2, <2>3 DEF Unharmed, Used, Finalizing
  <2> QED
    BY <1>1, <2>4
<1>4. CASE r.step \in Undoes /\ ~LostNow(v)
  <2>1. /\ p \in Object
        /\ r.step \in Finalizing => r.reserved \in OwnKeys(p) /\ OwnKey(p, r.number) \in OwnKeys(p)
        /\ r.step \in {"write", "commit"} =>
             r.key \in OwnKeys(p) /\ r.key \in {r.reserved, OwnKey(p, r.number)}
        /\ r.step \in Finalizing \cup {"check", "discard"} /\ r.wrote # None => r.wrote \in OwnKeys(p)
    BY <1>4, CallOwned DEF Calm
  <2>2. OwnKeys(p) \cap K = {} /\ \A u : u.object = p => (u \in version' <=> u \in version)
    BY <1>4 DEF Apart, VersionsOf
  <2>3. ASSUME NEW k \in OwnKeys(p)
        PROVE  /\ k \in Doomed' => k \in Doomed
               /\ k \in Used(version') => k \in Used(version)
    <3>1. k \in Doomed' => k \in Doomed
      BY <2>2, <2>3
    <3>2. ASSUME k \in Used(version') PROVE k \in Used(version)
      <4>1. PICK u \in version' : u.key = k
        BY <3>2 DEF Used
      <4>2. u.key \in OwnKeys(u.object)
        BY <4>1, VersionsThen, KeyOwned DEF Calm
      <4>3. u.object = p
        BY <2>3, <4>1, <4>2, OwnersDiffer
      <4>4. u \in version
        BY <2>2, <4>1, <4>3
      <4> QED
        BY <4>1, <4>4 DEF Used
    <3> QED
      BY <3>1, <3>2
  <2>4. ASSUME r.step = "commit" PROVE bytes'[r.key] = bytes[r.key]
    <3>1. r.key \notin Doomed
      BY <1>1, <2>1, <2>4 DEF Unharmed, Finalizing
    <3>2. r.key \in Key
      BY <2>4, HeldCall DEF Calm, Knows
    <3> QED
      BY <2>1, <2>2, <2>4, <3>1, <3>2
  <2>5. (\A u \in version : u.object # p) => \A u \in version' : u.object # p
    BY <2>2
  <2> HIDE DEF r, p
  <2>6. Unharmed(r, Doomed', version', bytes')
    <3>1. r.step \in Finalizing => r.reserved \notin Doomed' /\ OwnKey(r.o, r.number) \notin Doomed'
      BY <1>1, <2>1, <2>3 DEF Unharmed, p
    <3>2. r.step = "scan" /\ r.inline # None /\ r.previous # "ready" => \A u \in version' : u.object # r.o
      BY <1>1, <2>5 DEF Unharmed, p
    <3>3. r.step \in {"infected", "quarantine"} /\ r.inline = None => r.reserved \notin Used(version')
      BY <1>1, <2>1, <2>3 DEF Unharmed, Finalizing
    <3>4. r.step = "write" => r.key \notin Used(version') /\ r.inline = r.content
      BY <1>1, <2>1, <2>3 DEF Unharmed
    <3>5. r.step \in Finalizing \cup {"check", "discard"} /\ r.wrote # None => r.wrote \notin Used(version')
      BY <1>1, <2>1, <2>3 DEF Unharmed
    <3>6. r.step = "commit" => bytes'[r.key] = r.content
      BY <1>1, <2>4 DEF Unharmed
    <3> QED
      BY <3>1, <3>2, <3>3, <3>4, <3>5, <3>6 DEF Unharmed
  <2> QED
    BY <1>1, <2>6
<1> QED
  BY <1>2, <1>3, <1>4

\* No file comes back from a quarantine, an expiry or a purge.
Steady == \A o \in Object :
  /\ file[o].status \in Settling => file'[o].status \in Settling
  /\ file[o].status \in Expired => file'[o].status \in Expired

LEMMA OwnStep ==
  ASSUME Calm, ~Dedup, OwnInv, NEW K,
         Doomed' \subseteq Doomed \cup K,
         Doomed' \cap Used(version') = {},
         \A k \in Key : bytes'[k] = bytes[k] \/ k \in Doomed \cup K,
         Steady, TendedOnce', Kept',
         \A v \in Process : \/ Apart(v, K)
                            \/ Unharmed(worker'[v], Doomed', version', bytes'),
         \A v \in Process : \/ worker'[v] = worker[v]
                            \/ worker'[v].step = "expire" => Spent(worker'[v], file')
  PROVE  OwnInv'
<1>1. ASSUME NEW v \in Process
      PROVE  Unharmed(worker'[v], Doomed', version', bytes') /\ Spent(worker'[v], file')
  <2>1. Unharmed(worker'[v], Doomed', version', bytes')
    BY <1>1, UnharmedStays
  <2>2. Spent(worker'[v], file')
    <3>1. CASE worker'[v] = worker[v] /\ worker[v].step = "expire"
      <4>1. worker[v].o \in Object /\ Spent(worker[v], file)
        BY <1>1, <3>1, OwnCall, HeldCall DEF Calm, Expiring
      <4> QED
        BY <3>1, <4>1 DEF Spent, Steady
    <3>2. CASE ~(worker'[v] = worker[v] /\ worker[v].step = "expire")
      BY <1>1, <3>2 DEF Spent
    <3> QED
      BY <3>1, <3>2
  <2> QED
    BY <2>1, <2>2
<1> QED
  BY <1>1 DEF OwnInv

\* Deletions that only end.
LEMMA DoomedShrinks ==
  ASSUME \A v \in Process : worker'[v].todo \subseteq worker[v].todo,
         \A k \in Key : BeingDeleted(k)' => BeingDeleted(k)
  PROVE  Doomed' \subseteq Doomed
BY DEF Doomed, Tended

LEMMA OnceStays ==
  ASSUME TendedOnce, Steady,
         \A o \in Object, n \in 1..MaxVersions :
           \/ file'[o].status \in Settling
           \/ \A u \in Process : OwnKey(o, n) \in worker'[u].todo =>
                /\ OwnKey(o, n) \in worker[u].todo
                /\ BeingDeleted(OwnKey(o, n)) => BeingDeleted(OwnKey(o, n))'
  PROVE  TendedOnce'
<1> SUFFICES ASSUME NEW o \in Object, NEW n \in 1..MaxVersions, NEW w \in Process,
                    file'[o].status \notin Settling, OwnKey(o, n) \in worker'[w].todo
             PROVE  /\ BeingDeleted(OwnKey(o, n))'
                    /\ \A u \in Process : OwnKey(o, n) \in worker'[u].todo => u = w
  BY DEF TendedOnce, OwnKey
<1>1. /\ file[o].status \notin Settling
      /\ \A u \in Process : OwnKey(o, n) \in worker'[u].todo =>
           /\ OwnKey(o, n) \in worker[u].todo
           /\ BeingDeleted(OwnKey(o, n)) => BeingDeleted(OwnKey(o, n))'
  BY DEF Steady
<1>2. /\ BeingDeleted(OwnKey(o, n))
      /\ \A u \in Process : OwnKey(o, n) \in worker[u].todo => u = w
  BY <1>1 DEF TendedOnce
<1> QED
  BY <1>1, <1>2

\* Steps that change neither versions nor bytes nor the queue of deletions.
LEMMA OwnQuiet ==
  ASSUME Calm, ~Dedup, OwnInv, UNCHANGED <<version, deletion, bytes>>, Steady,
         \A v \in Process : worker'[v].todo \subseteq worker[v].todo,
         \A v \in Process : \/ worker'[v] = worker[v]
                            \/ /\ Unharmed(worker'[v], Doomed, version, bytes)
                               /\ worker'[v].step = "expire" => Spent(worker'[v], file')
  PROVE  OwnInv'
<1>1. \A k \in Key : BeingDeleted(k)' <=> BeingDeleted(k)
  BY DEF BeingDeleted
<1>2. Doomed' \subseteq Doomed
  BY <1>1, DoomedShrinks
<1>3. Doomed' \cap Used(version') = {}
  BY <1>2 DEF OwnInv
<1>4. TendedOnce'
  <2>1. \A o \in Object, n \in 1..MaxVersions : BeingDeleted(OwnKey(o, n))' <=> BeingDeleted(OwnKey(o, n))
    BY DEF BeingDeleted, OwnKey
  <2> QED
    BY <2>1, OnceStays DEF OwnInv
<1>5. Kept'
  BY DEF OwnInv, Kept
<1>6. ASSUME NEW v \in Process
      PROVE  Apart(v, {}) \/ Unharmed(worker'[v], Doomed', version', bytes')
  <2>1. CASE worker'[v] = worker[v]
    BY <2>1 DEF Apart, VersionsOf
  <2>2. CASE worker'[v] # worker[v]
    <3>1. Unharmed(worker'[v], Doomed, version, bytes)
      BY <1>6, <2>2
    <3> QED
      BY <1>2, <3>1 DEF Unharmed
  <2> QED
    BY <2>1, <2>2
<1> QED
  BY <1>2, <1>3, <1>4, <1>5, <1>6, OwnStep

-----------------------------------------------------------------------------
(* Steps of one call that touch neither bytes nor deletions.               *)

SteadyRow(row, next) ==
  /\ row.status \in Settling => next.status \in Settling
  /\ row.status \in Expired => next.status \in Expired

LEMMA SteadyFile ==
  ASSUME NEW o \in Object, \A p \in Object \ {o} : file'[p] = file[p],
         SteadyRow(file[o], file'[o])
  PROVE  Steady
BY DEF Steady, SteadyRow

LEMMA SteadySame == ASSUME UNCHANGED file PROVE Steady
BY DEF Steady

LEMMA OwnCallGoes ==
  ASSUME Calm, ~Dedup, OwnInv, UNCHANGED <<version, deletion, bytes>>, Steady,
         NEW w \in Process, \A v \in Process \ {w} : worker'[v] = worker[v],
         worker'[w].todo \subseteq worker[w].todo,
         Unharmed(worker'[w], Doomed, version, bytes),
         worker'[w].step = "expire" => Spent(worker'[w], file')
  PROVE  OwnInv'
BY OwnQuiet

LEMMA OwnCallFree ==
  ASSUME Calm, ~Dedup, OwnInv, UNCHANGED <<version, deletion, bytes>>, Steady,
         NEW w \in Process, \A v \in Process \ {w} : worker'[v] = worker[v],
         worker'[w].todo \subseteq worker[w].todo,
         worker'[w].step \notin Finalizing \cup {"check", "discard", "expire"}
  PROVE  OwnInv'
BY IdleUnharmed, OwnCallGoes

\* Nothing that a call at work may still read or write is touched by its undoing.
LEMMA UndoOwn ==
  ASSUME Calm, ~Dedup, OwnInv, UNCHANGED <<version, deletion, bytes, file>>,
         NEW w \in Process, worker[w].step \in Finalizing, Goes(w, UndoStep(w))
  PROVE  OwnInv'
<1> DEFINE r == worker[w]
           q == worker'[w]
           s == UndoStep(w)
<1>1. q.step = s /\ Alike(q, r) /\ \A v \in Process \ {w} : worker'[v] = worker[v]
  BY GoesNow DEF Calm
<1>2. s = "release" \/ (s = "check" /\ r.wrote # None)
  BY DEF UndoStep
<1>3. r.wrote # None => r.wrote \notin Used(version)
  BY OwnCall DEF Unharmed
<1> HIDE DEF r, q, s
<1>4. Unharmed(q, Doomed, version, bytes) /\ q.step # "expire"
  BY <1>1, <1>2, <1>3 DEF Unharmed, Alike, Finalizing
<1> QED
  BY <1>1, <1>4, SteadySame, OwnCallGoes DEF Alike, r, q

\* A key nobody has used yet.
LEMMA NextFree ==
  ASSUME CountsInv, HeldInv, ~Dedup, NEW o \in Object
  PROVE  OwnKey(o, NextNumber(o)) \notin Used(version)
<1> SUFFICES ASSUME NEW v \in version, v.key = OwnKey(o, NextNumber(o)) PROVE FALSE
  BY DEF Used
<1>1. PICK n \in 1..v.number : v.key = OwnKey(v.object, n)
  BY VersionsOwned
<1>2. v.object = o /\ n = NextNumber(o) /\ v.number \in 1..MaxVersions
  BY <1>1, VersionsOwned DEF OwnKey
<1>3. v \in VersionsOf(o)
  BY <1>2 DEF VersionsOf
<1>4. v.number <= Cardinality(VersionsOf(o)) /\ Cardinality(VersionsOf(o)) \in Nat
  BY <1>3, HeldFile DEF NumberedSet
<1> QED
  BY <1>1, <1>2, <1>4, DriveBlobsAssumption DEF NextNumber

LEMMA ScanOwn == ASSUME Calm, ~Dedup, OwnInv, NEW w \in Process, Scan(w) PROVE OwnInv'
<1> DEFINE r == worker[w]
           q == worker'[w]
           o == r.o
<1>1. /\ r.step = "scan" /\ Kin(q, r) /\ q.wrote = r.wrote
      /\ \A v \in Process \ {w} : worker'[v] = worker[v]
      /\ UNCHANGED <<version, deletion, bytes, file>>
  BY ScanNow DEF Calm, blobVars
<1>2. r.step \in Finalizing /\ r.step \in Undoes
  BY <1>1 DEF Finalizing, Undoes
<1>3. CASE Goes(w, UndoStep(w))
  BY <1>1, <1>2, <1>3, UndoOwn
<1>4. CASE ~Goes(w, UndoStep(w))
  <2>1. /\ q.content = Source(w) /\ Source(w) # None
        /\ \/ q.step = "unscanned"
           \/ q.step = "infected" /\ Source(w) \in Infected
           \/ /\ q.step = IF r.inline # None THEN "write" ELSE "commit"
              /\ q.key = IF r.inline # None /\ r.previous = "ready" THEN OwnKey(o, r.number)
                                                                    ELSE r.reserved
    BY <1>4, ScanNow DEF Calm
  <2>2. r.wrote = None /\ o \in Object /\ r.number = NextNumber(o) /\ r.reserved \in OwnKeys(o)
    BY <1>1, <1>2, HeldCall, CallOwned, WorkerKnows DEF Calm, CallAt
  <2>3. Unharmed(r, Doomed, version, bytes)
    BY OwnCall
  <2>4. r.inline # None => Source(w) = r.inline
    BY DEF Source
  <2>5. r.inline = None => Source(w) = bytes[r.reserved]
    BY DEF Source
  <2>6. ASSUME NEW v \in version PROVE bytes[v.key] = v.content /\ v.content \notin Infected
    BY <2>6 DEF OwnInv, Kept, Calm, CountsInv, HistoryInv, Inv, Clean
  <2>7. q.step = "infected" /\ r.inline = None => r.reserved \notin Used(version)
    BY <2>1, <2>5, <2>6 DEF Used
  <2>8. ASSUME q.step = "write" PROVE q.key \notin Used(version)
    <3>1. CASE r.previous = "ready"
      BY <2>1, <2>2, <2>8, <3>1, NextFree DEF Calm
    <3>2. CASE r.previous # "ready"
      <4>1. q.key = r.reserved /\ \A u \in version : u.object # o
        BY <1>1, <2>1, <2>3, <2>8, <3>2 DEF Unharmed
      <4> QED
        BY <2>2, <4>1, VersionsOwned, OwnersDiffer DEF Calm, Used
    <3> QED
      BY <3>1, <3>2
  <2>9. r.reserved \notin Doomed /\ OwnKey(o, r.number) \notin Doomed
    BY <1>2, <2>3 DEF Unharmed
  <2> HIDE DEF r, q
  <2>10. Unharmed(q, Doomed, version, bytes)
    <3>1. q.step \in Finalizing => q.reserved \notin Doomed /\ OwnKey(q.o, q.number) \notin Doomed
      BY <1>1, <2>9 DEF Kin
    <3>2. q.step # "scan" /\ q.step # "quarantine" /\ (q.step = "infected" /\ q.inline = None => q.reserved \notin Used(version))
      BY <1>1, <2>1, <2>7 DEF Kin
    <3>3. q.step = "write" => q.key \notin Used(version) /\ q.inline = q.content
      BY <1>1, <2>1, <2>4, <2>8 DEF Kin
    <3>4. q.step = "commit" => bytes[q.key] = q.content
      BY <1>1, <2>1, <2>5
    <3> QED
      BY <1>1, <2>2, <3>1, <3>2, <3>3, <3>4 DEF Unharmed
  <2> QED
    BY <1>1, <2>1, <2>10, SteadySame, OwnCallGoes DEF Kin, r, q
<1> QED
  BY <1>3, <1>4

LEMMA ClaimOwn ==
  ASSUME Calm, ~Dedup, OwnInv, NEW w \in Process, NEW o \in Object,
         NEW retry, NEW inline, Claim(w, o, retry, inline)
  PROVE  OwnInv'
<1> DEFINE q == worker'[w]
<1>1. /\ file[o].status \notin {"none", "gone", "infected", "scan_dead_letter"}
      /\ file[o].status # "upload_expiring"
      /\ ~BeingDeleted(file[o].key) /\ ~BeingDeleted(OwnKey(o, NextNumber(o)))
      /\ inline # None /\ q.previous # "ready" => VersionsOf(o) = {}
      /\ file'[o].status = "scan_processing"
      /\ \A p \in Object \ {o} : file'[p] = file[p]
      /\ q.step = "scan" /\ q.o = o /\ q.inline = inline
      /\ q.reserved = file[o].key /\ q.number = NextNumber(o)
      /\ q.wrote = None /\ q.todo = {}
      /\ \A v \in Process \ {w} : worker'[v] = worker[v]
      /\ UNCHANGED <<version, deletion, bytes>>
  BY ClaimNow DEF Calm, blobVars
<1>2. NextNumber(o) \in 1..MaxVersions
  <2>1. Knows(q)
    BY DEF Calm, CountsInv, HistoryInv, Inv
  <2> QED
    BY <1>1, <2>1 DEF Knows, Finalizing
<1>3. ASSUME NEW n \in 1..MaxVersions, ~BeingDeleted(OwnKey(o, n)) PROVE OwnKey(o, n) \notin Doomed
  BY <1>1, <1>3 DEF OwnInv, TendedOnce, Doomed, Tended, Settling
<1>4. \E n \in 1..MaxVersions : file[o].key = OwnKey(o, n)
  <2>1. CASE file[o].key = OwnKey(o, 1)
    BY <2>1, DriveBlobsAssumption
  <2>2. CASE file[o].key # OwnKey(o, 1)
    <3>1. PICK v \in VersionsOf(o) : v.key = file[o].key
      BY <1>1, <2>2, HeldFile DEF Calm, RowAt
    <3>2. v \in version /\ v.object = o
      BY DEF VersionsOf
    <3>3. PICK n \in 1..v.number : v.key = OwnKey(o, n)
      BY <3>2, VersionsOwned DEF Calm
    <3>4. v.number \in 1..MaxVersions
      BY <3>2, VersionsOwned DEF Calm
    <3>5. n \in 1..MaxVersions
      BY <3>3, <3>4, DriveBlobsAssumption
    <3> QED
      BY <3>1, <3>3, <3>5
  <2> QED
    BY <2>1, <2>2
<1>5. file[o].key \notin Doomed /\ OwnKey(o, NextNumber(o)) \notin Doomed
  BY <1>1, <1>2, <1>3, <1>4
<1>6. inline # None /\ q.previous # "ready" => \A v \in version : v.object # o
  BY <1>1 DEF VersionsOf
<1>7. Steady
  BY <1>1, SteadyFile DEF SteadyRow, Settling, Expired
<1> HIDE DEF q
<1>8. Unharmed(q, Doomed, version, bytes)
  BY <1>1, <1>5, <1>6 DEF Unharmed
<1> QED
  BY <1>1, <1>7, <1>8, OwnCallGoes DEF q
LEMMA FailOwn == ASSUME Calm, ~Dedup, OwnInv, NEW w \in Process, Fail(w) PROVE OwnInv'
BY UndoOwn DEF Fail, blobVars

LEMMA CommitScanFailureOwn ==
  ASSUME Calm, ~Dedup, OwnInv, NEW w \in Process, NEW o, o = worker[w].o, CommitScanFailure(w)
  PROVE  OwnInv'
<1>1. /\ o \in Object /\ WorksOn(w, o)
      /\ \A p \in Object \ {o} : file'[p] = file[p]
      /\ worker'[w].step \in {"idle", "jobfail", "release"} /\ worker'[w].todo \subseteq worker[w].todo
      /\ \A v \in Process \ {w} : worker'[v] = worker[v]
      /\ UNCHANGED <<version, deletion, bytes>>
  BY CommitScanFailureNow DEF Calm, blobVars
<1>2. file[o].status = "scan_processing"
  BY <1>1, WorkerHolds DEF Calm, Has
<1>3. Steady
  BY <1>1, <1>2, SteadyFile DEF SteadyRow, Settling, Expired
<1> QED
  BY <1>1, <1>3, OwnCallFree DEF Finalizing

LEMMA ReleaseOwn ==
  ASSUME Calm, ~Dedup, OwnInv, NEW w \in Process, NEW o, o = worker[w].o, Release(w)
  PROVE  OwnInv'
<1>1. /\ o \in Object
      /\ UNCHANGED file \/ (WorksOn(w, o) /\ \A p \in Object \ {o} : file'[p] = file[p])
      /\ worker'[w].step \in {"idle", "jobfail"} /\ worker'[w].todo \subseteq worker[w].todo
      /\ \A v \in Process \ {w} : worker'[v] = worker[v]
      /\ UNCHANGED <<version, deletion, bytes>>
  BY ReleaseNow DEF Calm, blobVars
<1>2. WorksOn(w, o) => file[o].status = "scan_processing"
  BY <1>1, WorkerHolds DEF Calm, Has
<1>3. Steady
  BY <1>1, <1>2, SteadySame, SteadyFile DEF SteadyRow, Settling, Expired
<1> QED
  BY <1>1, <1>3, OwnCallFree DEF Finalizing

LEMMA CheckWrittenOwn ==
  ASSUME Calm, ~Dedup, OwnInv, NEW w \in Process, CheckWritten(w) PROVE OwnInv'
<1> DEFINE r == worker[w]
           q == worker'[w]
<1>1. r.step = "check" /\ UNCHANGED <<version, deletion, bytes, file>>
  BY DEF CheckWritten, blobVars
<1>2. /\ q.step \in {"release", "discard"} /\ Alike(q, r)
      /\ \A v \in Process \ {w} : worker'[v] = worker[v]
  BY GoesNow DEF CheckWritten, Calm
<1>3. Unharmed(r, Doomed, version, bytes)
  BY OwnCall
<1>4. Unharmed(q, Doomed, version, bytes)
  BY <1>1, <1>2, <1>3 DEF Unharmed, Alike, Finalizing
<1> QED
  BY <1>1, <1>2, <1>4, SteadySame, OwnCallGoes DEF Alike

LEMMA ClaimJobOwn ==
  ASSUME Calm, ~Dedup, OwnInv, NEW w \in Process, NEW o \in Object, ClaimJob(w, o) PROVE OwnInv'
<1>1. /\ worker'[w].step = "job" /\ worker'[w].todo = {}
      /\ \A v \in Process \ {w} : worker'[v] = worker[v]
      /\ UNCHANGED <<version, deletion, bytes, file>>
  BY ClaimJobNow DEF Calm, blobVars
<1> QED
  BY <1>1, SteadySame, OwnCallFree DEF Finalizing

LEMMA FinalizeJobOwn ==
  ASSUME Calm, ~Dedup, OwnInv, NEW w \in Process, FinalizeJob(w) PROVE OwnInv'
<1>1. worker[w].o \in Object
  BY HeldCall DEF FinalizeJob, Calm
<1>2. CASE Claim(w, worker[w].o, TRUE, None)
  BY <1>1, <1>2, ClaimOwn
<1>3. CASE Goes(w, "jobfail") /\ UNCHANGED <<blobVars, file, job>>
  <2>1. /\ worker'[w].step = "jobfail" /\ Alike(worker'[w], worker[w])
        /\ \A v \in Process \ {w} : worker'[v] = worker[v]
    BY <1>3, GoesNow DEF Calm
  <2> QED
    BY <1>3, <2>1, SteadySame, OwnCallFree DEF blobVars, Finalizing, Alike
<1> QED
  BY <1>2, <1>3 DEF FinalizeJob

LEMMA RejobbedSteady ==
  ASSUME CountsInv, HeldInv, NEW o \in Object, Rejobbed(o) PROVE Steady
<1>1. file[o].status \notin Settling /\ file[o].status \notin Expired
  <2>1. file[o].status \notin {"infected", "gone"}
    BY SettledNow, CountsParts, HeldFile DEF Rejobbed, GoodRow
  <2>2. file[o].status \notin {"pending_upload", "upload_expiring"}
    BY HeldFile DEF Rejobbed, JobAt, Unscanned
  <2> QED
    BY <2>1, <2>2 DEF Settling, Expired
<1> QED
  BY <1>1, SteadyFile DEF Rejobbed, SteadyRow

LEMMA JobFailsOwn ==
  ASSUME Calm, ~Dedup, OwnInv, NEW w \in Process, NEW o, o = worker[w].o, JobFails(w) PROVE OwnInv'
<1>1. /\ o \in Object /\ (Rejobbed(o) \/ UNCHANGED <<file, job>>)
      /\ worker'[w].step = "idle" /\ worker'[w].todo = {}
      /\ \A v \in Process \ {w} : worker'[v] = worker[v]
      /\ UNCHANGED <<version, deletion, bytes>>
  BY JobFailsNow DEF Calm, blobVars
<1>2. Steady
  BY <1>1, RejobbedSteady, SteadySame DEF Calm
<1> QED
  BY <1>1, <1>2, OwnCallFree DEF Finalizing

LEMMA OverrideOwn == ASSUME Calm, ~Dedup, OwnInv, NEW o \in Object, Override(o) PROVE OwnInv'
BY OverrideNow, RejobbedSteady, OwnQuiet DEF Calm, blobVars

LEMMA PrepareOwn == ASSUME Calm, ~Dedup, OwnInv, NEW o \in Object, Prepare(o) PROVE OwnInv'
<1>1. /\ file[o].status = "none" /\ \A p \in Object \ {o} : file'[p] = file[p]
      /\ UNCHANGED <<version, deletion, bytes, worker>>
  BY PrepareNow DEF Calm, blobVars
<1>2. Steady
  BY <1>1, SteadyFile DEF SteadyRow, Settling, Expired
<1> QED
  BY <1>1, <1>2, OwnQuiet

LEMMA ExpireUploadOwn ==
  ASSUME Calm, ~Dedup, OwnInv, NEW w \in Process, NEW o \in Object, ExpireUpload(w, o) PROVE OwnInv'
<1> DEFINE q == worker'[w]
<1>1. /\ file[o].status \in {"pending_upload", "upload_expiring", "scan_processing"}
      /\ file'[o].status = "upload_expiring"
      /\ \A p \in Object \ {o} : file'[p] = file[p]
      /\ q.step = "expire" /\ q.o = o /\ q.todo = {} /\ q.reserved = file[o].key
      /\ \A v \in Process \ {w} : worker'[v] = worker[v]
      /\ UNCHANGED <<version, deletion, bytes>>
  BY ExpireUploadNow DEF Calm, blobVars, Unscanned
<1>2. Steady
  BY <1>1, SteadyFile DEF SteadyRow, Settling, Expired
<1>3. Spent(q, file')
  BY <1>1, HeldFile DEF Calm, RowAt, Spent, Expired
<1>4. Unharmed(q, Doomed, version, bytes)
  BY <1>1, IdleUnharmed DEF Finalizing
<1> QED
  BY <1>1, <1>2, <1>3, <1>4, OwnCallGoes

LEMMA ForgetOwn ==
  ASSUME Calm, ~Dedup, OwnInv, NEW w \in Process, NEW o, o = worker[w].o, Forget(w) PROVE OwnInv'
<1>1. /\ o \in Object
      /\ UNCHANGED <<file, reservation, job>> \/ (file[o].status = "upload_expiring" /\ RowGone(o))
      /\ worker'[w].step = "idle" /\ worker'[w].todo = {}
      /\ \A v \in Process \ {w} : worker'[v] = worker[v]
      /\ UNCHANGED <<version, deletion, bytes>>
  BY ForgetNow DEF Calm
<1>2. Steady
  <2>1. CASE UNCHANGED file
    BY <2>1, SteadySame
  <2>2. CASE RowGone(o)
    <3>1. file'[o].status = "gone" /\ \A p \in Object \ {o} : file'[p] = file[p]
      BY <1>1, <2>2, RowGoneNow DEF Calm
    <3> QED
      BY <1>1, <3>1, SteadyFile DEF SteadyRow, Settling, Expired
  <2> QED
    BY <1>1, <2>1, <2>2
<1> QED
  BY <1>1, <1>2, OwnCallFree DEF Finalizing

LEMMA CrashOwn == ASSUME Calm, ~Dedup, OwnInv, NEW w \in Process, Crash(w) PROVE OwnInv'
<1>1. /\ worker'[w].step = "idle" /\ worker'[w].todo = {}
      /\ \A v \in Process \ {w} : worker'[v] = worker[v]
      /\ UNCHANGED <<version, deletion, bytes, file>>
  BY EndsNow DEF Calm, Crash
<1> QED
  BY <1>1, SteadySame, OwnCallFree DEF Finalizing

LEMMA LookOwn == ASSUME Calm, ~Dedup, OwnInv, NEW w \in Process, Look(w) PROVE OwnInv'
<1>1. /\ worker'[w].step \in {"erase", "complete"} /\ worker'[w].todo = worker[w].todo
      /\ \A v \in Process \ {w} : worker'[v] = worker[v]
      /\ UNCHANGED <<version, deletion, bytes, file>>
  BY LookNow DEF Calm, blobVars
<1> QED
  BY <1>1, SteadySame, OwnCallFree DEF Finalizing

LEMMA ExpiresOwn == ASSUME Calm, ~Dedup, OwnInv, NEW o \in Object, Expires(o) PROVE OwnInv'
BY SteadySame, OwnQuiet DEF Expires, ReservationExpires

-----------------------------------------------------------------------------
(* Steps that touch the keys of one file.                                  *)

LEMMA Used1 == ASSUME NEW V, NEW v \in V PROVE v.key \in Used(V)
BY DEF Used

\* Deletions that are queued stay queued.
LEMMA QueuedDoomed ==
  ASSUME Calm, NEW K \in SUBSET Key, deletion' = Queued(K)
  PROVE  \A k \in Key : /\ BeingDeleted(k) => BeingDeleted(k)'
                        /\ BeingDeleted(k)' => BeingDeleted(k) \/ k \in K
BY DEF BeingDeleted, Queued

LEMMA OtherApart ==
  ASSUME Calm, ~Dedup, NEW o, NEW v \in Process, worker'[v] = worker[v], ~WorksOn(v, o),
         \A p \in Object \ {o} : VersionsOf(p)' = VersionsOf(p)
  PROVE  Apart(v, OwnKeys(o))
<1>1. worker[v].step \in Undoes /\ ~LostNow(v) => worker[v].o \in Object /\ worker[v].o # o
  BY HeldCall DEF Calm, WorksOn, LostNow, Claims, Has, Undoes
<1>2. worker[v].step \in Undoes /\ ~LostNow(v) => OwnKeys(worker[v].o) \cap OwnKeys(o) = {}
  BY <1>1, OwnersDiffer
<1> QED
  BY <1>1, <1>2 DEF Apart

\* Nothing is doomed that was not, or would be but is one of the keys of o.
LEMMA DoomedAt ==
  ASSUME Calm, NEW K,
         \A v \in Process : worker'[v].todo \subseteq worker[v].todo \cup K,
         \A k \in Key : BeingDeleted(k)' => BeingDeleted(k) \/ k \in K
  PROVE  Doomed' \subseteq Doomed \cup K
BY DEF Doomed, Tended

LEMMA OwnByte ==
  ASSUME Calm, NEW k \in Key, NEW c, bytes' = [bytes EXCEPT ![k] = c]
  PROVE  bytes'[k] = c /\ \A j \in Key : j # k => bytes'[j] = bytes[j]
BY DEF Calm, CountsInv, HistoryInv, Inv, TypeOK, BlobTypeOK

\* Bytes of one file that change where no version is.
LEMMA OwnBytes ==
  ASSUME Calm, ~Dedup, OwnInv, UNCHANGED <<version, deletion, file>>, NEW o,
         NEW k \in Key, k \in OwnKeys(o), k \notin Used(version),
         NEW c, bytes' = [bytes EXCEPT ![k] = c],
         \A v \in Process : worker'[v].todo \subseteq worker[v].todo,
         \A v \in Process : \/ worker'[v] = worker[v] /\ ~WorksOn(v, o)
                            \/ /\ Unharmed(worker'[v], Doomed, version, bytes')
                               /\ worker'[v].step # "expire"
  PROVE  OwnInv'
<1>1. \A j \in Key : BeingDeleted(j)' <=> BeingDeleted(j)
  BY DEF BeingDeleted
<1>2. Doomed' \subseteq Doomed
  BY <1>1, DoomedShrinks
<1>3. Doomed' \subseteq Doomed \cup OwnKeys(o) /\ Doomed' \cap Used(version') = {}
  BY <1>2 DEF OwnInv
<1>4. TendedOnce'
  <2>1. \A p \in Object, n \in 1..MaxVersions : BeingDeleted(OwnKey(p, n))' <=> BeingDeleted(OwnKey(p, n))
    BY DEF BeingDeleted, OwnKey
  <2> QED
    BY <2>1, SteadySame, OnceStays DEF OwnInv
<1>5. \A j \in Key : bytes'[j] = bytes[j] \/ j \in Doomed \cup OwnKeys(o)
  BY OwnByte
<1>6. Kept'
  <2>1. ASSUME NEW v \in version PROVE bytes'[v.key] = v.content
    <3>1. v.key # k /\ v.key \in Key
      BY <2>1, VersionsOwned DEF Calm, Used
    <3> QED
      BY <2>1, <3>1, OwnByte DEF OwnInv, Kept
  <2> QED
    BY <2>1 DEF Kept
<1>7. ASSUME NEW v \in Process
      PROVE  /\ Apart(v, OwnKeys(o)) \/ Unharmed(worker'[v], Doomed', version', bytes')
             /\ worker'[v] = worker[v] \/ worker'[v].step # "expire"
  <2>1. CASE worker'[v] = worker[v] /\ ~WorksOn(v, o)
    <3>1. \A p \in Object \ {o} : VersionsOf(p)' = VersionsOf(p)
      BY DEF VersionsOf
    <3> QED
      BY <1>7, <2>1, <3>1, OtherApart
  <2>2. CASE Unharmed(worker'[v], Doomed, version, bytes') /\ worker'[v].step # "expire"
    BY <1>2, <2>2 DEF Unharmed
  <2> QED
    BY <1>7, <2>1, <2>2
<1> QED
  BY <1>3, <1>4, <1>5, <1>6, <1>7, SteadySame, OwnStep

LEMMA WriteOwn == ASSUME Calm, ~Dedup, OwnInv, NEW w \in Process, Write(w) PROVE OwnInv'
<1> DEFINE r == worker[w]
           q == worker'[w]
<1>1. r.step = "write" /\ UNCHANGED <<version, deletion, file>>
  BY WriteNow DEF Calm
<1>2. r.step \in Finalizing /\ r.step \in Undoes
  BY <1>1 DEF Finalizing, Undoes
<1>3. CASE Goes(w, UndoStep(w)) /\ UNCHANGED bytes
  BY <1>1, <1>2, <1>3, UndoOwn
<1>4. CASE ~(Goes(w, UndoStep(w)) /\ UNCHANGED bytes)
  <2>1. /\ q.step = "commit" /\ Kin(q, r) /\ q.content = r.content /\ q.key = r.key /\ q.wrote = r.key
        /\ \A v \in Process \ {w} : worker'[v] = worker[v]
        /\ bytes' = [bytes EXCEPT ![r.key] = Source(w)]
    BY <1>4, WriteNow DEF Calm
  <2>2. r.o \in Object /\ r.key \in OwnKeys(r.o) /\ r.key \in Key /\ WorksOn(w, r.o)
    BY <1>1, <1>2, CallOwned, HeldCall, Finalizes DEF Calm, Knows
  <2>3. Unharmed(r, Doomed, version, bytes)
    BY OwnCall
  <2>4. r.key \notin Used(version) /\ r.inline = r.content
    BY <1>1, <2>3 DEF Unharmed
  <2>5. r.content # None
    BY <1>1, HeldCall, DriveBlobsAssumption DEF Calm, Knows, Finalizing
  <2>6. bytes'[r.key] = r.content
    BY <2>1, <2>2, <2>4, <2>5, OwnByte DEF Source
  <2>7. \A v \in Process \ {w} : ~WorksOn(v, r.o)
    BY <2>2, WorkerHolds DEF Calm
  <2>8. Unharmed(q, Doomed, version, bytes')
    <3> HIDE DEF r, q
    <3> QED
      BY <1>2, <2>1, <2>3, <2>4, <2>6 DEF Unharmed, Kin
  <2> HIDE DEF r, q
  <2> QED
    BY <1>1, <2>1, <2>2, <2>4, <2>7, <2>8, OwnBytes DEF Kin, r, q
<1> QED
  BY <1>3, <1>4

LEMMA SetAsideOwn == ASSUME Calm, ~Dedup, OwnInv, NEW w \in Process, SetAside(w) PROVE OwnInv'
<1> DEFINE r == worker[w]
           q == worker'[w]
<1>1. /\ r.step = "infected" /\ q.step = "quarantine" /\ Kin(q, r)
      /\ \A v \in Process \ {w} : worker'[v] = worker[v]
      /\ UNCHANGED <<version, deletion, file>>
  BY SetAsideNow DEF Calm
<1>2. r.step \in Finalizing /\ r.step \in Undoes
  BY <1>1 DEF Finalizing, Undoes
<1>3. Unharmed(r, Doomed, version, bytes)
  BY OwnCall
<1>4. CASE q.wrote = r.wrote /\ UNCHANGED bytes
  <2>1. Unharmed(q, Doomed, version, bytes)
    BY <1>1, <1>2, <1>3, <1>4 DEF Unharmed, Kin
  <2> QED
    BY <1>1, <1>4, <2>1, SteadySame, OwnCallGoes DEF Kin
<1>5. CASE /\ q.wrote = QuarantineKey(r.o)
           /\ bytes' = [bytes EXCEPT ![QuarantineKey(r.o)] = Source(w)]
  <2>1. r.o \in Object /\ WorksOn(w, r.o)
    BY <1>2, HeldCall, Finalizes DEF Calm, Finalizing
  <2>2. QuarantineKey(r.o) \in Key /\ QuarantineKey(r.o) \in OwnKeys(r.o)
    BY <2>1 DEF Key, OwnKeys
  <2>3. QuarantineKey(r.o) \notin Used(version)
    BY VersionsOwned DEF Calm, Used
  <2>4. \A v \in Process \ {w} : ~WorksOn(v, r.o)
    BY <2>1, WorkerHolds DEF Calm
  <2> HIDE DEF r, q
  <2>5. Unharmed(q, Doomed, version, bytes')
    BY <1>1, <1>2, <1>3, <1>5, <2>3 DEF Unharmed, Kin
  <2> QED
    BY <1>1, <1>5, <2>2, <2>3, <2>4, <2>5, OwnBytes DEF Kin, r, q
<1> QED
  BY <1>4, <1>5, SetAsideNow DEF Calm

LEMMA UploadOwn ==
  ASSUME Calm, ~Dedup, OwnInv, NEW o \in Object, NEW c, Upload(o, c) PROVE OwnInv'
<1>1. /\ file[o].status = "pending_upload" /\ bytes[file[o].key] = None
      /\ bytes' = [bytes EXCEPT ![file[o].key] = c]
      /\ UNCHANGED <<version, deletion, file, worker>>
  BY DEF Upload
<1>2. file[o].key \in OwnKeys(o) /\ file[o].key \in Key
  BY HeldFile DEF Calm, RowAt, File
<1>3. file[o].key \notin Used(version)
  BY <1>1, VersionsOwned, DriveBlobsAssumption DEF Calm, Used, OwnInv, Kept
<1>4. \A v \in Process : ~WorksOn(v, o)
  BY <1>1, NobodyWorks DEF Calm
<1> QED
  BY <1>1, <1>2, <1>3, <1>4, OwnBytes

\* Expired uploads have no versions.
LEMMA ExpiredEmpty ==
  ASSUME CountsInv, HeldInv, NEW o \in Object, file[o].status \in Expired
  PROVE  VersionsOf(o) = {} /\ \A v \in Process : ~WorksOn(v, o)
<1>1. VersionsOf(o) = {}
  BY HeldFile DEF Expired, GoodRow, CanBe
<1>2. file[o].status # "scan_processing"
  BY DEF Expired
<1> QED
  BY <1>1, <1>2, NobodyWorks

LEMMA EraseUploadOwn == ASSUME Calm, ~Dedup, OwnInv, NEW w \in Process, EraseUpload(w) PROVE OwnInv'
<1> DEFINE r == worker[w]
           o == r.o
<1>1. r.step = "expire" /\ UNCHANGED <<version, deletion, file>>
  BY DEF EraseUpload
<1>2. CASE Ends(w) /\ UNCHANGED bytes
  BY <1>1, <1>2, EndsNow, SteadySame, OwnCallFree DEF Calm, Finalizing
<1>3. CASE bytes' = [bytes EXCEPT ![r.reserved] = None] /\ Goes(w, "forget")
  <2>1. o \in Object /\ r.reserved \in Key
    BY <1>1, HeldCall DEF Calm, Expiring, Knows
  <2>2. r.reserved \in OwnKeys(o) /\ file[o].status \in Expired
    BY <1>1, OwnCall DEF Spent
  <2>3. VersionsOf(o) = {} /\ \A v \in Process : ~WorksOn(v, o)
    BY <2>1, <2>2, ExpiredEmpty DEF Calm
  <2>4. r.reserved \notin Used(version)
    BY <2>2, <2>3, VersionsOwned, OwnersDiffer DEF Calm, Used, VersionsOf
  <2>5. /\ worker'[w].step = "forget" /\ worker'[w].todo = r.todo
        /\ \A v \in Process \ {w} : worker'[v] = worker[v]
    BY <1>3, GoesNow DEF Calm, Alike
  <2>6. Unharmed(worker'[w], Doomed, version, bytes') /\ worker'[w].step # "expire"
    BY <2>5, IdleUnharmed DEF Finalizing
  <2> HIDE DEF r, o
  <2> QED
    BY <1>1, <1>3, <2>1, <2>2, <2>3, <2>4, <2>5, <2>6, OwnBytes DEF r
<1> QED
  BY <1>2, <1>3 DEF EraseUpload
\* Deletions queued for keys of one file that no version has after the step.
LEMMA OwnQueues ==
  ASSUME Calm, ~Dedup, OwnInv, NEW w \in Process, NEW o \in Object,
         NEW K \in SUBSET Key, K \subseteq OwnKeys(o), deletion' = Queued(K),
         worker'[w].todo \subseteq worker[w].todo \cup K, file'[o].status \in Settling,
         \A v \in Process \ {w} : worker'[v] = worker[v],
         K \cap Used(version') = {}, version' \subseteq version,
         \A p \in Object \ {o} : VersionsOf(p)' = VersionsOf(p),
         \A k \in Key : bytes'[k] = bytes[k] \/ k \in OwnKeys(o) \ Used(version'),
         Steady,
         \A v \in Process \ {w} : ~WorksOn(v, o),
         worker'[w].step \notin Finalizing \cup {"expire"},
         worker'[w].step \in {"check", "discard"} => worker'[w].wrote \notin Used(version')
  PROVE  OwnInv'
<1>1. \A k \in Key : /\ BeingDeleted(k) => BeingDeleted(k)'
                     /\ BeingDeleted(k)' => BeingDeleted(k) \/ k \in K
  BY QueuedDoomed
<1>2. \A v \in Process : worker'[v].todo \subseteq worker[v].todo \cup K
  OBVIOUS
<1>3. Doomed' \subseteq Doomed \cup K
  BY <1>1, <1>2, DoomedAt
<1>4. Doomed' \cap Used(version') = {}
  BY <1>3 DEF OwnInv, Used
<1>5. TendedOnce'
  <2>1. ASSUME NEW p \in Object, NEW n \in 1..MaxVersions, file'[p].status \notin Settling,
               NEW u \in Process, OwnKey(p, n) \in worker'[u].todo
        PROVE  OwnKey(p, n) \in worker[u].todo
    <3>1. CASE u # w
      BY <2>1, <3>1
    <3>2. CASE u = w /\ OwnKey(p, n) \notin worker[w].todo
      <4>1. OwnKey(p, n) \in OwnKeys(o) /\ OwnKey(p, n) \in OwnKeys(p) /\ file'[o].status \in Settling
        BY <2>1, <3>2 DEF OwnKeys
      <4> QED
        BY <2>1, <4>1, OwnersDiffer
    <3> QED
      BY <3>1, <3>2
  <2>2. \A p \in Object, n \in 1..MaxVersions : OwnKey(p, n) \in Key
    BY DEF Key
  <2>3. \A p \in Object, n \in 1..MaxVersions : BeingDeleted(OwnKey(p, n)) => BeingDeleted(OwnKey(p, n))'
    BY <1>1, <2>2 DEF OwnKey
  <2> QED
    BY <2>1, <2>3, OnceStays DEF OwnInv
<1>6. Kept'
  BY VersionsOwned DEF OwnInv, Kept, Used, Calm
<1>7. ASSUME NEW v \in Process
      PROVE  Apart(v, OwnKeys(o)) \/ Unharmed(worker'[v], Doomed', version', bytes')
  <2>1. CASE v = w
    BY <2>1 DEF Unharmed, Finalizing
  <2>2. CASE v # w
    BY <1>7, <2>2, OtherApart
  <2> QED
    BY <2>1, <2>2
<1>8. \A v \in Process : worker'[v] = worker[v] \/ worker'[v].step # "expire"
  OBVIOUS
<1>9. Doomed' \subseteq Doomed \cup OwnKeys(o)
  BY <1>3
<1> QED
  BY <1>4, <1>5, <1>6, <1>7, <1>8, <1>9, OwnStep

LEMMA DiscardOwn == ASSUME Calm, ~Dedup, OwnInv, NEW w \in Process, Discard(w) PROVE OwnInv'
<1> DEFINE r == worker[w]
           o == r.o
<1>1. r.step = "discard" /\ UNCHANGED <<version, file>>
  BY DEF Discard
<1>2. r.step \in Undoes
  BY <1>1 DEF Undoes, Undoing
<1>3. /\ worker'[w].step = "release" /\ worker'[w].todo = r.todo
      /\ \A v \in Process \ {w} : worker'[v] = worker[v]
  BY GoesNow DEF Discard, Calm, Alike
<1>4. o \in Object /\ r.wrote \in Key /\ r.wrote \in OwnKeys(o)
  BY <1>1, <1>2, HeldCall DEF Calm, Knows, CallAt
<1>5. r.wrote \notin Used(version)
  <2>1. Unharmed(r, Doomed, version, bytes) /\ r.wrote # None
    BY <1>4, OwnCall, DriveKeyAssumption
  <2> QED
    BY <1>1, <2>1 DEF Unharmed
<1>6. \A v \in Process \ {w} : ~WorksOn(v, o)
  <2>1. WorksOn(w, o) \/ file[o].status \in Settling
    BY <1>1, <1>2, HeldCall DEF Calm, Claims, Has, Lost, WorksOn, Undoing
  <2> QED
    BY <1>4, <2>1, WorkerHolds, NobodyWorks DEF Calm, Settling
<1>7. Unharmed(worker'[w], Doomed, version, bytes') /\ worker'[w].step # "expire"
  BY <1>3, IdleUnharmed DEF Finalizing
<1>8. CASE bytes' = [bytes EXCEPT ![r.wrote] = None] /\ UNCHANGED deletion
  <2> HIDE DEF r, o
  <2> QED
    BY <1>1, <1>3, <1>4, <1>5, <1>6, <1>7, <1>8, OwnBytes DEF r
<1>9. CASE deletion' = Queued({r.wrote}) /\ UNCHANGED bytes
  <2>1. \A k \in Key : /\ BeingDeleted(k) => BeingDeleted(k)'
                       /\ BeingDeleted(k)' => BeingDeleted(k) \/ k \in {r.wrote}
    BY <1>4, <1>9, QueuedDoomed
  <2>2. \A v \in Process : worker'[v].todo \subseteq worker[v].todo
    BY <1>3
  <2>3. Doomed' \subseteq Doomed \cup {r.wrote}
    BY <2>1, <2>2, DoomedAt
  <2>4. Doomed' \cap Used(version') = {}
    BY <1>1, <1>5, <2>3 DEF OwnInv
  <2>5. TendedOnce'
    <3>1. \A p \in Object, n \in 1..MaxVersions : OwnKey(p, n) \in Key
      BY DEF Key
    <3>2. \A p \in Object, n \in 1..MaxVersions : BeingDeleted(OwnKey(p, n)) => BeingDeleted(OwnKey(p, n))'
      BY <2>1, <3>1 DEF OwnKey
    <3> QED
      BY <1>1, <2>2, <3>2, SteadySame, OnceStays DEF OwnInv
  <2>6. Kept'
    BY <1>1, <1>9 DEF OwnInv, Kept
  <2>7. ASSUME NEW v \in Process
        PROVE  Apart(v, OwnKeys(o)) \/ Unharmed(worker'[v], Doomed', version', bytes')
    <3>1. CASE v = w
      BY <1>3, <3>1, IdleUnharmed DEF Finalizing
    <3>2. CASE v # w
      <4>1. \A p \in Object \ {o} : VersionsOf(p)' = VersionsOf(p)
        BY <1>1 DEF VersionsOf
      <4> QED
        BY <1>3, <1>6, <2>7, <3>2, <4>1, OtherApart
    <3> QED
      BY <3>1, <3>2
  <2>8. Doomed' \subseteq Doomed \cup OwnKeys(o)
    BY <1>4, <2>3
  <2>9. \A v \in Process : worker'[v] = worker[v] \/ worker'[v].step # "expire"
    BY <1>3
  <2> QED
    BY <1>1, <1>9, <2>4, <2>5, <2>6, <2>7, <2>8, <2>9, SteadySame, OwnStep
<1> QED
  BY <1>8, <1>9 DEF Discard

LEMMA CommitInfectedOwn ==
  ASSUME Calm, ~Dedup, OwnInv, NEW w \in Process, NEW o, o = worker[w].o, CommitInfected(w)
  PROVE  OwnInv'
<1> DEFINE r == worker[w]
           K == Condemned(r)
<1>1. /\ r.step = "quarantine" /\ o \in Object /\ WorksOn(w, o)
      /\ file'[o].status = "infected"
      /\ \A p \in Object \ {o} : file'[p] = file[p]
      /\ deletion' = Queued(K)
      /\ \A v \in Process \ {w} : worker'[v] = worker[v]
      /\ UNCHANGED <<version, bytes>>
  BY CommitInfectedNow DEF Calm
<1>2. r.step \in Finalizing /\ r.step \in Undoes
  BY <1>1 DEF Finalizing, Undoes
<1>3. file[o].status = "scan_processing" /\ \A v \in Process \ {w} : ~WorksOn(v, o)
  BY <1>1, WorkerHolds DEF Calm, Has
<1>4. Steady
  BY <1>1, <1>3, SteadyFile DEF SteadyRow, Settling, Expired
<1>5. Unharmed(r, Doomed, version, bytes)
  BY OwnCall
<1>6. r.reserved \in OwnKeys(o) /\ (r.wrote # None => r.wrote \in OwnKeys(o))
  BY <1>1, <1>2, CallOwned DEF Calm
<1>7. K \subseteq OwnKeys(o)
  BY <1>1, <1>6 DEF Condemned
<1>8. K \subseteq Key
  BY <1>1, <1>7 DEF OwnKeys, Key
<1>9. K \cap Used(version') = {}
  BY <1>1, <1>2, <1>5 DEF Unharmed, Condemned
<1>10. \A p \in Object \ {o} : VersionsOf(p)' = VersionsOf(p)
  BY <1>1 DEF VersionsOf
<1>11. file'[o].status \in Settling
  BY <1>1 DEF Settling
<1>12. /\ worker'[w].step \notin Finalizing \cup {"expire"}
       /\ worker'[w].step \in {"check", "discard"} => worker'[w].wrote \notin Used(version')
       /\ worker'[w].todo \subseteq r.todo \cup K
  <2>1. CASE worker'[w].step \in {"idle", "look"} /\ worker'[w].todo = K
    BY <2>1 DEF Finalizing
  <2>2. CASE /\ worker'[w].step = IF r.wrote = None THEN "release" ELSE "check"
             /\ Alike(worker'[w], r)
    BY <1>1, <1>2, <1>5, <2>2 DEF Finalizing, Unharmed, Alike
  <2> QED
    BY <2>1, <2>2, CommitInfectedNow DEF Calm
<1>13. version' \subseteq version /\ \A k \in Key : bytes'[k] = bytes[k]
  BY <1>1
<1> HIDE DEF r, K
<1> QED
  BY <1>1, <1>3, <1>4, <1>7, <1>8, <1>9, <1>10, <1>11, <1>12, <1>13, OwnQueues DEF r

LEMMA PurgeOwn ==
  ASSUME Calm, ~Dedup, OwnInv, NEW w \in Process, NEW o \in Object, Purge(w, o) PROVE OwnInv'
<1> DEFINE K == worker'[w].todo
<1>1. /\ \A v \in Process : ~WorksOn(v, o)
      /\ version' = version \ VersionsOf(o)
      /\ \A p \in Object \ {o} : VersionsOf(p)' = VersionsOf(p)
      /\ RowGone(o)
      /\ worker'[w].step \in {"idle", "look"}
      /\ K \subseteq PurgedKeys(o)
      /\ deletion' = Queued(K)
      /\ \A v \in Process \ {w} : worker'[v] = worker[v]
      /\ UNCHANGED bytes
  BY PurgeNow DEF Calm, PurgedBlobs
<1>2. file'[o].status = "gone" /\ \A p \in Object \ {o} : file'[p] = file[p]
  BY <1>1, RowGoneNow DEF Calm
<1>3. Exists(o)
  BY PurgeNow DEF Calm
<1>4. Steady
  BY <1>2, SteadyFile DEF SteadyRow, Settling, Expired
<1>5. PurgedKeys(o) \subseteq OwnKeys(o)
  <2>1. file[o].key \in OwnKeys(o)
    BY HeldFile DEF Calm, RowAt
  <2>2. ASSUME NEW v \in VersionsOf(o) PROVE v.key \in OwnKeys(o)
    BY <2>2, VersionsOwned DEF Calm, VersionsOf
  <2> QED
    BY <2>1, <2>2 DEF PurgedKeys
<1>6. OwnKeys(o) \subseteq Key
  BY DEF OwnKeys, Key
<1>7. K \cap Used(version') = {}
  <2>1. ASSUME NEW v \in version' PROVE v.key \notin OwnKeys(o)
    <3>1. v \in version /\ v.object # o
      BY <1>1 DEF VersionsOf
    <3> QED
      BY <3>1, VersionsOwned, OwnersDiffer DEF Calm
  <2> QED
    BY <1>1, <1>5, <2>1 DEF Used
<1>8. file'[o].status \in Settling
  BY <1>2 DEF Settling
<1>9. worker'[w].step \notin Finalizing \cup {"check", "discard", "expire"}
  BY <1>1 DEF Finalizing
<1>10. version' \subseteq version /\ (\A k \in Key : bytes'[k] = bytes[k])
       /\ K \subseteq OwnKeys(o) /\ K \subseteq Key
  BY <1>1, <1>5, <1>6
<1> HIDE DEF K
<1> QED
  BY <1>1, <1>4, <1>7, <1>8, <1>9, <1>10, OwnQueues DEF K

-----------------------------------------------------------------------------
(* A version more, and the deletions of one call.                          *)

LEMMA OwnVersion ==
  ASSUME Calm, ~Dedup, OwnInv, NEW o \in Object, NEW v,
         version' = version \cup {v}, v.object = o, v.key \notin Doomed, bytes[v.key] = v.content,
         UNCHANGED bytes, Steady,
         \A k \in Key : BeingDeleted(k)' <=> BeingDeleted(k),
         \A u \in Process : \/ worker'[u] = worker[u] /\ ~WorksOn(u, o)
                            \/ /\ worker'[u].step \notin Finalizing \cup {"check", "discard", "expire"}
                               /\ worker'[u].todo \subseteq worker[u].todo
  PROVE  OwnInv'
<1>1. Doomed' \subseteq Doomed
  BY DoomedShrinks
<1>2. Doomed' \cap Used(version') = {}
  BY <1>1 DEF OwnInv, Used
<1>3. TendedOnce'
  <2>1. \A p \in Object, n \in 1..MaxVersions : OwnKey(p, n) \in Key
    BY DEF Key
  <2>2. \A p \in Object, n \in 1..MaxVersions : BeingDeleted(OwnKey(p, n)) => BeingDeleted(OwnKey(p, n))'
    BY <2>1 DEF OwnKey
  <2> QED
    BY <2>2, OnceStays DEF OwnInv
<1>4. Kept'
  BY DEF OwnInv, Kept
<1>5. \A p \in Object \ {o} : VersionsOf(p)' = VersionsOf(p)
  BY DEF VersionsOf
<1>6. ASSUME NEW u \in Process
      PROVE  Apart(u, OwnKeys(o)) \/ Unharmed(worker'[u], Doomed', version', bytes')
  BY <1>5, <1>6, OtherApart, IdleUnharmed
<1>7. Doomed' \subseteq Doomed \cup OwnKeys(o)
  BY <1>1
<1> QED
  BY <1>2, <1>3, <1>4, <1>6, <1>7, OwnStep

LEMMA CommitCleanOwn ==
  ASSUME Calm, ~Dedup, OwnInv, NEW w \in Process, NEW o, o = worker[w].o, CommitClean(w)
  PROVE  OwnInv'
<1> DEFINE r == worker[w]
           v == [object |-> o, number |-> r.number, key |-> r.key, content |-> r.content]
<1>1. /\ r.step = "commit" /\ o \in Object /\ WorksOn(w, o)
      /\ \A p \in Object \ {o} : file'[p] = file[p]
      /\ version' = version \cup {v}
      /\ worker'[w].step \in {"idle", "look", "release"}
      /\ worker'[w].todo \subseteq r.todo \cup Staged(r)
      /\ deletion' = Queued(Staged(r))
      /\ \A u \in Process \ {w} : worker'[u] = worker[u]
      /\ UNCHANGED bytes
  BY CommitCleanNow DEF Calm, Alike
<1>2. r.step \in Finalizing /\ r.step \in Undoes
  BY <1>1 DEF Finalizing, Undoes
<1>3. r.key \in {r.reserved, OwnKey(o, r.number)} /\ (r.inline = None => r.key = r.reserved)
  BY <1>1, HeldCall DEF Calm, CallAt
<1>4. Staged(r) = {}
  BY <1>3 DEF Staged
<1>5. Unharmed(r, Doomed, version, bytes)
  BY OwnCall
<1>6. r.key \notin Doomed /\ bytes[r.key] = r.content
  BY <1>1, <1>2, <1>3, <1>5 DEF Unharmed
<1>7. file[o].status = "scan_processing" /\ \A u \in Process \ {w} : ~WorksOn(u, o)
  BY <1>1, WorkerHolds DEF Calm, Has
<1>8. Steady
  BY <1>1, <1>7, SteadyFile DEF SteadyRow, Settling, Expired
<1>9. \A k \in Key : BeingDeleted(k)' <=> BeingDeleted(k)
  BY <1>1, <1>4 DEF Queued, BeingDeleted
<1>10. v.object = o /\ v.key = r.key /\ v.content = r.content
  OBVIOUS
<1>11. /\ worker'[w].step \notin Finalizing \cup {"check", "discard", "expire"}
       /\ worker'[w].todo \subseteq r.todo
  BY <1>1, <1>4 DEF Finalizing
<1> HIDE DEF v, r
<1> QED
  BY <1>1, <1>6, <1>7, <1>8, <1>9, <1>10, <1>11, OwnVersion DEF r

LEMMA RevertOwn == ASSUME Calm, ~Dedup, OwnInv, NEW o \in Object, Revert(o) PROVE OwnInv'
<1>1. /\ file[o].status = "ready" /\ \A v \in Process : ~WorksOn(v, o)
      /\ \A p \in Object \ {o} : file'[p] = file[p]
      /\ UNCHANGED <<deletion, bytes, worker>>
  BY RevertNow DEF Calm
<1>2. PICK u \in VersionsOf(o), v \in Version :
        v.object = o /\ v.key = u.key /\ v.content = u.content /\ version' = version \cup {v}
  BY RevertNow DEF Calm
<1>3. v.key \notin Doomed /\ bytes[v.key] = v.content
  BY <1>2 DEF OwnInv, Used, Kept, VersionsOf
<1>4. Steady
  BY <1>1, SteadyFile DEF SteadyRow, Settling, Expired
<1>5. \A k \in Key : BeingDeleted(k)' <=> BeingDeleted(k)
  BY <1>1 DEF BeingDeleted
<1> QED
  BY <1>1, <1>2, <1>3, <1>4, <1>5, OwnVersion

\* Deletions that end, each at the hands of the call that tends it.
LEMMA OwnDeletes ==
  ASSUME Calm, ~Dedup, OwnInv, UNCHANGED <<version, file>>,
         NEW w \in Process, NEW k \in Key, k \in worker[w].todo,
         worker'[w].todo \subseteq worker[w].todo \ {k},
         \A j \in Key \ {k} : deletion'[j] = deletion[j],
         BeingDeleted(k)' => BeingDeleted(k),
         \A v \in Process \ {w} : worker'[v] = worker[v],
         worker'[w].step \notin Finalizing \cup {"check", "discard", "expire"},
         UNCHANGED bytes
  PROVE  OwnInv'
<1>1. \A j \in Key : BeingDeleted(j)' => BeingDeleted(j)
  BY DEF BeingDeleted
<1>2. Doomed' \subseteq Doomed
  BY <1>1, DoomedShrinks
<1>3. Doomed' \cap Used(version') = {}
  BY <1>2 DEF OwnInv
<1>4. TendedOnce'
  <2>1. ASSUME NEW p \in Object, NEW n \in 1..MaxVersions, file'[p].status \notin Settling,
               NEW u \in Process, OwnKey(p, n) \in worker'[u].todo
        PROVE  /\ OwnKey(p, n) \in worker[u].todo
               /\ BeingDeleted(OwnKey(p, n)) => BeingDeleted(OwnKey(p, n))'
    <3>1. OwnKey(p, n) \in worker[u].todo /\ OwnKey(p, n) \in Key
      BY <2>1 DEF Key
    <3>2. OwnKey(p, n) # k
      <4>1. CASE u = w
        BY <2>1, <4>1
      <4>2. CASE u # w
        <5>1. OwnKey(p, n) \notin worker[w].todo
          BY <2>1, <3>1, <4>2 DEF OwnInv, TendedOnce
        <5> QED
          BY <5>1
      <4> QED
        BY <4>1, <4>2
    <3> HIDE DEF OwnKey
    <3>3. deletion'[OwnKey(p, n)] = deletion[OwnKey(p, n)]
      BY <3>1, <3>2
    <3> QED
      BY <3>1, <3>3 DEF BeingDeleted
  <2> QED
    BY <2>1, SteadySame, OnceStays DEF OwnInv
<1>5. Kept'
  BY DEF OwnInv, Kept
<1>6. ASSUME NEW v \in Process
      PROVE  Apart(v, {}) \/ Unharmed(worker'[v], Doomed', version', bytes')
  BY <1>6, IdleUnharmed DEF Apart, VersionsOf
<1>7. \A v \in Process : worker'[v] = worker[v] \/ worker'[v].step # "expire"
  OBVIOUS
<1> QED
  BY <1>2, <1>3, <1>4, <1>5, <1>6, <1>7, SteadySame, OwnStep

LEMMA EraseOwn ==
  ASSUME Calm, ~Dedup, OwnInv, NEW w \in Process, NEW k, k = worker[w].key, Erase(w)
  PROVE  OwnInv'
<1> DEFINE r == worker[w]
<1>1. r.step = "erase" /\ UNCHANGED <<version, file>>
  BY DEF Erase
<1>2. k \in r.todo /\ k \in Key /\ r.as \in {"pending", "processing"}
  BY <1>1, HeldCall DEF Calm, CallAt, Knows, Call
<1>3. k \in Doomed
  BY <1>2 DEF Doomed, Tended
<1>4. CASE /\ bytes' = [bytes EXCEPT ![k] = None] /\ Goes(w, "complete")
           /\ UNCHANGED deletion
  <2>1. /\ worker'[w].step = "complete" /\ worker'[w].todo = r.todo
        /\ \A v \in Process \ {w} : worker'[v] = worker[v]
    BY <1>4, GoesNow DEF Calm, Alike
  <2>2. \A j \in Key : BeingDeleted(j)' <=> BeingDeleted(j)
    BY <1>4 DEF BeingDeleted
  <2>3. \A v \in Process : worker'[v].todo \subseteq worker[v].todo
    BY <2>1
  <2>4. Doomed' \subseteq Doomed
    BY <2>2, <2>3, DoomedShrinks
  <2>5. Doomed' \cap Used(version') = {}
    BY <1>1, <2>4 DEF OwnInv
  <2>6. TendedOnce'
    <3>1. \A p \in Object, n \in 1..MaxVersions : BeingDeleted(OwnKey(p, n)) <=> BeingDeleted(OwnKey(p, n))'
      BY <1>4 DEF BeingDeleted, OwnKey
    <3> QED
      BY <1>1, <2>3, <3>1, SteadySame, OnceStays DEF OwnInv
  <2>7. \A j \in Key : bytes'[j] = bytes[j] \/ j \in Doomed \cup {}
    BY <1>2, <1>3, <1>4, OwnByte
  <2>8. Kept'
    <3>1. ASSUME NEW v \in version PROVE bytes'[v.key] = v.content
      <4>1. v.key \in Key /\ v.key \notin Doomed /\ bytes[v.key] = v.content
        BY <3>1, VersionsOwned DEF Calm, OwnInv, Used, Kept
      <4> QED
        BY <2>7, <4>1
    <3> QED
      BY <1>1, <3>1 DEF Kept
  <2>9. ASSUME NEW v \in Process
        PROVE  Apart(v, {}) \/ Unharmed(worker'[v], Doomed', version', bytes')
    <3>1. CASE v = w
      BY <2>1, <3>1, IdleUnharmed DEF Finalizing
    <3>2. CASE v # w
      BY <1>1, <2>1, <3>2 DEF Apart, VersionsOf
    <3> QED
      BY <3>1, <3>2
  <2>10. \A v \in Process : worker'[v] = worker[v] \/ worker'[v].step # "expire"
    BY <2>1
  <2>11. Doomed' \subseteq Doomed \cup {}
    BY <2>4
  <2> QED
    BY <1>1, <2>5, <2>6, <2>7, <2>8, <2>9, <2>10, <2>11, SteadySame, OwnStep
<1>5. CASE /\ deletion' = IF deletion[k] = r.as THEN [deletion EXCEPT ![k] = "pending"] ELSE deletion
           /\ NextDeletion(w) /\ UNCHANGED bytes
  <2>1. /\ worker'[w].step \in {"idle", "look"} /\ worker'[w].todo = r.todo \ {k}
        /\ \A v \in Process \ {w} : worker'[v] = worker[v]
    BY <1>5, NextDeletionNow DEF Calm
  <2>2. \A j \in Key \ {k} : deletion'[j] = deletion[j]
    BY <1>5
  <2>3. BeingDeleted(k)' => BeingDeleted(k)
    <3>1. CASE deletion[k] = r.as
      BY <1>2, <3>1 DEF BeingDeleted
    <3>2. CASE deletion[k] # r.as
      BY <1>5, <3>2 DEF BeingDeleted
    <3> QED
      BY <3>1, <3>2
  <2>4. worker'[w].step \notin Finalizing \cup {"check", "discard", "expire"}
    BY <2>1 DEF Finalizing
  <2> QED
    BY <1>1, <1>2, <1>5, <2>1, <2>2, <2>3, <2>4, OwnDeletes
<1> QED
  BY <1>4, <1>5 DEF Erase

LEMMA CompleteOwn ==
  ASSUME Calm, ~Dedup, OwnInv, NEW w \in Process, NEW k, k = worker[w].key, Complete(w)
  PROVE  OwnInv'
<1> DEFINE r == worker[w]
<1>1. /\ r.step = "complete" /\ UNCHANGED <<version, file, bytes>>
      /\ deletion' = Completed(k, r.as) /\ NextDeletion(w)
  BY DEF Complete
<1>2. k \in r.todo /\ k \in Key /\ r.as \in {"pending", "processing"}
  BY <1>1, HeldCall DEF Calm, CallAt, Knows, Call
<1>3. /\ worker'[w].step \in {"idle", "look"} /\ worker'[w].todo = r.todo \ {k}
      /\ \A v \in Process \ {w} : worker'[v] = worker[v]
  BY <1>1, NextDeletionNow DEF Calm
<1>4. \A j \in Key \ {k} : deletion'[j] = deletion[j]
  BY <1>1 DEF Completed
<1>5. BeingDeleted(k)' => BeingDeleted(k)
  <2>1. CASE deletion[k] = r.as
    BY <1>2, <2>1 DEF BeingDeleted
  <2>2. CASE deletion[k] # r.as
    BY <1>1, <2>2 DEF BeingDeleted, Completed
  <2> QED
    BY <2>1, <2>2
<1>6. worker'[w].step \notin Finalizing \cup {"check", "discard", "expire"}
  BY <1>3 DEF Finalizing
<1> QED
  BY <1>1, <1>2, <1>3, <1>4, <1>5, <1>6, OwnDeletes
LEMMA ClaimDeletionOwn ==
  ASSUME Calm, ~Dedup, OwnInv, NEW w \in Process, NEW k \in Key, ClaimDeletion(w, k)
  PROVE  OwnInv'
<1>1. /\ worker'[w].step = "look" /\ worker'[w].todo = {k}
      /\ \A v \in Process \ {w} : worker'[v] = worker[v]
      /\ BeingDeleted(k) /\ ~Tended(k)
      /\ deletion' = [deletion EXCEPT ![k] = "processing"]
      /\ UNCHANGED <<version, bytes, file>>
  BY ClaimDeletionNow DEF Calm
<1>2. \A j \in Key : BeingDeleted(j)' <=> BeingDeleted(j)
  BY <1>1 DEF BeingDeleted, Calm, CountsInv, HistoryInv, Inv, TypeOK, BlobTypeOK
<1>3. Doomed' \subseteq Doomed
  BY <1>1, <1>2 DEF Doomed, Tended
<1>4. Doomed' \cap Used(version') = {}
  BY <1>1, <1>3 DEF OwnInv
<1>5. TendedOnce'
  <2>1. ASSUME NEW p \in Object, NEW n \in 1..MaxVersions, NEW j, j = OwnKey(p, n), j \in Key,
               file[p].status \notin Settling, NEW u \in Process, j \in worker'[u].todo
        PROVE  BeingDeleted(j)' /\ \A v \in Process : j \in worker'[v].todo => v = u
    <3>1. CASE j = k
      BY <1>1, <1>2, <2>1, <3>1 DEF Tended
    <3>2. CASE j # k
      <4>1. \A v \in Process : j \in worker'[v].todo => j \in worker[v].todo
        BY <1>1, <3>2
      <4> QED
        BY <1>2, <2>1, <4>1 DEF OwnInv, TendedOnce
    <3> QED
      BY <3>1, <3>2
  <2>2. \A p \in Object, n \in 1..MaxVersions : OwnKey(p, n) \in Key
    BY DEF Key
  <2>3. \A p \in Object, n \in 1..MaxVersions : OwnKey(p, n)' = OwnKey(p, n)
    BY DEF OwnKey
  <2> HIDE DEF OwnKey
  <2> QED
    BY <1>1, <2>1, <2>2 DEF TendedOnce
<1>6. Kept'
  BY <1>1 DEF OwnInv, Kept
<1>7. ASSUME NEW v \in Process
      PROVE  Apart(v, {}) \/ Unharmed(worker'[v], Doomed', version', bytes')
  BY <1>1, <1>7, IdleUnharmed DEF Apart, VersionsOf, Finalizing
<1>8. \A v \in Process : worker'[v] = worker[v] \/ worker'[v].step # "expire"
  BY <1>1
<1>9. Doomed' \subseteq Doomed \cup {} /\ \A j \in Key : bytes'[j] = bytes[j]
  BY <1>1, <1>3
<1> QED
  BY <1>4, <1>5, <1>6, <1>7, <1>8, <1>9, <1>1, SteadySame, OwnStep

-----------------------------------------------------------------------------
(* Every step, without dedup.                                              *)

LEMMA SharedOnly ==
  ASSUME Calm, ~Dedup, NEW w \in Process PROVE ~Reserve(w) /\ ~Unreserve(w) /\ ~ReconcileBlobs
BY ReserveNow, HeldCall DEF Calm, Unreserve, CallAt, ReconcileBlobs

LEMMA ContinueOwn ==
  ASSUME Calm, ~Dedup, OwnInv, NEW w \in Process, Continue(w) PROVE OwnInv'
<1>1. CASE Reserve(w) \/ Unreserve(w)
  BY <1>1, SharedOnly
<1>2. CASE CommitScanFailure(w) \/ CommitInfected(w) \/ CommitClean(w) \/ Release(w)
           \/ JobFails(w) \/ Forget(w)
  BY <1>2, CommitScanFailureOwn, CommitInfectedOwn, CommitCleanOwn, ReleaseOwn, JobFailsOwn, ForgetOwn
<1>3. CASE Erase(w) \/ Complete(w)
  BY <1>3, EraseOwn, CompleteOwn
<1>4. CASE Scan(w) \/ SetAside(w) \/ Write(w) \/ CheckWritten(w) \/ Discard(w)
           \/ FinalizeJob(w) \/ Look(w) \/ EraseUpload(w)
  BY <1>4, ScanOwn, SetAsideOwn, WriteOwn, CheckWrittenOwn, DiscardOwn, FinalizeJobOwn, LookOwn,
     EraseUploadOwn
<1> QED
  BY <1>1, <1>2, <1>3, <1>4 DEF Continue

LEMMA OwnStays == ASSUME Calm, ~Dedup, OwnInv, [Next]_vars PROVE OwnInv'
<1>1. ASSUME NEW o \in Object, Prepare(o) \/ Override(o) \/ Revert(o) \/ Expires(o)
      PROVE  OwnInv'
  BY <1>1, PrepareOwn, OverrideOwn, RevertOwn, ExpiresOwn
<1>2. ASSUME NEW o \in Object, NEW c \in Uploads[o], Upload(o, c) PROVE OwnInv'
  BY <1>2, UploadOwn
<1>3. ASSUME NEW o \in Object, NEW w \in Process,
             \/ Purge(w, o) \/ ClaimJob(w, o) \/ ExpireUpload(w, o)
             \/ \E inline \in Uploads[o] \cup {None} : Finalize(w, o, inline)
      PROVE  OwnInv'
  BY <1>3, PurgeOwn, ClaimJobOwn, ExpireUploadOwn, ClaimOwn DEF Finalize
<1>4. ASSUME NEW w \in Process,
             Continue(w) \/ Fail(w) \/ Crash(w) \/ \E k \in Key : ClaimDeletion(w, k)
      PROVE  OwnInv'
  BY <1>4, ContinueOwn, FailOwn, CrashOwn, ClaimDeletionOwn
<1>5. ASSUME ReconcileBlobs PROVE OwnInv'
  BY <1>5 DEF ReconcileBlobs
<1>6. ASSUME UNCHANGED vars PROVE OwnInv'
  BY <1>6, SteadySame, OwnQuiet DEF vars
<1> QED
  BY <1>1, <1>2, <1>3, <1>4, <1>5, <1>6 DEF Next

LEMMA OwnInit == Init => OwnInv
<1> SUFFICES ASSUME Init PROVE OwnInv
  OBVIOUS
<1>1. version = {} /\ \A w \in Process : worker[w].step = "idle" /\ worker[w].todo = {}
  BY DEF Init, BlobInit, Idle
<1>2. Doomed \cap Used(version) = {} /\ Kept
  BY <1>1 DEF Used, Kept
<1>3. TendedOnce
  BY <1>1 DEF TendedOnce
<1>4. \A w \in Process : Unharmed(worker[w], Doomed, version, bytes) /\ Spent(worker[w], file)
  BY <1>1, IdleUnharmed DEF Spent, Finalizing
<1> QED
  BY <1>2, <1>3, <1>4 DEF OwnInv

-----------------------------------------------------------------------------
(* The bytes of a content, with dedup: what a version, or a finalization   *)
(* on its way to one, counts on is where the row of the content points,    *)
(* and no deletion of it gets past the check.                              *)

\* What a version or a reservation keeps.
Taken(V, res) == Used(V) \cup {res[o].key : o \in Object}
Booking == {"write", "commit", "unreserve"}

BlobBytes == \A k \in Key, c \in Content : BlobKeyOf(c, k) => bytes[k] \in {None, c}
VersionsPointed == \A v \in version : blob[v.content].key = v.key
BlobsTendedOnce == \A k \in Key, w \in Process :
  IsBlobKey(k) /\ k \in worker[w].todo =>
    /\ BeingDeleted(k)
    /\ \A u \in Process : k \in worker[u].todo => u = w

\* Call r, with bytes b: what it reads is what it read, and what it commits is there.
SourceOf(r, b) == IF r.inline # None THEN r.inline ELSE b[r.reserved]
Fed(r, b) ==
  /\ r.step \in {"infected", "quarantine"} /\ r.inline = None => ~IsBlobKey(r.reserved)
  /\ r.step \in {"reserve", "write"} => SourceOf(r, b) \in {None, r.content}
  /\ r.step \in {"reserve", "write", "commit"} /\ r.inline = None /\ IsBlobKey(r.reserved) =>
       BlobKeyOf(r.content, r.reserved)
  /\ r.step = "commit" => b[r.key] = r.content
\* Call r of w, with rows bl and reservations res: the destination is reserved, by
\* nobody but those who count on it.
Booked(w, r, bl, res) ==
  /\ r.step \in {"write", "commit"} =>
       bl[r.content].key = r.key /\ res[r.o].key = r.key /\ w \in res[r.o].holders
  /\ \A o \in Object : w \in res[o].holders => r.o = o /\ r.step \in Booking
\* Call r, with keys T taken: it deletes none of them.
Spares(r, T) ==
  /\ r.step = "erase" /\ IsBlobKey(r.key) => r.key \notin T
  /\ r.step = "expire" => ~IsBlobKey(r.reserved)
Safe(w, r, b, bl, res, V) == Fed(r, b) /\ Booked(w, r, bl, res) /\ Spares(r, Taken(V, res))

SharedInv ==
  /\ BlobBytes /\ VersionsPointed /\ BlobsTendedOnce
  /\ \A w \in Process : Safe(w, worker[w], bytes, blob, reservation, version)
  /\ Kept

LEMMA SharedCall ==
  ASSUME SharedInv, NEW w \in Process
  PROVE  /\ Fed(worker[w], bytes) /\ Booked(w, worker[w], blob, reservation)
         /\ Spares(worker[w], Taken(version, reservation))
BY DEF SharedInv, Safe

LEMMA SharedVersion ==
  ASSUME CountsInv, HeldInv, Dedup, NEW v \in version
  PROVE  /\ v \in Version /\ v.object \in Object /\ v.content \in Content /\ v.key \in Key
         /\ v \in VersionsOf(v.object)
         /\ BlobKeyOf(v.content, v.key) /\ IsBlobKey(v.key)
<1>1. v \in Version
  BY CountsNow
<1>2. v.object \in Object /\ v.content \in Content /\ v.key \in Key /\ v \in VersionsOf(v.object)
  BY <1>1 DEF Version, VersionsOf
<1>3. VersionAt(v)
  BY <1>2, HeldFile
<1> QED
  BY <1>1, <1>2, <1>3, KeyKinds DEF VersionAt

\* The references of a content are its versions.
LEMMA RefsAre ==
  ASSUME CountsInv, HeldInv, Dedup, slipped = {}, NEW c \in Content
  PROVE  /\ blob[c].refs \in Nat
         /\ blob[c].refs = 0 <=> \A v \in version : v.content # c
<1> DEFINE V == VersionsHolding(c, version)
<1>1. blob[c].refs = Cardinality(V)
  BY CountsNow DEF CountsMatch
<1>2. IsFiniteSet(V) /\ Cardinality(V) \in Nat
  BY CountsNow, HoldingFinite
<1>3. Cardinality(V) = 0 <=> V = {}
  BY <1>2, FS_EmptySet
<1>4. V = {} <=> \A v \in version : v.content # c
  BY SharedVersion DEF VersionsHolding
<1> HIDE DEF V
<1> QED
  BY <1>1, <1>2, <1>3, <1>4

LEMMA CallShared ==
  ASSUME CountsInv, HeldInv, Dedup, NEW w \in Process, worker[w].step \in {"write", "commit"}
  PROVE  /\ worker[w].o \in Object /\ WorksOn(w, worker[w].o)
         /\ worker[w].content \in Content /\ worker[w].key \in Key
         /\ BlobKeyOf(worker[w].content, worker[w].key) /\ IsBlobKey(worker[w].key)
<1>1. worker[w].step \in Finalizing
  BY DEF Finalizing
<1>2. Knows(worker[w]) /\ CallFits(worker[w]) /\ worker[w].o \in Object /\ WorksOn(w, worker[w].o)
  BY <1>1, HeldCall, Finalizes
<1> QED
  BY <1>1, <1>2, KeyKinds DEF Knows, CallFits

\* Where the bytes of a finalization were when it claimed the file.
LEMMA SourceKey ==
  ASSUME CountsInv, HeldInv, Dedup, NEW w \in Process, worker[w].step \in Finalizing
  PROVE  /\ worker[w].o \in Object
         /\ \/ worker[w].reserved = OwnKey(worker[w].o, 1)
            \/ \E v \in VersionsOf(worker[w].o) : v.key = worker[w].reserved
<1>1. worker[w].o \in Object /\ Has(w, worker[w], file[worker[w].o])
  BY WorkerKnows
<1> QED
  BY <1>1, HeldFile DEF Has, RowAt

\* Who holds the reservation of a file has the claim of the file.
HoldersOwn == \A w \in Process, o \in Object : w \in reservation[o].holders => file[o].token = w

LEMMA NotHolding ==
  ASSUME SharedInv, NEW w \in Process, worker[w].step \notin Booking
  PROVE  \A o \in Object : w \notin reservation[o].holders
BY SharedCall DEF Booked

\* A call that neither finalizes nor deletes.
LEMMA SafeFree ==
  ASSUME NEW w, NEW r, NEW res, \A o \in Object : w \notin res[o].holders,
         r.step \notin {"infected", "quarantine", "reserve", "write", "commit", "erase", "expire"}
  PROVE  \A b, bl, V : Safe(w, r, b, bl, res, V)
BY DEF Safe, Fed, Booked, Spares

LEMMA FedStays ==
  ASSUME NEW r, NEW b, NEW c, Fed(r, b),
         r.step \in {"reserve", "write"} /\ r.inline = None => c[r.reserved] \in {None, b[r.reserved], r.content},
         r.step = "commit" => c[r.key] = b[r.key]
  PROVE  Fed(r, c)
BY DEF Fed, SourceOf

\* Deletions of shared bytes that are left, or left to nobody new.
BlobsLeft == \A v \in Process, k \in Key :
  IsBlobKey(k) /\ k \in worker'[v].todo => k \in worker[v].todo

LEMMA BlobsOnce ==
  ASSUME SharedInv, BlobsLeft,
         \A v \in Process, k \in Key : IsBlobKey(k) /\ k \in worker'[v].todo =>
           (BeingDeleted(k) => BeingDeleted(k)')
  PROVE  BlobsTendedOnce'
BY DEF SharedInv, BlobsTendedOnce, BlobsLeft

\* Steps that change neither bytes nor versions nor the rows of contents.
LEMMA SharedQuiet ==
  ASSUME Calm, Dedup, SharedInv, UNCHANGED <<version, blob, reservation, bytes>>, BlobsLeft,
         \A k \in Key : BeingDeleted(k) => BeingDeleted(k)',
         \A v \in Process : \/ worker'[v] = worker[v]
                            \/ Safe(v, worker'[v], bytes, blob, reservation, version)
  PROVE  SharedInv'
<1>1. BlobsTendedOnce'
  BY BlobsOnce
<1>2. \A v \in Process : Safe(v, worker'[v], bytes, blob, reservation, version)
  BY DEF SharedInv
<1>3. BlobBytes' /\ VersionsPointed' /\ Kept'
  BY DEF SharedInv, BlobBytes, VersionsPointed, Kept
<1> QED
  BY <1>1, <1>2, <1>3 DEF SharedInv

LEMMA SharedCallGoes ==
  ASSUME Calm, Dedup, SharedInv, UNCHANGED <<version, blob, reservation, bytes>>,
         \A k \in Key : BeingDeleted(k) => BeingDeleted(k)',
         NEW w \in Process, \A v \in Process \ {w} : worker'[v] = worker[v],
         worker'[w].todo \subseteq worker[w].todo,
         Safe(w, worker'[w], bytes, blob, reservation, version)
  PROVE  SharedInv'
BY SharedQuiet DEF BlobsLeft

\* The call is done with what it did.
LEMMA SharedCallFree ==
  ASSUME Calm, Dedup, SharedInv, UNCHANGED <<version, blob, reservation, bytes>>,
         \A k \in Key : BeingDeleted(k) => BeingDeleted(k)',
         NEW w \in Process, \A v \in Process \ {w} : worker'[v] = worker[v],
         worker'[w].todo \subseteq worker[w].todo, worker[w].step \notin Booking,
         worker'[w].step \notin {"infected", "quarantine", "reserve", "write", "commit", "erase", "expire"}
  PROVE  SharedInv'
BY NotHolding, SafeFree, SharedCallGoes

LEMMA QueueSame == ASSUME UNCHANGED deletion PROVE \A k \in Key : BeingDeleted(k) <=> BeingDeleted(k)'
BY DEF BeingDeleted

-----------------------------------------------------------------------------
(* Steps of one call that leave bytes and rows of contents alone.          *)

LEMMA UndoShared ==
  ASSUME Calm, Dedup, SharedInv, UNCHANGED <<version, blob, reservation, bytes, deletion>>,
         NEW w \in Process, worker[w].step \in Finalizing, Goes(w, UndoStep(w))
  PROVE  SharedInv'
<1> DEFINE r == worker[w]
           q == worker'[w]
<1>1. q.step = UndoStep(w) /\ Alike(q, r) /\ \A v \in Process \ {w} : worker'[v] = worker[v]
  BY GoesNow DEF Calm
<1>2. q.step \in {"unreserve", "check", "release"} /\ (r.step \in {"write", "commit"} => q.step = "unreserve")
  BY <1>1 DEF UndoStep
<1>3. Booked(w, r, blob, reservation) /\ (r.step \in Booking => r.step \in {"write", "commit"})
  BY SharedCall DEF Booking, Finalizing
<1> HIDE DEF r, q
<1>4. Booked(w, q, blob, reservation)
  BY <1>1, <1>2, <1>3 DEF Booked, Booking, Alike
<1>5. Safe(w, q, bytes, blob, reservation, version)
  BY <1>2, <1>4 DEF Safe, Fed, Spares
<1> QED
  BY <1>1, <1>5, QueueSame, SharedCallGoes DEF Alike, r, q

LEMMA FailShared == ASSUME Calm, Dedup, SharedInv, NEW w \in Process, Fail(w) PROVE SharedInv'
BY UndoShared DEF Fail, blobVars

LEMMA ScanShared == ASSUME Calm, Dedup, SharedInv, NEW w \in Process, Scan(w) PROVE SharedInv'
<1> DEFINE r == worker[w]
           q == worker'[w]
<1>1. /\ r.step = "scan" /\ Kin(q, r)
      /\ \A v \in Process \ {w} : worker'[v] = worker[v]
      /\ UNCHANGED <<version, blob, reservation, bytes, deletion>>
  BY ScanNow DEF Calm, blobVars
<1>2. r.step \in Finalizing /\ r.step \in Undoes /\ r.step \notin Booking
  BY <1>1 DEF Finalizing, Undoes, Booking
<1>3. CASE Goes(w, UndoStep(w))
  BY <1>1, <1>2, <1>3, UndoShared
<1>4. CASE ~Goes(w, UndoStep(w))
  <2>1. /\ q.content = Source(w) /\ Source(w) # None
        /\ \/ q.step = "unscanned"
           \/ q.step = "infected" /\ Source(w) \in Infected
           \/ q.step = "reserve"
    BY <1>4, ScanNow DEF Calm
  <2>2. SourceOf(r, bytes) = Source(w)
    BY DEF SourceOf, Source
  <2>3. ASSUME r.inline = None, IsBlobKey(r.reserved)
        PROVE  BlobKeyOf(Source(w), r.reserved) /\ Source(w) \notin Infected
    <3>1. PICK v \in VersionsOf(r.o) : v.key = r.reserved
      BY <1>2, <2>3, SourceKey, KeyKinds DEF Calm
    <3>2. v \in version
      BY DEF VersionsOf
    <3>3. BlobKeyOf(v.content, v.key) /\ bytes[v.key] = v.content /\ v.content \notin Infected
      BY <3>2, SharedVersion DEF Calm, SharedInv, Kept, CountsInv, HistoryInv, Inv, Clean
    <3> QED
      BY <2>3, <3>1, <3>3 DEF Source
  <2>4. \A o \in Object : w \notin reservation[o].holders
    BY <1>2, NotHolding
  <2>5. SourceOf(q, bytes) = SourceOf(r, bytes)
    BY <1>1 DEF SourceOf, Kin
  <2> HIDE DEF r, q
  <2>6. Fed(q, bytes)
    BY <1>1, <2>1, <2>2, <2>3, <2>5 DEF Fed, Kin
  <2>7. Booked(w, q, blob, reservation) /\ Spares(q, Taken(version, reservation))
    BY <2>1, <2>4 DEF Booked, Spares
  <2> QED
    BY <1>1, <2>6, <2>7, QueueSame, SharedCallGoes DEF Safe, Kin, r, q
<1> QED
  BY <1>3, <1>4

LEMMA ClaimShared ==
  ASSUME Calm, Dedup, SharedInv, NEW w \in Process, NEW o \in Object,
         NEW retry, NEW inline, Claim(w, o, retry, inline), worker[w].step \in {"idle", "job"}
  PROVE  SharedInv'
<1>1. /\ worker'[w].step = "scan" /\ worker'[w].todo = {}
      /\ \A v \in Process \ {w} : worker'[v] = worker[v]
      /\ UNCHANGED <<version, blob, reservation, bytes, deletion>>
  BY ClaimNow DEF Calm, blobVars
<1> QED
  BY <1>1, QueueSame, SharedCallFree DEF Booking

LEMMA CommitScanFailureShared ==
  ASSUME Calm, Dedup, SharedInv, NEW w \in Process, NEW o, o = worker[w].o, CommitScanFailure(w)
  PROVE  SharedInv'
<1>1. /\ worker[w].step = "unscanned"
      /\ worker'[w].step \in {"idle", "jobfail", "release"} /\ worker'[w].todo \subseteq worker[w].todo
      /\ \A v \in Process \ {w} : worker'[v] = worker[v]
      /\ UNCHANGED <<version, blob, reservation, bytes, deletion>>
  BY CommitScanFailureNow DEF Calm, blobVars
<1> QED
  BY <1>1, QueueSame, SharedCallFree DEF Booking

LEMMA ReleaseShared ==
  ASSUME Calm, Dedup, SharedInv, NEW w \in Process, NEW o, o = worker[w].o, Release(w)
  PROVE  SharedInv'
<1>1. /\ worker[w].step = "release"
      /\ worker'[w].step \in {"idle", "jobfail"} /\ worker'[w].todo \subseteq worker[w].todo
      /\ \A v \in Process \ {w} : worker'[v] = worker[v]
      /\ UNCHANGED <<version, blob, reservation, bytes, deletion>>
  BY ReleaseNow DEF Calm, blobVars
<1> QED
  BY <1>1, QueueSame, SharedCallFree DEF Booking

LEMMA CheckWrittenShared ==
  ASSUME Calm, Dedup, SharedInv, NEW w \in Process, CheckWritten(w) PROVE SharedInv'
<1>1. worker[w].step = "check" /\ UNCHANGED <<version, blob, reservation, bytes, deletion>>
  BY DEF CheckWritten, blobVars
<1>2. /\ worker'[w].step \in {"release", "discard"} /\ worker'[w].todo \subseteq worker[w].todo
      /\ \A v \in Process \ {w} : worker'[v] = worker[v]
  BY GoesNow DEF CheckWritten, Calm, Alike
<1> QED
  BY <1>1, <1>2, QueueSame, SharedCallFree DEF Booking

LEMMA ClaimJobShared ==
  ASSUME Calm, Dedup, SharedInv, NEW w \in Process, NEW o \in Object, ClaimJob(w, o) PROVE SharedInv'
<1>1. /\ worker'[w].step = "job" /\ worker'[w].todo = {}
      /\ \A v \in Process \ {w} : worker'[v] = worker[v]
      /\ UNCHANGED <<version, blob, reservation, bytes, deletion>>
  BY ClaimJobNow DEF Calm, blobVars
<1>2. worker[w].step = "idle"
  BY DEF ClaimJob
<1> QED
  BY <1>1, <1>2, QueueSame, SharedCallFree DEF Booking

LEMMA FinalizeJobShared ==
  ASSUME Calm, Dedup, SharedInv, NEW w \in Process, FinalizeJob(w) PROVE SharedInv'
<1>1. worker[w].o \in Object /\ worker[w].step = "job"
  BY HeldCall DEF FinalizeJob, Calm
<1>2. CASE Claim(w, worker[w].o, TRUE, None)
  BY <1>1, <1>2, ClaimShared
<1>3. CASE Goes(w, "jobfail") /\ UNCHANGED <<blobVars, file, job>>
  <2>1. /\ worker'[w].step = "jobfail" /\ worker'[w].todo \subseteq worker[w].todo
        /\ \A v \in Process \ {w} : worker'[v] = worker[v]
    BY <1>3, GoesNow DEF Calm, Alike
  <2> QED
    BY <1>1, <1>3, <2>1, QueueSame, SharedCallFree DEF blobVars, Booking
<1> QED
  BY <1>2, <1>3 DEF FinalizeJob

LEMMA JobFailsShared ==
  ASSUME Calm, Dedup, SharedInv, NEW w \in Process, NEW o, o = worker[w].o, JobFails(w)
  PROVE  SharedInv'
<1>1. /\ worker'[w].step = "idle" /\ worker'[w].todo = {}
      /\ \A v \in Process \ {w} : worker'[v] = worker[v]
      /\ UNCHANGED <<version, blob, reservation, bytes, deletion>>
  BY JobFailsNow DEF Calm, blobVars
<1>2. worker[w].step = "jobfail"
  BY DEF JobFails
<1> QED
  BY <1>1, <1>2, QueueSame, SharedCallFree DEF Booking

LEMMA StillShared ==
  ASSUME Calm, Dedup, SharedInv, UNCHANGED <<version, blob, reservation, bytes, deletion, worker>>
  PROVE  SharedInv'
BY QueueSame, SharedQuiet DEF BlobsLeft

LEMMA ExpireUploadShared ==
  ASSUME Calm, Dedup, SharedInv, NEW w \in Process, NEW o \in Object, ExpireUpload(w, o)
  PROVE  SharedInv'
<1> DEFINE q == worker'[w]
<1>1. /\ file[o].status \in Unscanned
           \/ (file[o].status = "scan_processing" /\ file[o].previous = "pending_upload")
      /\ q.step = "expire" /\ q.todo = {} /\ q.reserved = file[o].key
      /\ \A v \in Process \ {w} : worker'[v] = worker[v]
      /\ UNCHANGED <<version, blob, reservation, bytes, deletion>>
  BY ExpireUploadNow DEF Calm, blobVars
<1>2. VersionsOf(o) = {}
  BY <1>1, HeldFile DEF Calm, Unscanned, GoodRow, CanBe, Returns
<1>3. file[o].key = OwnKey(o, 1)
  BY <1>1, <1>2, HeldFile DEF Calm, Unscanned, RowAt
<1>4. worker[w].step = "idle"
  BY DEF ExpireUpload
<1>5. \A p \in Object : w \notin reservation[p].holders
  BY <1>4, NotHolding DEF Booking
<1>6. Safe(w, q, bytes, blob, reservation, version)
  BY <1>1, <1>3, <1>5, KeyKinds DEF Safe, Fed, Booked, Spares
<1> QED
  BY <1>1, <1>6, QueueSame, SharedCallGoes

LEMMA LookShared == ASSUME Calm, Dedup, SharedInv, NEW w \in Process, Look(w) PROVE SharedInv'
<1> DEFINE q == worker'[w]
<1>1. /\ worker[w].step = "look" /\ q.todo = worker[w].todo
      /\ q.kept = (IsBlobKey(q.key) /\ Referenced(q.key))
      /\ q.step = IF q.kept THEN "complete" ELSE "erase"
      /\ \A v \in Process \ {w} : worker'[v] = worker[v]
      /\ UNCHANGED <<version, blob, reservation, bytes, deletion>>
  BY LookNow DEF Calm, blobVars
<1>2. \A p \in Object : w \notin reservation[p].holders
  BY <1>1, NotHolding DEF Booking
<1>3. ASSUME NEW k \in Taken(version, reservation) PROVE Referenced(k)
  <2>1. CASE \E o \in Object : k = reservation[o].key
    BY <2>1 DEF Referenced
  <2>2. CASE k \in Used(version)
    <3>1. PICK v \in version : k = v.key
      BY <2>2 DEF Used
    <3>2. v.content \in Content /\ blob[v.content].key = k
      BY <3>1, SharedVersion DEF Calm, SharedInv, VersionsPointed
    <3>3. blob[v.content].refs > 0
      BY <3>1, <3>2, RefsAre DEF Calm
    <3> QED
      BY <3>2, <3>3 DEF Referenced
  <2> QED
    BY <1>3, <2>1, <2>2 DEF Taken
<1>4. Safe(w, q, bytes, blob, reservation, version)
  BY <1>1, <1>2, <1>3 DEF Safe, Fed, Booked, Spares
<1> QED
  BY <1>1, <1>4, QueueSame, SharedCallGoes

-----------------------------------------------------------------------------
(* Steps that write or delete bytes.                                       *)

LEMMA SharedBytes ==
  ASSUME Calm, Dedup, SharedInv, UNCHANGED <<version, blob, reservation, deletion>>,
         NEW k \in Key, NEW c, bytes' = [bytes EXCEPT ![k] = c],
         \A d \in Content : BlobKeyOf(d, k) => c \in {None, d},
         IsBlobKey(k) /\ k \in Taken(version, reservation) => c # None,
         ~IsBlobKey(k) => \/ c = None
                          \/ \A v \in Process : worker[v].step \in Finalizing => worker[v].reserved # k,
         BlobsLeft,
         \A v \in Process : \/ worker'[v] = worker[v]
                            \/ Safe(v, worker'[v], bytes', blob, reservation, version)
  PROVE  SharedInv'
<1>1. bytes'[k] = c /\ \A j \in Key : j # k => bytes'[j] = bytes[j]
  BY OwnByte
<1>2. BlobBytes'
  <2>1. ASSUME NEW j \in Key, NEW d \in Content, BlobKeyOf(d, j) PROVE bytes'[j] \in {None, d}
    BY <1>1, <2>1 DEF SharedInv, BlobBytes
  <2> QED
    BY <2>1 DEF BlobBytes, BlobKeyOf, BlobKey
<1>3. Kept'
  <2>1. ASSUME NEW v \in version PROVE bytes'[v.key] = v.content
    <3>1. v.key \in Key /\ v.content \in Content /\ BlobKeyOf(v.content, v.key) /\ IsBlobKey(v.key)
          /\ bytes[v.key] = v.content
      BY SharedVersion DEF Calm, SharedInv, Kept
    <3>2. v.key \in Taken(version, reservation)
      BY DEF Taken, Used
    <3> QED
      BY <1>1, <3>1, <3>2
  <2> QED
    BY <2>1 DEF Kept
<1>4. BlobsTendedOnce'
  BY QueueSame, BlobsOnce DEF BeingDeleted
<1>5. VersionsPointed'
  BY DEF SharedInv, VersionsPointed
<1>6. ASSUME NEW v \in Process
      PROVE  Safe(v, worker'[v], bytes', blob, reservation, version)
  <2>1. CASE worker'[v] = worker[v]
    <3> DEFINE r == worker[v]
    <3>1. Fed(r, bytes) /\ Booked(v, r, blob, reservation) /\ Spares(r, Taken(version, reservation))
      BY <1>6, SharedCall
    <3>2. ASSUME r.step = "commit" PROVE bytes'[r.key] = bytes[r.key]
      <4>1. r.o \in Object /\ r.content \in Content /\ r.key \in Key
            /\ BlobKeyOf(r.content, r.key) /\ IsBlobKey(r.key)
        BY <1>6, <3>2, CallShared DEF Calm
      <4>2. r.key \in Taken(version, reservation) /\ bytes[r.key] = r.content
        BY <3>1, <3>2, <4>1 DEF Booked, Fed, Taken
      <4> QED
        BY <1>1, <4>1, <4>2
    <3>3. ASSUME r.step \in {"reserve", "write"}, r.inline = None
          PROVE  bytes'[r.reserved] \in {None, bytes[r.reserved], r.content}
      <4>1. r.step \in Finalizing
        BY <3>3 DEF Finalizing
      <4>2. r.reserved \in Key /\ r.content \in Content
        BY <1>6, <4>1, <3>3, WorkerKnows DEF Calm
      <4>3. CASE r.reserved # k
        BY <1>1, <4>2, <4>3
      <4>4. CASE r.reserved = k /\ IsBlobKey(k)
        BY <1>1, <3>1, <3>3, <4>2, <4>4 DEF Fed
      <4>5. CASE r.reserved = k /\ ~IsBlobKey(k)
        BY <1>1, <1>6, <4>1, <4>5
      <4> QED
        BY <4>3, <4>4, <4>5
    <3>4. Fed(r, bytes')
      BY <3>1, <3>2, <3>3, FedStays
    <3> QED
      BY <2>1, <3>1, <3>4 DEF Safe
  <2> QED
    BY <1>6, <2>1
<1> QED
  BY <1>2, <1>3, <1>4, <1>5, <1>6 DEF SharedInv

LEMMA SetAsideShared == ASSUME Calm, Dedup, SharedInv, NEW w \in Process, SetAside(w) PROVE SharedInv'
<1> DEFINE r == worker[w]
           q == worker'[w]
<1>1. /\ r.step = "infected" /\ q.step = "quarantine" /\ Kin(q, r)
      /\ \A v \in Process \ {w} : worker'[v] = worker[v]
      /\ UNCHANGED <<version, blob, reservation, deletion>>
  BY SetAsideNow DEF Calm
<1>2. r.step \in Finalizing /\ r.step \notin Booking
  BY <1>1 DEF Finalizing, Booking
<1>3. \A p \in Object : w \notin reservation[p].holders
  BY <1>2, NotHolding
<1>4. r.inline = None => ~IsBlobKey(r.reserved)
  BY <1>1, SharedCall DEF Fed
<1>5. \A b : Safe(w, q, b, blob, reservation, version)
  BY <1>1, <1>3, <1>4 DEF Safe, Fed, Booked, Spares, Kin
<1>6. CASE UNCHANGED bytes
  BY <1>1, <1>5, <1>6, QueueSame, SharedCallGoes DEF Kin
<1>7. CASE bytes' = [bytes EXCEPT ![QuarantineKey(r.o)] = Source(w)]
  <2>1. r.o \in Object
    BY <1>2, SourceKey DEF Calm
  <2> DEFINE k == QuarantineKey(r.o)
  <2>2. k \in Key /\ ~IsBlobKey(k) /\ \A d : ~BlobKeyOf(d, k)
    BY <2>1, KeyKinds DEF Key
  <2>3. ASSUME NEW v \in Process, worker[v].step \in Finalizing PROVE worker[v].reserved # k
    <3>1. OwnKey(worker[v].o, 1) # k
      BY DEF OwnKey, QuarantineKey
    <3>2. \A u \in VersionsOf(worker[v].o) : IsBlobKey(u.key)
      BY SharedVersion DEF Calm, VersionsOf
    <3> QED
      BY <2>2, <2>3, <3>1, <3>2, SourceKey DEF Calm
  <2>4. BlobsLeft
    BY <1>1 DEF BlobsLeft, Kin
  <2>5. bytes' = [bytes EXCEPT ![k] = Source(w)]
    BY <1>7
  <2> HIDE DEF k, r, q
  <2> QED
    BY <1>1, <1>5, <2>2, <2>3, <2>4, <2>5, SharedBytes DEF q
<1> QED
  BY <1>6, <1>7, SetAsideNow DEF Calm

LEMMA UploadShared ==
  ASSUME Calm, Dedup, SharedInv, NEW o \in Object, NEW c, Upload(o, c) PROVE SharedInv'
<1> DEFINE k == file[o].key
<1>1. /\ file[o].status = "pending_upload"
      /\ bytes' = [bytes EXCEPT ![k] = c]
      /\ UNCHANGED <<version, blob, reservation, deletion, worker>>
  BY DEF Upload
<1>2. VersionsOf(o) = {} /\ k \in Key
  BY <1>1, HeldFile DEF Calm, GoodRow, CanBe, File
<1>3. k = OwnKey(o, 1)
  BY <1>1, <1>2, HeldFile DEF Calm, RowAt
<1>4. ~IsBlobKey(k) /\ \A d : ~BlobKeyOf(d, k)
  BY <1>3, KeyKinds
<1>5. ASSUME NEW v \in Process, worker[v].step \in Finalizing PROVE worker[v].reserved # k
  <2>1. worker[v].o # o
    BY <1>1, <1>5, NobodyWorks, Finalizes DEF Calm
  <2>2. OwnKey(worker[v].o, 1) # k
    BY <1>3, <2>1 DEF OwnKey
  <2>3. \A u \in VersionsOf(worker[v].o) : IsBlobKey(u.key)
    BY SharedVersion DEF Calm, VersionsOf
  <2> QED
    BY <1>4, <1>5, <2>2, <2>3, SourceKey DEF Calm
<1>6. BlobsLeft
  BY <1>1 DEF BlobsLeft
<1> HIDE DEF k
<1> QED
  BY <1>1, <1>2, <1>4, <1>5, <1>6, SharedBytes

LEMMA WriteShared == ASSUME Calm, Dedup, SharedInv, NEW w \in Process, Write(w) PROVE SharedInv'
<1> DEFINE r == worker[w]
           q == worker'[w]
<1>1. r.step = "write" /\ UNCHANGED <<version, blob, reservation, deletion>>
  BY WriteNow DEF Calm
<1>2. r.step \in Finalizing
  BY <1>1 DEF Finalizing
<1>3. CASE Goes(w, UndoStep(w)) /\ UNCHANGED bytes
  BY <1>1, <1>2, <1>3, UndoShared
<1>4. CASE ~(Goes(w, UndoStep(w)) /\ UNCHANGED bytes)
  <2>1. /\ q.step = "commit" /\ Kin(q, r) /\ q.content = r.content /\ q.key = r.key
        /\ \A v \in Process \ {w} : worker'[v] = worker[v]
        /\ Source(w) # None
        /\ bytes' = [bytes EXCEPT ![r.key] = Source(w)]
    BY <1>4, WriteNow DEF Calm
  <2>2. /\ r.content \in Content /\ r.key \in Key /\ BlobKeyOf(r.content, r.key) /\ IsBlobKey(r.key)
    BY <1>1, CallShared DEF Calm
  <2>3. Fed(r, bytes) /\ Booked(w, r, blob, reservation)
    BY SharedCall
  <2>4. SourceOf(r, bytes) = Source(w)
    BY DEF SourceOf, Source
  <2>5. Source(w) = r.content
    BY <1>1, <2>1, <2>3, <2>4 DEF Fed
  <2>6. bytes'[r.key] = r.content
    BY <2>1, <2>2, <2>5, OwnByte
  <2>7. \A d \in Content : BlobKeyOf(d, r.key) => Source(w) = d
    BY <2>2, <2>5, KeyKinds
  <2>8. BlobsLeft
    BY <2>1 DEF BlobsLeft, Kin
  <2> HIDE DEF r, q
  <2>9. Fed(q, bytes')
    BY <1>1, <2>1, <2>3, <2>6 DEF Fed, Kin
  <2>10. Booked(w, q, blob, reservation) /\ Spares(q, Taken(version, reservation))
    BY <1>1, <2>1, <2>3 DEF Booked, Booking, Spares, Kin
  <2>11. Safe(w, q, bytes', blob, reservation, version)
    BY <2>9, <2>10 DEF Safe
  <2> QED
    BY <1>1, <2>1, <2>2, <2>7, <2>8, <2>11, SharedBytes DEF q
<1> QED
  BY <1>3, <1>4

\* The end of a step that deletes the bytes at a key that nobody needs.
LEMMA SharedErase ==
  ASSUME Calm, Dedup, SharedInv, UNCHANGED <<version, blob, reservation, deletion>>,
         NEW w \in Process, NEW k \in Key, IsBlobKey(k) => k \notin Taken(version, reservation),
         bytes' = [bytes EXCEPT ![k] = None],
         \A v \in Process \ {w} : worker'[v] = worker[v],
         worker'[w].todo \subseteq worker[w].todo, worker[w].step \notin Booking,
         worker'[w].step \notin {"infected", "quarantine", "reserve", "write", "commit", "erase", "expire"}
  PROVE  SharedInv'
<1>1. Safe(w, worker'[w], bytes', blob, reservation, version)
  BY NotHolding, SafeFree
<1>2. BlobsLeft
  BY DEF BlobsLeft
<1> QED
  BY <1>1, <1>2, SharedBytes

LEMMA EraseUploadShared ==
  ASSUME Calm, Dedup, SharedInv, NEW w \in Process, NEW k, k = worker[w].reserved, EraseUpload(w)
  PROVE  SharedInv'
<1>1. worker[w].step = "expire" /\ UNCHANGED <<version, blob, reservation, deletion>>
  BY DEF EraseUpload
<1>2. k \in Key /\ ~IsBlobKey(k)
  BY <1>1, HeldCall, SharedCall DEF Calm, Knows, Spares
<1>3. CASE Ends(w) /\ UNCHANGED bytes
  BY <1>1, <1>3, EndsNow, QueueSame, SharedCallFree DEF Calm, Booking
<1>4. CASE bytes' = [bytes EXCEPT ![k] = None] /\ Goes(w, "forget")
  <2>1. /\ worker'[w].step = "forget" /\ worker'[w].todo \subseteq worker[w].todo
        /\ \A v \in Process \ {w} : worker'[v] = worker[v]
    BY <1>4, GoesNow DEF Calm, Alike
  <2> QED
    BY <1>1, <1>2, <1>4, <2>1, SharedErase DEF Booking
<1> QED
  BY <1>3, <1>4 DEF EraseUpload

LEMMA DiscardShared ==
  ASSUME Calm, Dedup, SharedInv, NEW w \in Process, NEW k, k = worker[w].wrote, Discard(w)
  PROVE  SharedInv'
<1>1. worker[w].step = "discard" /\ UNCHANGED <<version, blob, reservation>>
  BY DEF Discard
<1>2. k \in Key /\ ~IsBlobKey(k)
  BY <1>1, HeldCall, KeyKinds DEF Calm, Knows, CallAt
<1>3. /\ worker'[w].step = "release" /\ worker'[w].todo \subseteq worker[w].todo
      /\ \A v \in Process \ {w} : worker'[v] = worker[v]
  BY GoesNow DEF Discard, Calm, Alike
<1>4. CASE bytes' = [bytes EXCEPT ![k] = None] /\ UNCHANGED deletion
  BY <1>1, <1>2, <1>3, <1>4, SharedErase DEF Booking
<1>5. CASE deletion' = Queued({k}) /\ UNCHANGED bytes
  <2>1. \A j \in Key : BeingDeleted(j) => BeingDeleted(j)'
    BY <1>2, <1>5, QueuedDoomed
  <2> QED
    BY <1>1, <1>3, <1>5, <2>1, SharedCallFree DEF Booking
<1> QED
  BY <1>4, <1>5 DEF Discard

-----------------------------------------------------------------------------
(* Steps that change reservations, rows of contents or shared deletions.   *)

LEMMA SharedRows ==
  ASSUME Calm, Dedup, SharedInv, UNCHANGED bytes, VersionsPointed', BlobsTendedOnce', Kept',
         \A v \in Process :
           \/ /\ worker'[v] = worker[v]
              /\ worker[v].step \in {"write", "commit"} =>
                   /\ blob'[worker[v].content].key = blob[worker[v].content].key
                   /\ reservation'[worker[v].o].key = reservation[worker[v].o].key
                   /\ v \in reservation'[worker[v].o].holders
              /\ \A p \in Object : v \in reservation'[p].holders => v \in reservation[p].holders
              /\ worker[v].step = "erase" /\ IsBlobKey(worker[v].key)
                   /\ worker[v].key \in Taken(version', reservation') =>
                 worker[v].key \in Taken(version, reservation)
           \/ Safe(v, worker'[v], bytes, blob', reservation', version')
  PROVE  SharedInv'
<1>1. BlobBytes'
  BY DEF SharedInv, BlobBytes
<1>2. ASSUME NEW v \in Process PROVE Safe(v, worker'[v], bytes', blob', reservation', version')
  <2>1. CASE Safe(v, worker'[v], bytes, blob', reservation', version')
    BY <2>1
  <2>2. CASE ~Safe(v, worker'[v], bytes, blob', reservation', version')
    <3> DEFINE r == worker[v]
    <3>1. /\ worker'[v] = r
          /\ r.step \in {"write", "commit"} =>
                   /\ blob'[r.content].key = blob[r.content].key
                   /\ reservation'[r.o].key = reservation[r.o].key
                   /\ v \in reservation'[r.o].holders
          /\ \A p \in Object : v \in reservation'[p].holders => v \in reservation[p].holders
          /\ r.step = "erase" /\ IsBlobKey(r.key) /\ r.key \in Taken(version', reservation') =>
                 r.key \in Taken(version, reservation)
      BY <1>2, <2>2
    <3>2. Fed(r, bytes) /\ Booked(v, r, blob, reservation) /\ Spares(r, Taken(version, reservation))
      BY <1>2, SharedCall
    <3> HIDE DEF r
    <3>3. Booked(v, r, blob', reservation')
      BY <3>1, <3>2 DEF Booked
    <3>4. Spares(r, Taken(version', reservation'))
      BY <3>1, <3>2 DEF Spares
    <3> QED
      BY <3>1, <3>2, <3>3, <3>4 DEF Safe
  <2> QED
    BY <2>1, <2>2
<1> QED
  BY <1>1, <1>2 DEF SharedInv

\* No key of the store is none.
LEMMA EraseKey ==
  ASSUME CountsInv, HeldInv, NEW w \in Process, worker[w].step = "erase"
  PROVE  worker[w].key \in Key /\ worker[w].key # None /\ worker[w].key \in worker[w].todo
BY HeldCall, DriveKeyAssumption DEF Knows, CallAt

\* Reservations that are given up.
LEMMA SharedDrops ==
  ASSUME Calm, Dedup, SharedInv, UNCHANGED <<version, blob, bytes, deletion>>,
         \A p \in Object : /\ reservation'[p].key \in {None, reservation[p].key}
                           /\ reservation'[p].holders \subseteq reservation[p].holders,
         \A v \in Process :
           \/ /\ worker'[v] = worker[v]
              /\ worker[v].step \in {"write", "commit"} =>
                   /\ reservation'[worker[v].o].key = reservation[worker[v].o].key
                   /\ v \in reservation'[worker[v].o].holders
           \/ /\ worker'[v].step \notin {"infected", "quarantine", "reserve", "write", "commit",
                                         "erase", "expire"}
              /\ worker'[v].todo \subseteq worker[v].todo
              /\ \A p \in Object : v \notin reservation'[p].holders
  PROVE  SharedInv'
<1>1. VersionsPointed' /\ Kept'
  BY DEF SharedInv, VersionsPointed, Kept
<1>2. BlobsTendedOnce'
  BY QueueSame, BlobsOnce DEF BlobsLeft
<1>3. ASSUME NEW k \in Taken(version', reservation'), k # None PROVE k \in Taken(version, reservation)
  BY <1>3 DEF Taken
<1>4. \A v \in Process : worker[v].step = "erase" => worker[v].key # None
  BY EraseKey DEF Calm
<1>5. ASSUME NEW v \in Process,
             worker'[v].step \notin {"infected", "quarantine", "reserve", "write", "commit",
                                     "erase", "expire"},
             \A p \in Object : v \notin reservation'[p].holders
      PROVE  Safe(v, worker'[v], bytes, blob', reservation', version')
  BY <1>5, SafeFree
<1> QED
  BY <1>1, <1>2, <1>3, <1>4, <1>5, SharedRows

LEMMA ReservationIs ==
  ASSUME CountsInv
  PROVE  /\ reservation \in [Object -> Reservation]
         /\ NoReservation.key = None /\ NoReservation.holders = {}
BY DEF CountsInv, HistoryInv, Inv, TypeOK, BlobTypeOK, NoReservation

LEMMA DropNow ==
  ASSUME CountsInv, NEW o \in Object, reservation' = [reservation EXCEPT ![o] = NoReservation]
  PROVE  /\ reservation'[o].key = None /\ reservation'[o].holders = {}
         /\ \A p \in Object \ {o} : reservation'[p] = reservation[p]
<1> HIDE DEF NoReservation
<1> QED
  BY ReservationIs

LEMMA UnreserveShared ==
  ASSUME Calm, Dedup, SharedInv, HoldersOwn,
         NEW w \in Process, NEW o, o = worker[w].o, Unreserve(w)
  PROVE  SharedInv'
<1>1. /\ worker[w].step = "unreserve" /\ reservation' = Unreserved(o, w)
      /\ UNCHANGED <<version, blob, bytes, deletion>>
  BY DEF Unreserve
<1>2. worker[w].step \in Undoes
  BY <1>1 DEF Undoes, Undoing
<1>3. /\ worker'[w].step \in {"check", "release"} /\ worker'[w].todo \subseteq worker[w].todo
      /\ \A v \in Process \ {w} : worker'[v] = worker[v]
  BY GoesNow DEF Unreserve, Calm, Alike
<1>4. o \in Object
  BY <1>2, HeldCall DEF Calm
<1>5. ASSUME w \in reservation[o].holders PROVE \A v \in Process \ {w} : ~WorksOn(v, o)
  BY <1>2, <1>4, <1>5, WorkerHolds DEF Calm, HoldersOwn, WorksOn
<1>6. \A p \in Object \ {o} : w \notin reservation[p].holders
  BY SharedCall DEF Booked
<1>7. CASE w \in reservation[o].holders
  <2>1. reservation' = [reservation EXCEPT ![o] = NoReservation]
    BY <1>1, <1>7 DEF Unreserved
  <2>2. /\ reservation'[o].key = None /\ reservation'[o].holders = {}
        /\ \A p \in Object \ {o} : reservation'[p] = reservation[p]
    BY <1>4, <2>1, DropNow DEF Calm
  <2>3. ASSUME NEW v \in Process \ {w}, worker[v].step \in {"write", "commit"}
        PROVE  reservation'[worker[v].o] = reservation[worker[v].o] /\ v \in reservation[worker[v].o].holders
    <3>1. worker[v].o \in Object /\ WorksOn(v, worker[v].o)
      BY <2>3, CallShared DEF Calm
    <3> QED
      BY <1>5, <1>7, <2>2, <2>3, <3>1, SharedCall DEF WorksOn, Booked
  <2> QED
    BY <1>1, <1>3, <1>6, <2>2, <2>3, SharedDrops
<1>8. CASE w \notin reservation[o].holders
  <2>1. UNCHANGED reservation
    BY <1>1, <1>8 DEF Unreserved
  <2>2. ASSUME NEW v \in Process, worker[v].step \in {"write", "commit"}
        PROVE  v \in reservation[worker[v].o].holders
    BY <2>2, SharedCall DEF Booked
  <2> QED
    BY <1>1, <1>3, <1>6, <1>8, <2>1, <2>2, SharedDrops
<1> QED
  BY <1>7, <1>8

LEMMA CrashShared == ASSUME Calm, Dedup, SharedInv, NEW w \in Process, Crash(w) PROVE SharedInv'
<1>1. /\ worker'[w].step = "idle" /\ worker'[w].todo = {}
      /\ \A v \in Process \ {w} : worker'[v] = worker[v]
      /\ reservation' = [o \in Object |-> [reservation[o] EXCEPT !.holders = @ \ {w}]]
      /\ UNCHANGED <<version, blob, bytes, deletion>>
  BY EndsNow DEF Calm, Crash
<1>2. ASSUME NEW p \in Object
      PROVE  /\ reservation'[p].key = reservation[p].key
             /\ reservation'[p].holders = reservation[p].holders \ {w}
  BY <1>1, ReservationIs DEF Calm, Reservation
<1>3. ASSUME NEW v \in Process \ {w}, worker[v].step \in {"write", "commit"}
      PROVE  worker[v].o \in Object /\ v \in reservation[worker[v].o].holders
  BY <1>3, CallShared, SharedCall DEF Calm, Booked
<1> QED
  BY <1>1, <1>2, <1>3, SharedDrops

LEMMA ExpiresShared == ASSUME Calm, Dedup, SharedInv, NEW o \in Object, Expires(o) PROVE SharedInv'
<1>1. /\ reservation[o].holders = {} /\ reservation' = [reservation EXCEPT ![o] = NoReservation]
      /\ UNCHANGED <<version, blob, bytes, deletion, worker>>
  BY DEF Expires, ReservationExpires
<1>2. /\ reservation'[o].key = None /\ reservation'[o].holders = {}
      /\ \A p \in Object \ {o} : reservation'[p] = reservation[p]
  BY <1>1, DropNow DEF Calm
<1>3. ASSUME NEW v \in Process, worker[v].step \in {"write", "commit"}
      PROVE  worker[v].o \in Object \ {o} /\ v \in reservation[worker[v].o].holders
  BY <1>1, <1>3, CallShared, SharedCall DEF Calm, Booked
<1> QED
  BY <1>1, <1>2, <1>3, SharedDrops

LEMMA ForgetShared ==
  ASSUME Calm, Dedup, SharedInv, NEW w \in Process, NEW o, o = worker[w].o, Forget(w)
  PROVE  SharedInv'
<1>1. /\ o \in Object /\ worker'[w].step = "idle" /\ worker'[w].todo = {}
      /\ \A v \in Process \ {w} : worker'[v] = worker[v]
      /\ UNCHANGED <<version, blob, deletion, bytes>>
  BY ForgetNow DEF Calm
<1>2. worker[w].step = "forget"
  BY DEF Forget
<1>3. \A p \in Object : w \notin reservation[p].holders
  BY <1>2, NotHolding DEF Booking
<1>4. ASSUME NEW v \in Process, worker[v].step \in {"write", "commit"}
      PROVE  /\ worker[v].o \in Object /\ v \in reservation[worker[v].o].holders
             /\ WorksOn(v, worker[v].o)
  BY <1>4, CallShared, SharedCall DEF Calm, Booked
<1>5. CASE UNCHANGED reservation
  BY <1>1, <1>3, <1>4, <1>5, SharedDrops
<1>6. CASE RowGone(o) /\ \A v \in Process : ~WorksOn(v, o)
  <2>1. /\ reservation'[o].key = None /\ reservation'[o].holders = {}
        /\ \A p \in Object \ {o} : reservation'[p] = reservation[p]
    BY <1>1, <1>6, RowGoneNow, DropNow DEF Calm
  <2>2. \A v \in Process : worker[v].step \in {"write", "commit"} => worker[v].o \in Object \ {o}
    BY <1>4, <1>6
  <2> QED
    BY <1>1, <1>3, <1>4, <2>1, <2>2, SharedDrops
<1> QED
  BY <1>5, <1>6, ForgetNow DEF Calm

-----------------------------------------------------------------------------
(* Deletions.                                                              *)

LEMMA SharedTends ==
  ASSUME Calm, Dedup, SharedInv, UNCHANGED <<version, blob, reservation, bytes>>, BlobsTendedOnce',
         \A v \in Process : \/ worker'[v] = worker[v]
                            \/ Safe(v, worker'[v], bytes, blob, reservation, version)
  PROVE  SharedInv'
<1>1. \A v \in Process : Safe(v, worker'[v], bytes, blob, reservation, version)
  BY DEF SharedInv
<1>2. BlobBytes' /\ VersionsPointed' /\ Kept'
  BY DEF SharedInv, BlobBytes, VersionsPointed, Kept
<1> QED
  BY <1>1, <1>2 DEF SharedInv

LEMMA ClaimDeletionShared ==
  ASSUME Calm, Dedup, SharedInv, NEW w \in Process, NEW k \in Key, ClaimDeletion(w, k)
  PROVE  SharedInv'
<1>1. /\ worker'[w].step = "look" /\ worker'[w].todo = {k}
      /\ \A v \in Process \ {w} : worker'[v] = worker[v]
      /\ BeingDeleted(k) /\ ~Tended(k)
      /\ deletion' = [deletion EXCEPT ![k] = "processing"]
      /\ UNCHANGED <<version, blob, reservation, bytes>>
  BY ClaimDeletionNow DEF Calm
<1>2. worker[w].step = "idle"
  BY DEF ClaimDeletion
<1>3. \A j \in Key : BeingDeleted(j)' <=> BeingDeleted(j)
  BY <1>1 DEF BeingDeleted, Calm, CountsInv, HistoryInv, Inv, TypeOK, BlobTypeOK
<1>4. BlobsTendedOnce'
  <2>1. ASSUME NEW j \in Key, NEW u \in Process, IsBlobKey(j), j \in worker'[u].todo
        PROVE  BeingDeleted(j)' /\ \A v \in Process : j \in worker'[v].todo => v = u
    <3>1. CASE j = k
      BY <1>1, <1>3, <2>1, <3>1 DEF Tended
    <3>2. CASE j # k
      <4>1. \A v \in Process : j \in worker'[v].todo => j \in worker[v].todo
        BY <1>1, <3>2
      <4> QED
        BY <1>3, <2>1, <4>1 DEF SharedInv, BlobsTendedOnce
    <3> QED
      BY <3>1, <3>2
  <2> QED
    BY <2>1 DEF BlobsTendedOnce
<1>5. Safe(w, worker'[w], bytes, blob, reservation, version)
  <2>1. \A o \in Object : w \notin reservation[o].holders
    BY <1>2, NotHolding DEF Booking
  <2> QED
    BY <1>1, <2>1, SafeFree
<1> QED
  BY <1>1, <1>4, <1>5, SharedTends

LEMMA EraseShared ==
  ASSUME Calm, Dedup, SharedInv, NEW w \in Process, NEW k, k = worker[w].key, Erase(w)
  PROVE  SharedInv'
<1>1. worker[w].step = "erase" /\ UNCHANGED <<version, blob, reservation>>
  BY DEF Erase
<1>2. k \in Key /\ worker[w].as \in {"pending", "processing"}
  BY <1>1, HeldCall, EraseKey DEF Calm, Call
<1>3. IsBlobKey(k) => k \notin Taken(version, reservation)
  BY <1>1, SharedCall DEF Spares
<1>4. CASE bytes' = [bytes EXCEPT ![k] = None] /\ Goes(w, "complete") /\ UNCHANGED deletion
  <2>1. /\ worker'[w].step = "complete" /\ worker'[w].todo \subseteq worker[w].todo
        /\ \A v \in Process \ {w} : worker'[v] = worker[v]
    BY <1>4, GoesNow DEF Calm, Alike
  <2> QED
    BY <1>1, <1>2, <1>3, <1>4, <2>1, SharedErase DEF Booking
<1>5. CASE /\ deletion' = IF deletion[k] = worker[w].as THEN [deletion EXCEPT ![k] = "pending"] ELSE deletion
           /\ NextDeletion(w) /\ UNCHANGED bytes
  <2>1. \A j \in Key : BeingDeleted(j) => BeingDeleted(j)'
    BY <1>2, <1>5 DEF BeingDeleted, Calm, CountsInv, HistoryInv, Inv, TypeOK, BlobTypeOK
  <2>2. /\ worker'[w].step \in {"idle", "look"} /\ worker'[w].todo \subseteq worker[w].todo
        /\ \A v \in Process \ {w} : worker'[v] = worker[v]
    BY <1>5, NextDeletionNow DEF Calm
  <2> QED
    BY <1>1, <1>5, <2>1, <2>2, SharedCallFree DEF Booking
<1> QED
  BY <1>4, <1>5 DEF Erase

LEMMA CompleteShared ==
  ASSUME Calm, Dedup, SharedInv, NEW w \in Process, NEW k, k = worker[w].key, Complete(w)
  PROVE  SharedInv'
<1>1. /\ worker[w].step = "complete" /\ UNCHANGED <<version, reservation, bytes>>
      /\ deletion' = Completed(k, worker[w].as) /\ NextDeletion(w)
      /\ blob' = blob \/ blob' = WithoutRow(k)
  BY DEF Complete
<1>2. k \in worker[w].todo /\ k \in Key
  BY <1>1, HeldCall DEF Calm, CallAt, Knows
<1>3. /\ worker'[w].step \in {"idle", "look"} /\ worker'[w].todo = worker[w].todo \ {k}
      /\ \A v \in Process \ {w} : worker'[v] = worker[v]
  BY <1>1, NextDeletionNow DEF Calm
<1>4. \A j \in Key \ {k} : deletion'[j] = deletion[j]
  BY <1>1 DEF Completed
<1>5. BlobsTendedOnce'
  <2>1. BlobsLeft
    BY <1>3 DEF BlobsLeft
  <2>2. ASSUME NEW v \in Process, NEW j \in Key, IsBlobKey(j), j \in worker'[v].todo PROVE j # k
    BY <1>2, <1>3, <2>2 DEF SharedInv, BlobsTendedOnce
  <2> QED
    BY <1>4, <2>1, <2>2, BlobsOnce DEF BeingDeleted
<1>6. ASSUME NEW c \in Content,
             blob[c].key # k \/ blob[c].refs # 0 \/ \E o \in Object : reservation[o].key = k
      PROVE  blob'[c] = blob[c]
  BY <1>1, <1>6 DEF WithoutRow
<1>7. VersionsPointed'
  <2>1. ASSUME NEW v \in version PROVE blob'[v.content].key = v.key
    <3>1. v.content \in Content /\ blob[v.content].key = v.key
      BY SharedVersion DEF Calm, SharedInv, VersionsPointed
    <3>2. blob[v.content].refs # 0
      BY <3>1, RefsAre DEF Calm
    <3> QED
      BY <1>6, <3>1, <3>2
  <2> QED
    BY <1>1, <2>1 DEF VersionsPointed
<1>8. Kept'
  BY <1>1 DEF SharedInv, Kept
<1>9. Safe(w, worker'[w], bytes, blob', reservation', version')
  <2>1. \A o \in Object : w \notin reservation'[o].holders
    BY <1>1, NotHolding DEF Booking
  <2> QED
    BY <1>3, <2>1, SafeFree
<1>10. ASSUME NEW v \in Process, worker[v].step \in {"write", "commit"}
       PROVE  /\ blob'[worker[v].content].key = blob[worker[v].content].key
              /\ v \in reservation'[worker[v].o].holders
  <2>1. worker[v].o \in Object /\ worker[v].content \in Content
    BY <1>10, CallShared DEF Calm
  <2>2. /\ blob[worker[v].content].key = worker[v].key
        /\ reservation[worker[v].o].key = worker[v].key /\ v \in reservation[worker[v].o].holders
    BY <1>10, SharedCall DEF Booked
  <2> QED
    BY <1>1, <1>6, <2>1, <2>2
<1> QED
  BY <1>1, <1>3, <1>5, <1>7, <1>8, <1>9, <1>10, SharedRows

LEMMA CommitInfectedShared ==
  ASSUME Calm, Dedup, SharedInv, NEW w \in Process, NEW o, o = worker[w].o, CommitInfected(w)
  PROVE  SharedInv'
<1> DEFINE r == worker[w]
<1>1. CASE ~Owns(w)
  <2>1. Goes(w, UndoStep(w)) /\ UNCHANGED <<version, blob, reservation, bytes, deletion>>
        /\ r.step \in Finalizing
    BY <1>1 DEF CommitInfected, Undo, blobVars, Finalizing
  <2> QED
    BY <2>1, UndoShared
<1>2. CASE Owns(w)
  <2>1. /\ r.step = "quarantine"
        /\ worker'[w].step \in {"idle", "look", "release", "check"}
        /\ deletion' = Queued(Condemned(r))
        /\ worker'[w].todo \in {Condemned(r), r.todo}
        /\ \A v \in Process \ {w} : worker'[v] = worker[v]
        /\ UNCHANGED <<version, blob, reservation, bytes>>
    BY CommitInfectedNow DEF Calm, Alike
  <2>2. r.step \in Finalizing /\ r.step \notin Booking
    BY <2>1 DEF Finalizing, Booking
  <2>3. r.reserved \in Key /\ r \in Call /\ r.wrote \in {None, QuarantineKey(o)}
    BY <2>1, <2>2, HeldCall, WorkerKnows DEF Calm, CallAt
  <2>4. r.inline = None => ~IsBlobKey(r.reserved)
    BY <2>1, SharedCall DEF Fed
  <2>5. Condemned(r) \in SUBSET Key
    BY <2>3 DEF Call, Condemned
  <2>6. BlobsLeft
    <3>1. \A k \in Condemned(r) : ~IsBlobKey(k)
      BY <2>3, <2>4, KeyKinds DEF Condemned
    <3> QED
      BY <2>1, <3>1 DEF BlobsLeft
  <2>7. \A k \in Key : BeingDeleted(k) => BeingDeleted(k)'
    BY <2>1, <2>5, QueuedDoomed
  <2>8. Safe(w, worker'[w], bytes, blob, reservation, version)
    BY <2>1, <2>2, NotHolding, SafeFree
  <2> QED
    BY <2>1, <2>6, <2>7, <2>8, SharedQuiet
<1> QED
  BY <1>1, <1>2

-----------------------------------------------------------------------------
(* A destination is reserved, and a version put there.                     *)

LEMMA NoSlip == ASSUME slipped' = {}, NEW ok, NEW kind, Unless(ok, kind) PROVE ok
BY DEF Unless, Slip

\* One more reference leaves the row of a content where it points.
LEMMA AddsKeepsKey ==
  ASSUME Calm, NEW c \in Content, NEW k, blob[c].key = k, Adds(c, k, {})
  PROVE  \A d \in Content : blob'[d].key = blob[d].key
<1>1. blob' = BlobReferenced(c, k)
  BY DEF Adds, Slipped, Calm
<1>2. blob \in [Content -> Blob]
  BY CountsNow DEF Calm
<1> QED
  BY <1>1, <1>2 DEF BlobReferenced, Blob

LEMMA ReserveShared ==
  ASSUME Calm, Dedup, SharedInv, NEW w \in Process, NEW o, o = worker[w].o,
         NEW c, c = worker[w].content, Reserve(w)
  PROVE  SharedInv'
<1> DEFINE r == worker[w]
           q == worker'[w]
           k == q.key
<1>1. /\ r.step = "reserve" /\ Kin(q, r) /\ q.content = c
      /\ \A v \in Process \ {w} : worker'[v] = worker[v]
      /\ UNCHANGED <<version, deletion, bytes>>
      /\ q.step = IF blob[c].refs > 0 THEN "commit" ELSE "write"
      /\ k \in Key /\ Destination(c, k)
      /\ Unless(k = CurrentKey(c) \/ ~CountedOn(CurrentKey(c)), "split")
      /\ blob' = BlobClaimed(c, k)
      /\ reservation' = Reserved(o, k, w)
  BY ReserveNow DEF Calm
<1>2. r.step \in Finalizing /\ r.step \notin Booking
  BY <1>1 DEF Finalizing, Booking
<1>3. c \in Content /\ o \in Object /\ WorksOn(w, o)
  BY <1>1, <1>2, WorkerKnows DEF Calm
<1>4. \A v \in Process \ {w} : ~WorksOn(v, o)
  BY <1>3, WorkerHolds DEF Calm
<1> HIDE DEF r, q, k
<1>5. k = CurrentKey(c) \/ ~CountedOn(CurrentKey(c))
  BY <1>1, NoSlip DEF Calm
<1>6. /\ blob'[c].key = IF blob[c].refs = 0 THEN k ELSE blob[c].key
      /\ \A d \in Content \ {c} : blob'[d].key = blob[d].key
  BY <1>1, <1>3, CountsNow DEF Calm, BlobClaimed, Blob
<1>7. /\ reservation'[o].key = k /\ reservation'[o].holders = reservation[o].holders \cup {w}
      /\ \A p \in Object \ {o} : reservation'[p] = reservation[p]
  BY <1>1, <1>3, ReservationIs DEF Calm, Reserved, Reservation
<1>8. ASSUME blob[c].refs # 0
      PROVE  k = blob[c].key /\ bytes[k] = c /\ k \in Used(version)
  <2>1. PICK v \in version : v.content = c
    BY <1>3, <1>8, RefsAre DEF Calm
  <2>2. blob[c].key = v.key /\ bytes[v.key] = c /\ v.key # None /\ v.key \in Used(version)
    BY <2>1, SharedVersion, Used1, DriveKeyAssumption DEF Calm, SharedInv, VersionsPointed, Kept
  <2>3. blob[c].refs > 0
    BY <1>3, <1>8, RefsAre DEF Calm
  <2> QED
    BY <1>1, <2>2, <2>3 DEF Destination, CurrentKey
<1>9. blob'[c].key = k
  BY <1>6, <1>8
<1>10. ASSUME blob[c].refs = 0 PROVE ~BeingDeleted(k)
  BY <1>1, <1>10 DEF Destination, Untouched, BeingDeleted
<1>11. ASSUME NEW v \in Process \ {w}, worker[v].step \in {"write", "commit"}
       PROVE  /\ blob'[worker[v].content].key = blob[worker[v].content].key
              /\ reservation'[worker[v].o] = reservation[worker[v].o]
              /\ v \in reservation[worker[v].o].holders
  <2> DEFINE s == worker[v]
  <2>1. s.o \in Object /\ WorksOn(v, s.o) /\ s.content \in Content /\ s.key \in Key
    BY <1>11, CallShared DEF Calm
  <2>2. blob[s.content].key = s.key /\ reservation[s.o].key = s.key /\ v \in reservation[s.o].holders
    BY <1>11, SharedCall DEF Booked
  <2>3. s.o # o
    BY <1>4, <2>1
  <2> HIDE DEF s
  <2>4. CASE s.content = c
    <3>1. CurrentKey(c) = s.key
      BY <2>1, <2>2, <2>4, DriveKeyAssumption DEF CurrentKey
    <3>2. CountedOn(CurrentKey(c))
      BY <2>1, <2>2, <3>1 DEF CountedOn
    <3>3. k = blob[c].key
      BY <1>5, <2>2, <2>4, <3>1, <3>2
    <3> QED
      BY <1>7, <1>9, <2>1, <2>2, <2>3, <2>4, <3>3 DEF s
  <2>5. CASE s.content # c
    BY <1>6, <1>7, <2>1, <2>2, <2>3, <2>5 DEF s
  <2> QED
    BY <2>4, <2>5
<1>12. ASSUME NEW v \in Process, worker[v].step = "erase", IsBlobKey(worker[v].key),
              worker[v].key \in Taken(version', reservation')
       PROVE  worker[v].key \in Taken(version, reservation)
  <2>1. worker[v].key \in Key /\ worker[v].key \in worker[v].todo
    BY <1>12, EraseKey DEF Calm
  <2>2. BeingDeleted(worker[v].key)
    BY <1>12, <2>1 DEF SharedInv, BlobsTendedOnce
  <2>3. worker[v].key = k => k \in Used(version)
    BY <1>8, <1>10, <2>2
  <2> QED
    BY <1>1, <1>7, <1>12, <2>3 DEF Taken
<1>13. VersionsPointed' /\ Kept'
  <2>1. ASSUME NEW v \in version PROVE blob'[v.content].key = v.key
    <3>1. v.content \in Content /\ blob[v.content].key = v.key
      BY SharedVersion DEF Calm, SharedInv, VersionsPointed
    <3>2. blob[v.content].refs # 0
      BY <3>1, RefsAre DEF Calm
    <3> QED
      BY <1>6, <3>1, <3>2
  <2> QED
    BY <1>1, <2>1 DEF SharedInv, VersionsPointed, Kept
<1>14. BlobsTendedOnce'
  <2>1. BlobsLeft
    BY <1>1 DEF BlobsLeft, Kin, q, r
  <2> QED
    BY <1>1, <2>1, QueueSame, BlobsOnce
<1>15. Safe(w, q, bytes, blob', reservation', version')
  <2>1. Fed(r, bytes)
    BY SharedCall DEF r
  <2>2. q.step = "commit" => bytes[k] = c
    BY <1>1, <1>3, <1>8, RefsAre DEF Calm
  <2>3. SourceOf(q, bytes) = SourceOf(r, bytes)
    BY <1>1 DEF SourceOf, Kin
  <2>4. Fed(q, bytes)
    BY <1>1, <2>1, <2>2, <2>3 DEF Fed, Kin, k, r
  <2>5. \A p \in Object : w \notin reservation[p].holders
    BY <1>2, NotHolding DEF r
  <2>6. Booked(w, q, blob', reservation')
    BY <1>1, <1>7, <1>9, <2>5 DEF Booked, Booking, Kin, k, r
  <2>7. Spares(q, Taken(version', reservation'))
    BY <1>1 DEF Spares
  <2> QED
    BY <2>4, <2>6, <2>7 DEF Safe
<1>16. \A v \in Process \ {w}, p \in Object :
         v \in reservation'[p].holders => v \in reservation[p].holders
  BY <1>7
<1> QED
  BY <1>1, <1>11, <1>12, <1>13, <1>14, <1>15, <1>16, SharedRows DEF q

LEMMA CommitCleanShared ==
  ASSUME Calm, Dedup, SharedInv, NEW w \in Process, NEW o, o = worker[w].o, CommitClean(w)
  PROVE  SharedInv'
<1> DEFINE r == worker[w]
           n == [object |-> o, number |-> r.number, key |-> r.key, content |-> r.content]
<1>1. CASE ~Owns(w)
  <2>1. Goes(w, UndoStep(w)) /\ UNCHANGED <<version, blob, reservation, bytes, deletion>>
        /\ r.step \in Finalizing
    BY <1>1 DEF CommitClean, Undo, blobVars, Finalizing
  <2> QED
    BY <2>1, UndoShared
<1>2. CASE Owns(w)
  <2>1. /\ r.step = "commit" /\ o \in Object /\ WorksOn(w, o)
        /\ version' = version \cup {n}
        /\ worker'[w].step \in {"idle", "look", "unreserve"}
        /\ deletion' = Queued(Staged(r))
        /\ worker'[w].todo \in {Staged(r), r.todo}
        /\ \A v \in Process \ {w} : worker'[v] = worker[v]
        /\ Adds(r.content, r.key, {})
        /\ reservation' = Unreserved(o, w)
        /\ UNCHANGED bytes
    BY CommitCleanNow DEF Calm, Alike
  <2>2. /\ r.content \in Content /\ r.key \in Key /\ BlobKeyOf(r.content, r.key)
        /\ r.step \in Finalizing /\ r.reserved \in Key
    BY <2>1, CallShared, WorkerKnows DEF Calm, Finalizing
  <2>3. Fed(r, bytes) /\ Booked(w, r, blob, reservation)
    BY SharedCall
  <2>4. /\ blob[r.content].key = r.key /\ reservation[o].key = r.key /\ w \in reservation[o].holders
        /\ bytes[r.key] = r.content
        /\ \A p \in Object : w \in reservation[p].holders => p = o
    BY <2>1, <2>3 DEF Booked, Fed
  <2>5. \A d \in Content : blob'[d].key = blob[d].key
    BY <2>1, <2>2, <2>4, AddsKeepsKey
  <2>6. /\ reservation'[o].key = None /\ reservation'[o].holders = {}
        /\ \A p \in Object \ {o} : reservation'[p] = reservation[p]
    <3>1. reservation' = [reservation EXCEPT ![o] = NoReservation]
      BY <2>1, <2>4 DEF Unreserved
    <3> QED
      BY <2>1, <3>1, DropNow DEF Calm
  <2>7. ASSUME NEW k \in Staged(r) PROVE ~IsBlobKey(k) /\ k \in Key
    <3>1. k = r.reserved /\ r.inline = None /\ k # r.key
      BY DEF Staged
    <3>2. ASSUME IsBlobKey(k) PROVE FALSE
      <4>1. PICK v \in VersionsOf(o) : v.key = k
        BY <2>2, <3>1, <3>2, SourceKey, KeyKinds DEF Calm
      <4>2. v \in version /\ BlobKeyOf(v.content, k) /\ blob[v.content].key = k
        BY <4>1, SharedVersion DEF Calm, SharedInv, VersionsPointed, VersionsOf
      <4>3. BlobKeyOf(r.content, k)
        BY <2>1, <2>3, <3>1, <3>2 DEF Fed
      <4> QED
        BY <2>4, <3>1, <4>2, <4>3, KeyKinds
    <3> QED
      BY <2>2, <3>1, <3>2
  <2>8. BlobsTendedOnce'
    <3>1. BlobsLeft
      BY <2>1, <2>7 DEF BlobsLeft
    <3>2. Staged(r) \in SUBSET Key
      BY <2>7
    <3>3. \A k \in Key : BeingDeleted(k) => BeingDeleted(k)'
      BY <2>1, <3>2, QueuedDoomed
    <3> QED
      BY <3>1, <3>3, BlobsOnce
  <2>9. VersionsPointed' /\ Kept'
    <3>1. ASSUME NEW v \in version PROVE blob'[v.content].key = v.key /\ bytes[v.key] = v.content
      BY <2>5, SharedVersion DEF Calm, SharedInv, VersionsPointed, Kept
    <3>2. blob'[n.content].key = n.key /\ bytes[n.key] = n.content
      BY <2>2, <2>4, <2>5
    <3> HIDE DEF n, r
    <3> QED
      BY <2>1, <3>1, <3>2 DEF VersionsPointed, Kept
  <2>10. ASSUME NEW v \in Process \ {w}, worker[v].step \in {"write", "commit"}
         PROVE  /\ blob'[worker[v].content].key = blob[worker[v].content].key
                /\ reservation'[worker[v].o] = reservation[worker[v].o]
                /\ v \in reservation[worker[v].o].holders
    <3>1. worker[v].o \in Object /\ WorksOn(v, worker[v].o) /\ worker[v].content \in Content
      BY <2>10, CallShared DEF Calm
    <3>2. worker[v].o # o
      BY <2>1, <3>1, WorkerHolds DEF Calm
    <3> QED
      BY <2>5, <2>6, <2>10, <3>1, <3>2, SharedCall DEF Booked
  <2>11. ASSUME NEW k \in Taken(version', reservation'), k # None PROVE k \in Taken(version, reservation)
    <3>1. n.key = reservation[o].key
      BY <2>4
    <3>2. k = n.key \/ k \in Used(version) \/ \E p \in Object \ {o} : k = reservation[p].key
      <4> HIDE DEF n, r
      <4> QED
        BY <2>1, <2>6, <2>11 DEF Taken, Used
    <3> QED
      BY <2>1, <3>1, <3>2 DEF Taken
  <2>12. Safe(w, worker'[w], bytes, blob', reservation', version')
    <3>1. \A p \in Object : w \notin reservation'[p].holders
      BY <2>4, <2>6
    <3> QED
      BY <2>1, <3>1, SafeFree
  <2>13. \A v \in Process, p \in Object :
           v \in reservation'[p].holders => v \in reservation[p].holders
    BY <2>6
  <2>14. \A v \in Process : worker[v].step = "erase" => worker[v].key # None
    BY EraseKey DEF Calm
  <2> HIDE DEF n, r
  <2> QED
    BY <2>1, <2>8, <2>9, <2>10, <2>11, <2>12, <2>13, <2>14, SharedRows
<1> QED
  BY <1>1, <1>2

-----------------------------------------------------------------------------
(* Versions copied and purged, references counted again.                   *)

LEMMA RevertShared == ASSUME Calm, Dedup, SharedInv, NEW o \in Object, Revert(o) PROVE SharedInv'
<1>1. UNCHANGED <<reservation, deletion, bytes, worker>>
  BY RevertNow DEF Calm
<1>2. PICK u \in VersionsOf(o), v \in Version :
        /\ v.key = u.key /\ v.content = u.content
        /\ version' = version \cup {v}
        /\ IF IsBlobKey(v.key) THEN Adds(v.content, v.key, {}) ELSE UNCHANGED <<blob, slipped>>
  BY RevertNow DEF Calm
<1>3. /\ u \in version /\ u.content \in Content /\ IsBlobKey(u.key)
      /\ blob[u.content].key = u.key /\ bytes[u.key] = u.content /\ u.key \in Used(version)
  BY SharedVersion, Used1 DEF VersionsOf, Calm, SharedInv, VersionsPointed, Kept
<1>4. \A d \in Content : blob'[d].key = blob[d].key
  BY <1>2, <1>3, AddsKeepsKey
<1>5. VersionsPointed' /\ Kept'
  <2>1. ASSUME NEW x \in version PROVE blob'[x.content].key = x.key /\ bytes[x.key] = x.content
    BY <1>4, SharedVersion DEF Calm, SharedInv, VersionsPointed, Kept
  <2> QED
    BY <1>1, <1>2, <1>3, <1>4, <2>1 DEF VersionsPointed, Kept
<1>6. BlobsTendedOnce'
  BY <1>1, QueueSame, BlobsOnce DEF BlobsLeft
<1>7. Taken(version', reservation') \subseteq Taken(version, reservation)
  BY <1>1, <1>2, <1>3 DEF Taken, Used
<1>8. ASSUME NEW v2 \in Process, worker[v2].step \in {"write", "commit"}
      PROVE  /\ blob'[worker[v2].content].key = blob[worker[v2].content].key
             /\ v2 \in reservation[worker[v2].o].holders
  BY <1>4, <1>8, CallShared, SharedCall DEF Calm, Booked
<1> QED
  BY <1>1, <1>5, <1>6, <1>7, <1>8, SharedRows

LEMMA DecrementedKeys ==
  ASSUME Calm, NEW V, blob' = BlobDecremented(V)
  PROVE  \A d \in Content : blob'[d].key = blob[d].key
BY CountsNow DEF Calm, BlobDecremented, Blob

LEMMA PurgeShared ==
  ASSUME Calm, Dedup, SharedInv, NEW w \in Process, NEW o \in Object, Purge(w, o) PROVE SharedInv'
<1> DEFINE K == worker'[w].todo
<1>1. /\ \A v \in Process : ~WorksOn(v, o)
      /\ version' = version \ VersionsOf(o)
      /\ blob' = BlobDecremented(VersionsOf(o))
      /\ RowGone(o)
      /\ worker'[w].step \in {"idle", "look"}
      /\ \A k \in K : IsBlobKey(k) => ~Tended(k)
      /\ deletion' = Queued(K)
      /\ \A v \in Process \ {w} : worker'[v] = worker[v]
      /\ UNCHANGED bytes
  BY PurgeNow DEF Calm
<1>2. worker[w].step = "idle"
  BY DEF Purge
<1>3. K \in SUBSET Key
  BY DEF Calm, CountsInv, HistoryInv, Inv, TypeOK, Call
<1> HIDE DEF K
<1>4. \A d \in Content : blob'[d].key = blob[d].key
  BY <1>1, DecrementedKeys
<1>5. /\ reservation'[o].key = None /\ reservation'[o].holders = {}
      /\ \A p \in Object \ {o} : reservation'[p] = reservation[p]
  BY <1>1, RowGoneNow, DropNow DEF Calm
<1>6. BlobsTendedOnce'
  <2>1. \A k \in Key : BeingDeleted(k) => BeingDeleted(k)'
    BY <1>1, <1>3, QueuedDoomed
  <2>2. \A k \in K : BeingDeleted(k)'
    BY <1>1, <1>3 DEF Queued, BeingDeleted
  <2>3. ASSUME NEW k \in Key, NEW u \in Process, IsBlobKey(k), k \in worker'[u].todo
        PROVE  BeingDeleted(k)' /\ \A v \in Process : k \in worker'[v].todo => v = u
    <3>1. CASE k \in K
      BY <1>1, <2>2, <2>3, <3>1 DEF Tended
    <3>2. CASE k \notin K
      <4>1. \A v \in Process : k \in worker'[v].todo => v # w /\ k \in worker[v].todo
        BY <1>1, <3>2 DEF K
      <4> QED
        BY <2>1, <2>3, <4>1 DEF SharedInv, BlobsTendedOnce
    <3> QED
      BY <3>1, <3>2
  <2> QED
    BY <2>3 DEF BlobsTendedOnce
<1>7. VersionsPointed' /\ Kept'
  <2>1. ASSUME NEW v \in version PROVE blob'[v.content].key = v.key /\ bytes[v.key] = v.content
    BY <1>4, SharedVersion DEF Calm, SharedInv, VersionsPointed, Kept
  <2> QED
    BY <1>1, <2>1 DEF VersionsPointed, Kept
<1>8. ASSUME NEW v \in Process, worker[v].step \in {"write", "commit"}
      PROVE  /\ blob'[worker[v].content].key = blob[worker[v].content].key
             /\ reservation'[worker[v].o] = reservation[worker[v].o]
             /\ v \in reservation[worker[v].o].holders
  <2>1. worker[v].o \in Object /\ WorksOn(v, worker[v].o) /\ worker[v].content \in Content
    BY <1>8, CallShared DEF Calm
  <2> QED
    BY <1>1, <1>4, <1>5, <1>8, <2>1, SharedCall DEF Booked
<1>9. ASSUME NEW k \in Taken(version', reservation'), k # None PROVE k \in Taken(version, reservation)
  BY <1>1, <1>5, <1>9 DEF Taken, Used
<1>10. \A v \in Process, p \in Object : v \in reservation'[p].holders => v \in reservation[p].holders
  BY <1>5
<1>11. Safe(w, worker'[w], bytes, blob', reservation', version')
  <2>1. \A p \in Object : w \notin reservation'[p].holders
    BY <1>2, <1>10, NotHolding DEF Booking
  <2> QED
    BY <1>1, <2>1, SafeFree
<1>12. \A v \in Process : worker[v].step = "erase" => worker[v].key # None
  BY EraseKey DEF Calm
<1> QED
  BY <1>1, <1>6, <1>7, <1>8, <1>9, <1>10, <1>11, <1>12, SharedRows

LEMMA ReconcileShared == ASSUME Calm, Dedup, SharedInv, ReconcileBlobs PROVE SharedInv'
<1> DEFINE b == Recounted(blob, version)
<1>1. /\ blob' = Zeroed(b) /\ UNCHANGED <<version, reservation, bytes, worker>>
      /\ \E old : deletion' = [k \in Key |->
           IF k \in old /\ ~BeingDeleted(k) THEN "pending" ELSE deletion[k]]
  BY DEF ReconcileBlobs, Reconcile
<1>2. b \in [Content -> Blob]
  BY CountsNow, RecountedType DEF Calm
<1>3. ASSUME NEW c \in Content PROVE blob'[c].key = blob[c].key
  <2>1. b[c] = blob[c] \/ (BlobKeyOf(c, b[c].key) /\ \E v \in version : v.key = b[c].key)
    BY CountsNow, RecountedIs DEF Calm, VersionKeysFit
  <2> HIDE DEF b
  <2>2. blob'[c].key = b[c].key
    BY <1>1, <1>2 DEF Zeroed, Blob
  <2>3. ASSUME NEW v \in version, BlobKeyOf(c, v.key) PROVE blob[c].key = v.key
    <3>1. BlobKeyOf(v.content, v.key) /\ blob[v.content].key = v.key
      BY SharedVersion DEF Calm, SharedInv, VersionsPointed
    <3> QED
      BY <2>3, <3>1, KeyKinds
  <2> QED
    BY <2>1, <2>2, <2>3
<1>4. \A k \in Key : BeingDeleted(k) => BeingDeleted(k)'
  BY <1>1 DEF BeingDeleted
<1>5. BlobsTendedOnce'
  BY <1>1, <1>4, BlobsOnce DEF BlobsLeft
<1>6. VersionsPointed' /\ Kept'
  <2>1. ASSUME NEW v \in version PROVE blob'[v.content].key = v.key /\ bytes[v.key] = v.content
    BY <1>3, SharedVersion DEF Calm, SharedInv, VersionsPointed, Kept
  <2> QED
    BY <1>1, <2>1 DEF VersionsPointed, Kept
<1>7. ASSUME NEW v \in Process, worker[v].step \in {"write", "commit"}
      PROVE  /\ blob'[worker[v].content].key = blob[worker[v].content].key
             /\ v \in reservation[worker[v].o].holders
  BY <1>3, <1>7, CallShared, SharedCall DEF Calm, Booked
<1> QED
  BY <1>1, <1>5, <1>6, <1>7, SharedRows

-----------------------------------------------------------------------------
(* Every step, with dedup.                                                 *)

LEMMA ContinueShared ==
  ASSUME Calm, Dedup, SharedInv, HoldersOwn, NEW w \in Process, Continue(w) PROVE SharedInv'
<1>1. CASE CommitScanFailure(w) \/ CommitInfected(w) \/ CommitClean(w) \/ Release(w)
           \/ JobFails(w) \/ Forget(w) \/ Unreserve(w)
  BY <1>1, CommitScanFailureShared, CommitInfectedShared, CommitCleanShared, ReleaseShared,
     JobFailsShared, ForgetShared, UnreserveShared
<1>2. CASE Erase(w) \/ Complete(w) \/ Discard(w) \/ EraseUpload(w) \/ Reserve(w)
  BY <1>2, EraseShared, CompleteShared, DiscardShared, EraseUploadShared, ReserveShared
<1>3. CASE Scan(w) \/ SetAside(w) \/ Write(w) \/ CheckWritten(w) \/ FinalizeJob(w) \/ Look(w)
  BY <1>3, ScanShared, SetAsideShared, WriteShared, CheckWrittenShared, FinalizeJobShared, LookShared
<1> QED
  BY <1>1, <1>2, <1>3 DEF Continue

LEMMA SharedStays == ASSUME Calm, Dedup, SharedInv, HoldersOwn, [Next]_vars PROVE SharedInv'
<1>1. ASSUME NEW o \in Object, Prepare(o) \/ Override(o) \/ Revert(o) \/ Expires(o)
      PROVE  SharedInv'
  <2>1. CASE Prepare(o) \/ Override(o)
    BY <2>1, StillShared DEF Prepare, Override, blobVars
  <2> QED
    BY <1>1, <2>1, RevertShared, ExpiresShared
<1>2. ASSUME NEW o \in Object, NEW c \in Uploads[o], Upload(o, c) PROVE SharedInv'
  <2>1. c \in Content
    BY DriveAssumption
  <2> QED
    BY <1>2, UploadShared
<1>3. ASSUME NEW o \in Object, NEW w \in Process,
             \/ Purge(w, o) \/ ClaimJob(w, o) \/ ExpireUpload(w, o)
             \/ \E inline \in Uploads[o] \cup {None} : Finalize(w, o, inline)
      PROVE  SharedInv'
  BY <1>3, PurgeShared, ClaimJobShared, ExpireUploadShared, ClaimShared DEF Finalize
<1>4. ASSUME NEW w \in Process,
             Continue(w) \/ Fail(w) \/ Crash(w) \/ \E k \in Key : ClaimDeletion(w, k)
      PROVE  SharedInv'
  BY <1>4, ContinueShared, FailShared, CrashShared, ClaimDeletionShared
<1>5. ASSUME ReconcileBlobs PROVE SharedInv'
  BY <1>5, ReconcileShared
<1>6. ASSUME UNCHANGED vars PROVE SharedInv'
  BY <1>6, StillShared DEF vars
<1> QED
  BY <1>1, <1>2, <1>3, <1>4, <1>5, <1>6 DEF Next

\* A reservation goes when the file is given up.
LEMMA TokenStays ==
  ASSUME Calm, [Next]_vars, NEW w \in Process, NEW o \in Object, WorksOn(w, o),
         worker[w].step \in Booking, w \in reservation[o].holders, reservation'[o].holders # {}
  PROVE  file'[o].token = file[o].token
<1>1. \A v \in Process : WorksOn(v, o) => worker[v].step \in Booking
  BY WorkerHolds DEF Calm
<1>2. file[o].status = "scan_processing" /\ Held(o) /\ file[o] \in File
  BY WorkerHolds, HeldFile DEF Calm, Has
<1>3. ASSUME NEW p \in Object, RowGone(p) PROVE file'[o] = file[o]
  BY <1>3, RowGoneNow, DropNow DEF Calm
<1>4. ASSUME NEW p \in Object, NEW v \in Process, NEW retry, NEW inline, Claim(v, p, retry, inline)
       PROVE  file'[o].token = file[o].token
  <2>1. /\ \A u \in Process : ~WorksOn(u, p)
        /\ \A q \in Object \ {p} : file'[q] = file[q]
    BY <1>4, ClaimNow DEF Calm
  <2> QED
    BY <2>1
<1>5. ASSUME NEW v \in Process, NEW p, p = worker[v].o, Continue(v)
      PROVE  file'[o].token = file[o].token
  <2>1. CASE CommitScanFailure(v) \/ CommitInfected(v)
    BY <1>1, <1>5, <2>1, CommitScanFailureNow, CommitInfectedNow DEF Calm, Booking
  <2>2. CASE CommitClean(v)
    <3>1. /\ p \in Object /\ WorksOn(v, p) /\ reservation' = Unreserved(p, v)
          /\ \A q \in Object \ {p} : file'[q] = file[q]
      BY <1>5, <2>2, CommitCleanNow DEF Calm
    <3>2. CASE p = o
      <4>1. v = w
        BY <3>1, <3>2, WorkerHolds DEF Calm
      <4>2. reservation' = [reservation EXCEPT ![o] = NoReservation]
        BY <3>1, <3>2, <4>1 DEF Unreserved
      <4> QED
        BY <4>2, DropNow DEF Calm
    <3> QED
      BY <3>1, <3>2
  <2>3. CASE Release(v)
    BY <1>1, <1>5, <2>3, ReleaseNow DEF Calm, Booking
  <2>4. CASE JobFails(v)
    BY <1>2, <1>5, <2>4, JobFailsNow DEF Calm, Rejobbed
  <2>5. CASE Forget(v)
    BY <1>3, <1>5, <2>5, ForgetNow DEF Calm
  <2>6. CASE FinalizeJob(v)
    <3>1. p \in Object
      BY <1>5, <2>6, HeldCall DEF FinalizeJob, Calm
    <3> QED
      BY <1>5, <1>4, <2>6, <3>1 DEF FinalizeJob
  <2>7. CASE Scan(v) \/ SetAside(v) \/ Reserve(v) \/ Write(v) \/ Unreserve(v) \/ CheckWritten(v)
             \/ Discard(v) \/ Look(v) \/ Erase(v) \/ Complete(v) \/ EraseUpload(v)
    BY <2>7 DEF Scan, SetAside, Reserve, Write, Undo, Unreserve, CheckWritten, Discard, Look, Erase,
                Complete, EraseUpload, blobVars
  <2> QED
    BY <1>5, <2>1, <2>2, <2>3, <2>4, <2>5, <2>6, <2>7 DEF Continue
<1>6. ASSUME NEW p \in Object, NEW v \in Process,
             \/ Prepare(p) \/ Override(p) \/ Revert(p) \/ Purge(v, p) \/ ExpireUpload(v, p)
      PROVE  file'[o].token = file[o].token
  BY <1>2, <1>3, <1>6, PrepareNow, OverrideNow, RevertNow, PurgeNow, ExpireUploadNow DEF Calm, Rejobbed
<1>7. ASSUME NEW p \in Object, NEW v \in Process, NEW inline, Finalize(v, p, inline)
      PROVE  file'[o].token = file[o].token
  BY <1>7, <1>4 DEF Finalize
<1>8. ASSUME NEW v \in Process, Fail(v) \/ Crash(v) \/ \E k \in Key : ClaimDeletion(v, k)
      PROVE  file' = file
  BY <1>8 DEF Fail, Crash, ClaimDeletion
<1>9. ASSUME NEW p \in Object, NEW v \in Process,
             Expires(p) \/ (\E c \in Uploads[p] : Upload(p, c)) \/ ClaimJob(v, p)
      PROVE  file' = file
  BY <1>9 DEF Expires, Upload, ClaimJob
<1>10. CASE ReconcileBlobs \/ UNCHANGED vars
  BY <1>10 DEF ReconcileBlobs, vars
<1> QED
  BY <1>5, <1>6, <1>7, <1>8, <1>9, <1>10 DEF Next

\* Whoever is made a holder commits next.
LEMMA HoldersThen ==
  ASSUME Calm, [Next]_vars, NEW w \in Process, NEW o \in Object,
         w \in reservation'[o].holders, worker'[w].step \notin Finalizing
  PROVE  w \in reservation[o].holders
<1>1. CASE UNCHANGED reservation
  BY <1>1
<1>2. ASSUME NEW p \in Object, reservation' = [reservation EXCEPT ![p] = NoReservation]
      PROVE  w \in reservation[o].holders
  <2>1. o # p
    BY <1>2, DropNow DEF Calm
  <2> QED
    BY <1>2, <2>1, DropNow DEF Calm
<1>3. ASSUME NEW v \in Process, Reserve(v) PROVE w \in reservation[o].holders
  <2>1. CASE UNCHANGED reservation
    BY <2>1
  <2>2. CASE ~UNCHANGED reservation
    <3> DEFINE p == worker[v].o
    <3>4. worker[v].step \in Finalizing
      BY <1>3 DEF Reserve, Finalizing
    <3>1. /\ worker'[v].step \in {"write", "commit"} /\ p \in Object
          /\ reservation' = Reserved(p, worker'[v].key, v)
      BY <1>3, <3>4, ReserveNow, WorkerKnows DEF Calm
    <3>2. v # w
      BY <3>1 DEF Finalizing
    <3> HIDE DEF p
    <3>3. /\ reservation'[p].holders = reservation[p].holders \cup {v}
          /\ \A q \in Object \ {p} : reservation'[q] = reservation[q]
      BY <3>1, ReservationIs DEF Calm, Reserved, Reservation
    <3> QED
      BY <3>2, <3>3
  <2> QED
    BY <2>1, <2>2
<1>4. ASSUME NEW v \in Process, Crash(v) PROVE w \in reservation[o].holders
  BY <1>4, ReservationIs DEF Crash, Calm, Reservation
<1>5. ASSUME NEW v \in Process, NEW p, p = worker[v].o, Continue(v)
      PROVE  w \in reservation[o].holders
  <2>1. CASE CommitClean(v) \/ Unreserve(v)
    <3>1. UNCHANGED reservation \/ (reservation' = Unreserved(p, v) /\ p \in Object)
      BY <1>5, <2>1, CommitCleanNow, HeldCall DEF Calm, Unreserve, Undoes, Undoing
    <3> QED
      BY <1>1, <1>2, <3>1 DEF Unreserved
  <2>2. CASE Forget(v)
    BY <1>1, <1>2, <1>5, <2>2, ForgetNow DEF Calm, RowGone
  <2>3. CASE Reserve(v)
    BY <1>3, <2>3
  <2>4. CASE Scan(v) \/ CommitScanFailure(v) \/ SetAside(v) \/ CommitInfected(v) \/ Write(v)
             \/ CheckWritten(v) \/ Discard(v) \/ Release(v) \/ FinalizeJob(v) \/ JobFails(v)
             \/ Look(v) \/ Erase(v) \/ Complete(v) \/ EraseUpload(v)
    BY <1>1, <2>4 DEF Scan, CommitScanFailure, SetAside, CommitInfected, Write, Undo, CheckWritten,
         Discard, Release, FinalizeJob, Claim, JobFails, Look, Erase, Complete, EraseUpload, blobVars
  <2> QED
    BY <1>5, <2>1, <2>2, <2>3, <2>4 DEF Continue
<1>6. ASSUME NEW p \in Object, NEW v \in Process,
             \/ Prepare(p) \/ Override(p) \/ Revert(p) \/ Purge(v, p) \/ ExpireUpload(v, p)
             \/ ClaimJob(v, p) \/ Expires(p)
      PROVE  w \in reservation[o].holders
  BY <1>1, <1>2, <1>6 DEF Prepare, Override, Revert, Purge, RowGone, ExpireUpload, ClaimJob, Expires,
       ReservationExpires, blobVars
<1>7. ASSUME NEW p \in Object, NEW v \in Process, NEW inline, Finalize(v, p, inline)
      PROVE  w \in reservation[o].holders
  BY <1>1, <1>7 DEF Finalize, Claim, blobVars
<1>8. ASSUME NEW v \in Process, Fail(v) \/ \E k \in Key : ClaimDeletion(v, k)
      PROVE  w \in reservation[o].holders
  BY <1>1, <1>8 DEF Fail, ClaimDeletion, blobVars
<1>9. ASSUME NEW p \in Object, NEW c, Upload(p, c) PROVE w \in reservation[o].holders
  BY <1>1, <1>9 DEF Upload
<1>10. CASE ReconcileBlobs \/ UNCHANGED vars
  BY <1>1, <1>10 DEF ReconcileBlobs, Reconcile, vars, blobVars
<1> QED
  BY <1>4, <1>5, <1>6, <1>7, <1>8, <1>9, <1>10 DEF Next

LEMMA HoldersStay == ASSUME Calm, SharedInv, SharedInv', HoldersOwn, [Next]_vars PROVE HoldersOwn'
<1> SUFFICES ASSUME NEW w \in Process, NEW o \in Object, w \in reservation'[o].holders
             PROVE  file'[o].token = w
  BY DEF HoldersOwn
<1>1. worker'[w].o = o
  BY DEF SharedInv, Safe, Booked
<1>2. CASE worker'[w].step \in Finalizing
  BY <1>1, <1>2 DEF Calm, HeldInv, Claims, Has
<1>3. CASE worker'[w].step \notin Finalizing
  <2>1. w \in reservation[o].holders
    BY <1>3, HoldersThen
  <2>2. worker[w].o = o /\ worker[w].step \in Booking /\ file[o].token = w
    BY <2>1, SharedCall DEF Booked, HoldersOwn
  <2>3. WorksOn(w, o)
    BY <2>2 DEF WorksOn, Booking, Undoes, Finalizing, Undoing
  <2> QED
    BY <2>1, <2>2, <2>3, TokenStays
<1> QED
  BY <1>2, <1>3

LEMMA SharedInit == Init => SharedInv /\ HoldersOwn
<1> SUFFICES ASSUME Init PROVE SharedInv /\ HoldersOwn
  OBVIOUS
<1>1. /\ version = {} /\ \A w \in Process : worker[w].step = "idle" /\ worker[w].todo = {}
      /\ \A k \in Key : bytes[k] = None
      /\ \A o \in Object : reservation[o].holders = {}
  BY DEF Init, BlobInit, Idle, NoReservation
<1>2. BlobBytes /\ VersionsPointed /\ BlobsTendedOnce /\ Kept
  BY <1>1 DEF BlobBytes, VersionsPointed, BlobsTendedOnce, Kept
<1>3. \A w \in Process : Safe(w, worker[w], bytes, blob, reservation, version)
  BY <1>1, SafeFree
<1> QED
  BY <1>1, <1>2, <1>3 DEF SharedInv, HoldersOwn

-----------------------------------------------------------------------------
(* What slipped stays slipped.                                             *)

LEMMA ContinueGrows == ASSUME NEW w, Continue(w) PROVE slipped \subseteq slipped'
<1>1. CASE CommitClean(w) \/ Reserve(w) \/ JobFails(w)
  BY <1>1, UnlessGrows, SlippedGrows DEF CommitClean, Adds, Slipped, Reserve, JobFails, Undo
<1>2. CASE FinalizeJob(w)
  BY <1>2, SlippedGrows DEF FinalizeJob, Claim
<1>3. CASE Scan(w) \/ CommitScanFailure(w) \/ SetAside(w) \/ CommitInfected(w) \/ Write(w)
  BY <1>3 DEF Scan, CommitScanFailure, SetAside, CommitInfected, Write, Undo
<1>4. CASE Unreserve(w) \/ CheckWritten(w) \/ Discard(w) \/ Release(w)
  BY <1>4 DEF Unreserve, CheckWritten, Discard, Release
<1>5. CASE Look(w) \/ Erase(w) \/ Complete(w) \/ EraseUpload(w) \/ Forget(w)
  BY <1>5 DEF Look, Erase, Complete, EraseUpload, Forget
<1> QED
  BY <1>1, <1>2, <1>3, <1>4, <1>5 DEF Continue

LEMMA NextGrows == ASSUME [Next]_vars PROVE slipped \subseteq slipped'
<1>1. ASSUME NEW o \in Object, Prepare(o) \/ Override(o) \/ Revert(o) \/ Expires(o)
      PROVE  slipped \subseteq slipped'
  BY <1>1, SlippedGrows DEF Prepare, Override, Revert, Adds, Slipped, Expires
<1>2. ASSUME NEW o \in Object, NEW w \in Process,
             \/ \E c \in Uploads[o] : Upload(o, c)
             \/ Purge(w, o) \/ ClaimJob(w, o) \/ ExpireUpload(w, o)
             \/ \E inline \in Uploads[o] \cup {None} : Finalize(w, o, inline)
      PROVE  slipped \subseteq slipped'
  BY <1>2, UnlessGrows, SlippedGrows DEF Upload, Purge, ClaimJob, ExpireUpload, Finalize, Claim
<1>3. ASSUME NEW w \in Process,
             Continue(w) \/ Fail(w) \/ Crash(w) \/ \E k \in Key : ClaimDeletion(w, k)
      PROVE  slipped \subseteq slipped'
  BY <1>3, ContinueGrows, UnlessGrows DEF Fail, Crash, ClaimDeletion
<1>4. CASE ReconcileBlobs \/ UNCHANGED vars
  BY <1>4 DEF ReconcileBlobs, vars
<1>5. ASSUME NEW o \in Object, NEW c \in Uploads[o], Upload(o, c) PROVE slipped \subseteq slipped'
  BY <1>5 DEF Upload
<1> QED
  BY <1>1, <1>2, <1>3, <1>4, <1>5 DEF Next

KeptInv ==
  /\ CountsInv
  /\ slipped = {} => HeldInv /\ IF Dedup THEN SharedInv /\ HoldersOwn ELSE OwnInv

LEMMA KeptNext == ASSUME KeptInv, CountsInv', [Next]_vars PROVE KeptInv'
<1> SUFFICES ASSUME slipped' = {}
             PROVE  HeldInv' /\ IF Dedup THEN SharedInv' /\ HoldersOwn' ELSE OwnInv'
  BY DEF KeptInv
<1>1. slipped = {}
  BY NextGrows
<1>2. CountsInv /\ HeldInv
  BY <1>1 DEF KeptInv
<1>3. HeldInv'
  BY <1>2, NextHeld
<1>4. Calm
  BY <1>1, <1>2, <1>3 DEF Calm
<1> QED
  BY <1>1, <1>3, <1>4, OwnStays, SharedStays, HoldersStay DEF KeptInv

\* Until something slips, no deletion reaches a key that a version or a
\* finalization at work counts on, and the row of a content points where its
\* versions are (uploads.ts, quarantine.ts, blobs.ts).
THEOREM KeptInvariance == Spec => []KeptInv
<1>1. Init => KeptInv
  BY CountsInit, HeldInit, OwnInit, SharedInit DEF KeptInv
<1>2. KeptInv /\ CountsInv' /\ [Next]_vars => KeptInv'
  BY KeptNext
<1> QED
  BY <1>1, <1>2, CountsInvariance, PTL DEF Spec

\* No content that a version holds is lost or replaced, whatever interleaves,
\* crashes or fails, unless one of the slips happened before, with dedup and
\* without (finalizeUploadForScan, deleteQuarantinedBytes, deleteEntry,
\* claimDriveBlobDestination).
THEOREM VersionsAreKept == Spec => []VersionsKept
<1>1. KeptInv => VersionsKept
  BY DEF KeptInv, VersionsKept, SharedInv, OwnInv
<1> QED
  BY <1>1, KeptInvariance, PTL
=============================================================================
