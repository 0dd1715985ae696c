------------------------------ MODULE DriveProofs ------------------------------
(***************************************************************************)
(* Proofs about Drive, for any number of files, contents, processes,       *)
(* versions, faults and whatever slips are allowed, with and without       *)
(* shared blobs.                                                           *)
(***************************************************************************)
EXTENDS Drive, FiniteSetTheorems, SequenceTheorems, WellFoundedInduction, TLAPS

\* The invariant by the part of the state it speaks about.
StoreOK == BlobTypeOK /\ IsFiniteSet(version) /\ Clean
CallsOK == worker \in [Process -> Call] /\ \A w \in Process : Knows(worker[w])
RowsOK == file \in [Object -> File] /\ job \in [Object -> Job] /\ Closed
CountsOK == slipped \subseteq Slips /\ faults \in 0..MaxFaults

\* What QuarantineHolds asks of a step.
Stays == \A o \in Object : file[o].status = "infected" =>
  \/ file'[o].status \in {"infected", "gone"}
  \/ "revert" \in slipped' /\ \E v \in VersionsOf(o) : RevertedTo(o, v)

LEMMA InvByParts == Inv <=> StoreOK /\ CallsOK /\ RowsOK /\ CountsOK
BY DEF Inv, TypeOK, StoreOK, CallsOK, RowsOK, CountsOK

LEMMA PartsGiveInv == StoreOK' /\ CallsOK' /\ RowsOK' /\ CountsOK' => Inv'
BY DEF Inv, TypeOK, StoreOK, CallsOK, RowsOK, CountsOK

-----------------------------------------------------------------------------
(* Keys.                                                                   *)

LEMMA KeysOfContent == ASSUME NEW c \in Content PROVE BlobKey(c, 0) \in Key
BY DriveBlobsAssumption DEF Key

LEMMA KeysOfFile ==
  ASSUME NEW o \in Object PROVE QuarantineKey(o) \in Key /\ OwnKey(o, 1) \in Key
<1>1. 1 \in 1..MaxVersions
  BY DriveBlobsAssumption
<1> QED
  BY <1>1 DEF Key

LEMMA NoneElsewhere == None \notin Object /\ None \notin Content /\ None \notin Process
BY DriveBlobsAssumption

LEMMA NextNumberType == ASSUME StoreOK, NEW o PROVE NextNumber(o) \in Nat /\ NextNumber(o) >= 1
<1>1. VersionsOf(o) \in SUBSET version
  BY DEF VersionsOf
<1>2. IsFiniteSet(VersionsOf(o))
  BY <1>1, FS_Subset DEF StoreOK
<1>3. Cardinality(VersionsOf(o)) \in Nat
  BY <1>2, FS_CardinalityType
<1> QED
  BY <1>3 DEF NextNumber

-----------------------------------------------------------------------------
(* What a step that writes one call, or one row, has to show.              *)

LEMMA CallChanges ==
  ASSUME CallsOK, NEW w \in Process, NEW r \in Call, Knows(r), Does(w, r)
  PROVE  CallsOK'
<1>1. worker' \in [Process -> Call]
  BY DEF CallsOK, Does
<1>2. ASSUME NEW v \in Process PROVE Knows(worker'[v])
  BY DEF CallsOK, Does
<1> QED
  BY <1>1, <1>2 DEF CallsOK

LEMMA IdleOK == Idle \in Call /\ Knows(Idle)
<1>1. Idle \in Call
  BY DriveBlobsAssumption DEF Idle, Call, Step, Status
<1>2. Knows(Idle)
  BY DEF Idle, Knows, Finalizing, Undoing, Expiring
<1> QED
  BY <1>1, <1>2

LEMMA CallsSame == ASSUME CallsOK, UNCHANGED worker PROVE CallsOK'
BY DEF CallsOK

LEMMA RowsChange ==
  ASSUME RowsOK, NEW o \in Object, NEW row \in File, NEW jrow \in Job,
         Rows(o, row), Jobs(o, jrow),
         row.status = "infected" => row.token = None /\ jrow.status = "none",
         file[o].status = "infected" => row.status \in {"infected", "gone"}
  PROVE  RowsOK' /\ Stays
<1>1. file' \in [Object -> File] /\ job' \in [Object -> Job]
  BY DEF RowsOK, Rows, Jobs
<1>2. ASSUME NEW p \in Object, p # o PROVE file'[p] = file[p] /\ job'[p] = job[p]
  BY <1>2 DEF RowsOK, Rows, Jobs
<1>3. file'[o] = row /\ job'[o] = jrow
  BY DEF RowsOK, Rows, Jobs
<1>4. Closed'
  BY <1>2, <1>3 DEF RowsOK, Closed
<1>5. Stays
  BY <1>2, <1>3 DEF Stays
<1> QED
  BY <1>1, <1>4, <1>5 DEF RowsOK

LEMMA RowChanges ==
  ASSUME RowsOK, NEW o \in Object, NEW row \in File, Rows(o, row), UNCHANGED job,
         row.status = "infected" => row.token = None /\ job[o].status = "none",
         file[o].status = "infected" => row.status \in {"infected", "gone"}
  PROVE  RowsOK' /\ Stays
<1>1. job[o] \in Job /\ Jobs(o, job[o])
  BY DEF RowsOK, Jobs
<1> QED
  BY <1>1, RowsChange

LEMMA JobChanges ==
  ASSUME RowsOK, NEW o \in Object, NEW jrow \in Job, Jobs(o, jrow), UNCHANGED file,
         file[o].status = "infected" => jrow.status = "none"
  PROVE  RowsOK' /\ Stays
<1>1. file[o] \in File /\ Rows(o, file[o])
  BY DEF RowsOK, Rows
<1>2. file[o].status = "infected" => file[o].token = None
  BY DEF RowsOK, Closed
<1> QED
  BY <1>1, <1>2, RowsChange

LEMMA RowsSame == ASSUME RowsOK, UNCHANGED <<file, job>> PROVE RowsOK' /\ Stays
BY DEF RowsOK, Closed, Stays

LEMMA StoreSame == ASSUME StoreOK, UNCHANGED blobVars PROVE StoreOK'
BY DEF StoreOK, BlobTypeOK, Clean, blobVars

LEMMA CountsSame == ASSUME CountsOK, UNCHANGED <<slipped, faults>> PROVE CountsOK'
BY DEF CountsOK

LEMMA FaultCounts == ASSUME CountsOK, Fault PROVE faults' \in 0..MaxFaults
BY DriveAssumption DEF CountsOK, Fault

LEMMA SlipCounts ==
  ASSUME CountsOK, NEW ok, NEW kind, Unless(ok, kind) PROVE slipped' \subseteq Slips
BY DEF CountsOK, Unless, Slip

LEMMA SlippedCounts ==
  ASSUME CountsOK, NEW kinds, Slipped(kinds) PROVE slipped' \subseteq Slips
BY DEF CountsOK, Slipped

LEMMA IdleEnds == ASSUME CallsOK, NEW w \in Process, Ends(w) PROVE CallsOK'
BY IdleOK, CallChanges DEF Ends

LEMMA GoesOn ==
  ASSUME CallsOK, NEW w \in Process, NEW s \in Step, Goes(w, s),
         Knows([worker[w] EXCEPT !.step = s])
  PROVE  CallsOK'
<1>1. [worker[w] EXCEPT !.step = s] \in Call
  BY DEF CallsOK, Call
<1> QED
  BY <1>1, CallChanges DEF Goes

\* A call that goes on to release its claim, or to report a failed job.
LEMMA GoesToEnd ==
  ASSUME CallsOK, NEW w \in Process, NEW s \in {"release", "jobfail", "unreserve", "look"}, Goes(w, s),
         s # "look" => worker[w].o \in Object
  PROVE  CallsOK'
<1>1. s \in Step
  BY DEF Step, Undoing, Cleaning
<1>2. [worker[w] EXCEPT !.step = s].step = s /\ [worker[w] EXCEPT !.step = s].o = worker[w].o
  BY DEF CallsOK, Call
<1>3. Knows([worker[w] EXCEPT !.step = s])
  BY <1>2 DEF Knows, Finalizing, Undoing, Expiring
<1> QED
  BY <1>1, <1>3, GoesOn

LEMMA UndoKeeps ==
  ASSUME Inv, NEW w \in Process, worker[w].step \in Finalizing, Goes(w, UndoStep(w))
  PROVE  CallsOK'
<1>1. CallsOK /\ worker[w] \in Call /\ Knows(worker[w])
  BY InvByParts DEF CallsOK
<1>2. worker[w].o \in Object
  BY <1>1 DEF Knows
<1>3. CASE UndoStep(w) \in {"unreserve", "release"}
  BY <1>1, <1>2, <1>3, GoesToEnd
<1>4. CASE UndoStep(w) = "check" /\ worker[w].wrote # None
  <2>1. worker[w].wrote \in Key
    BY <1>1, <1>4 DEF Call
  <2>2. /\ [worker[w] EXCEPT !.step = "check"].step = "check"
        /\ [worker[w] EXCEPT !.step = "check"].o = worker[w].o
        /\ [worker[w] EXCEPT !.step = "check"].wrote = worker[w].wrote
    BY <1>1 DEF Call
  <2>3. Knows([worker[w] EXCEPT !.step = "check"])
    BY <1>2, <2>1, <2>2 DEF Knows, Finalizing, Undoing, Expiring
  <2>4. "check" \in Step
    BY DEF Step, Undoing
  <2> QED
    BY <1>1, <1>4, <2>3, <2>4, GoesOn
<1> QED
  BY <1>3, <1>4 DEF UndoStep

LEMMA UndoStays ==
  ASSUME Inv, NEW w \in Process, worker[w].step \in Finalizing, Undo(w) PROVE Inv' /\ Stays
<1>1. CallsOK'
  BY UndoKeeps DEF Undo
<1>2. StoreOK' /\ RowsOK' /\ Stays /\ CountsOK'
  BY InvByParts, StoreSame, RowsSame, CountsSame DEF Undo
<1> QED
  BY <1>1, <1>2, PartsGiveInv

-----------------------------------------------------------------------------
(* Uploading and claiming.                                                 *)

LEMMA PrepareStays == ASSUME Inv, NEW o \in Object, Prepare(o) PROVE Inv' /\ Stays
<1>1. StoreOK /\ CallsOK /\ RowsOK /\ CountsOK /\ file[o] \in File /\ file[o].status = "none"
  BY InvByParts DEF RowsOK, Prepare
<1>2. [file[o] EXCEPT !.status = "pending_upload"] \in File
  BY <1>1 DEF File, Status
<1>3. [file[o] EXCEPT !.status = "pending_upload"].status = "pending_upload"
  BY <1>1 DEF File
<1>4. RowsOK' /\ Stays
  BY <1>1, <1>2, <1>3, RowChanges DEF Prepare
<1>5. StoreOK' /\ CallsOK' /\ CountsOK'
  BY <1>1, StoreSame, CallsSame, CountsSame DEF Prepare
<1> QED
  BY <1>4, <1>5, PartsGiveInv

LEMMA UploadStays ==
  ASSUME Inv, NEW o \in Object, NEW c \in Content, Upload(o, c) PROVE Inv' /\ Stays
<1>1. StoreOK /\ CallsOK /\ RowsOK /\ CountsOK
  BY InvByParts
<1>2. StoreOK'
  BY <1>1 DEF StoreOK, BlobTypeOK, Clean, Upload
<1>3. CallsOK' /\ RowsOK' /\ Stays /\ CountsOK'
  BY <1>1, CallsSame, RowsSame, CountsSame DEF Upload
<1> QED
  BY <1>2, <1>3, PartsGiveInv

LEMMA ClaimStays ==
  ASSUME Inv, NEW w \in Process, NEW o \in Object, NEW retry \in BOOLEAN,
         NEW inline \in Content \cup {None}, Claim(w, o, retry, inline)
  PROVE  Inv' /\ Stays
<1> DEFINE previous == IF file[o].status = "scan_processing" THEN file[o].previous
                                                             ELSE file[o].status
           row == [file[o] EXCEPT !.status = "scan_processing", !.token = w, !.previous = previous]
           call == [Idle EXCEPT !.step = "scan", !.o = o, !.retry = retry, !.inline = inline,
                       !.previous = previous, !.reserved = file[o].key,
                       !.number = NextNumber(o)]
<1>1. StoreOK /\ CallsOK /\ RowsOK /\ CountsOK /\ file[o] \in File
  BY InvByParts DEF RowsOK
<1>2. Claimable(o, retry) /\ NextNumber(o) <= MaxVersions /\ Rows(o, row) /\ Does(w, call)
  BY DEF Claim
<1>3. file[o].status # "infected"
  BY <1>2 DEF Claimable
<1>4. previous \in Status \ {"infected"} /\ file[o].key \in Key
  BY <1>1, <1>3 DEF File
<1>5. NextNumber(o) \in 1..MaxVersions
  BY <1>1, <1>2, NextNumberType, DriveBlobsAssumption
<1> HIDE DEF previous
<1>6. row \in File /\ row.status = "scan_processing"
  BY <1>1, <1>4 DEF File, Status
<1>7. call \in Call
  <2>1. "scan" \in Step /\ NextNumber(o) \in 0..MaxVersions
    BY <1>5, DriveBlobsAssumption DEF Step, Finalizing
  <2> QED
    BY <1>4, <2>1, IdleOK DEF Call
<1>8. Knows(call)
  BY <1>4, <1>5 DEF Knows, Idle, Finalizing, Undoing, Expiring
<1> HIDE DEF row, call
<1>9. RowsOK' /\ Stays
  BY <1>1, <1>2, <1>3, <1>6, RowChanges DEF Claim
<1>10. CallsOK'
  BY <1>1, <1>2, <1>7, <1>8, CallChanges
<1>11. StoreOK'
  BY <1>1, StoreSame DEF Claim
<1>12. slipped' \subseteq Slips /\ faults' = faults
  BY <1>1, SlippedCounts DEF Claim
<1> QED
  BY <1>1, <1>9, <1>10, <1>11, <1>12, PartsGiveInv DEF CountsOK

LEMMA FinalizeStays ==
  ASSUME Inv, NEW w \in Process, NEW o \in Object, NEW inline \in Uploads[o] \cup {None},
         Finalize(w, o, inline)
  PROVE  Inv' /\ Stays
<1>1. inline \in Content \cup {None}
  BY DriveAssumption
<1> QED
  BY <1>1, ClaimStays DEF Finalize

LEMMA FinalizeJobStays ==
  ASSUME Inv, NEW w \in Process, FinalizeJob(w) PROVE Inv' /\ Stays
<1>1. StoreOK /\ CallsOK /\ RowsOK /\ CountsOK /\ worker[w] \in Call /\ Knows(worker[w])
  BY InvByParts DEF CallsOK
<1>2. worker[w].o \in Object
  BY <1>1 DEF Knows, FinalizeJob
<1>3. CASE Claim(w, worker[w].o, TRUE, None)
  BY <1>2, <1>3, ClaimStays
<1>4. CASE Goes(w, "jobfail") /\ UNCHANGED <<blobVars, file, job, slipped, faults>>
  <2>1. CallsOK'
    BY <1>1, <1>2, <1>4, GoesToEnd
  <2> QED
    BY <1>1, <1>4, <2>1, StoreSame, RowsSame, CountsSame, PartsGiveInv
<1> QED
  BY <1>3, <1>4 DEF FinalizeJob

-----------------------------------------------------------------------------
(* The finalization.                                                       *)

\* What a finalization knows of itself.
LEMMA FinalizingKnows ==
  ASSUME Inv, NEW w \in Process, worker[w].step \in Finalizing
  PROVE  /\ StoreOK /\ CallsOK /\ RowsOK /\ CountsOK
         /\ worker[w] \in Call /\ Knows(worker[w])
         /\ worker[w].o \in Object
         /\ worker[w].reserved \in Key
         /\ worker[w].number \in 1..MaxVersions
         /\ file[worker[w].o] \in File
         /\ job[worker[w].o] \in Job
         /\ Source(w) \in Content \cup {None}
<1>1. StoreOK /\ CallsOK /\ RowsOK /\ CountsOK /\ worker[w] \in Call /\ Knows(worker[w])
  BY InvByParts DEF CallsOK
<1>2. /\ worker[w].o \in Object
      /\ worker[w].reserved \in Key
      /\ worker[w].number \in 1..MaxVersions
  BY <1>1 DEF Knows
<1>3. bytes[worker[w].reserved] \in Content \cup {None}
  BY <1>1, <1>2 DEF StoreOK, BlobTypeOK
<1>4. Source(w) \in Content \cup {None}
  BY <1>1, <1>3 DEF Source, Call
<1> QED
  BY <1>1, <1>2, <1>4 DEF RowsOK

LEMMA CallsOf ==
  ASSUME NEW r \in Call, NEW s \in Step, NEW c \in Content \cup {None},
         NEW k \in Key \cup {None}, NEW b \in BOOLEAN
  PROVE  /\ [r EXCEPT !.step = s, !.content = c] \in Call
         /\ [r EXCEPT !.step = s, !.content = c, !.key = k] \in Call
         /\ [r EXCEPT !.step = s, !.key = k, !.kept = b] \in Call
<1>1. [r EXCEPT !.step = s, !.content = c] \in Call
  BY DEF Call
<1>2. [r EXCEPT !.step = s, !.content = c, !.key = k] \in Call
  BY DEF Call
<1>3. [r EXCEPT !.step = s, !.key = k, !.kept = b] \in Call
  BY DEF Call
<1> QED
  BY <1>1, <1>2, <1>3

LEMMA ScanStays == ASSUME Inv, NEW w \in Process, Scan(w) PROVE Inv' /\ Stays
<1> DEFINE r == worker[w]
           c == Source(w)
           home == IF r.inline # None /\ r.previous = "ready"
                     THEN OwnKey(r.o, r.number) ELSE r.reserved
           step == IF Dedup THEN "reserve" ELSE IF r.inline # None THEN "write" ELSE "commit"
           key == IF Dedup THEN None ELSE home
<1>1. r.step = "scan" /\ r.step \in Finalizing
  BY DEF Scan, Finalizing
<1>2. StoreOK /\ CallsOK /\ RowsOK /\ CountsOK /\ r \in Call /\ Knows(r)
  BY <1>1, FinalizingKnows
<1>3. r.o \in Object /\ r.reserved \in Key /\ r.number \in 1..MaxVersions
      /\ c \in Content \cup {None}
  BY <1>1, FinalizingKnows
<1>4. CASE Undo(w)
  BY <1>1, <1>4, UndoStays
<1>5. CASE /\ c # None
           /\ UNCHANGED <<blobVars, file, job, slipped>>
           /\ \/ Fault /\ Does(w, [r EXCEPT !.step = "unscanned", !.content = c])
              \/ /\ c \in Infected
                 /\ Does(w, [r EXCEPT !.step = "infected", !.content = c])
                 /\ UNCHANGED faults
              \/ /\ c \notin Infected
                 /\ Does(w, [r EXCEPT !.step = step, !.content = c, !.key = key])
                 /\ UNCHANGED faults
  <2>1. CountsOK' /\ StoreOK' /\ RowsOK' /\ Stays
    BY <1>2, <1>5, FaultCounts, StoreSame, RowsSame DEF CountsOK
  <2>2. c \in Content
    BY <1>3, <1>5
  <2>3. home \in Key
    BY <1>3 DEF Key
  <2>4. key \in Key \cup {None} /\ (~Dedup => key \in Key)
    BY <2>3
  <2> HIDE DEF key, home, c
  <2>5. ASSUME NEW s \in {"unscanned", "infected"}, Does(w, [r EXCEPT !.step = s, !.content = c])
        PROVE  CallsOK'
    <3>1. [r EXCEPT !.step = s, !.content = c] \in Call
      <4>1. s \in Step
        BY DEF Step, Finalizing
      <4> QED
        BY <1>2, <2>2, <4>1, CallsOf
    <3>2. Knows([r EXCEPT !.step = s, !.content = c])
      BY <1>2, <1>3, <2>2 DEF Knows, Call, Finalizing, Undoing, Expiring
    <3> QED
      BY <1>2, <2>5, <3>1, <3>2, CallChanges
  <2>6. ASSUME c \notin Infected, Does(w, [r EXCEPT !.step = step, !.content = c, !.key = key])
        PROVE  CallsOK'
    <3>1. step \in {"reserve", "write", "commit"} /\ (step # "reserve" => key \in Key)
      BY <2>4, DriveBlobsAssumption
    <3> HIDE DEF step
    <3>2. [r EXCEPT !.step = step, !.content = c, !.key = key] \in Call
      <4>1. step \in Step
        BY <3>1 DEF Step, Finalizing
      <4> QED
        BY <1>2, <2>2, <2>4, <4>1, CallsOf
    <3>3. Knows([r EXCEPT !.step = step, !.content = c, !.key = key])
      BY <1>2, <1>3, <2>2, <2>4, <2>6, <3>1 DEF Knows, Call, Finalizing, Undoing, Expiring
    <3> QED
      BY <1>2, <2>6, <3>2, <3>3, CallChanges
  <2> QED
    BY <1>5, <2>1, <2>5, <2>6, PartsGiveInv
<1> QED
  BY <1>4, <1>5 DEF Scan

LEMMA FailureIsJob ==
  ASSUME NEW j \in Job
  PROVE  /\ j.status # "dead" => Failed(j) \in Job
         /\ FailureRecorded(j) \in Job
         /\ \A k \in Job : StatusOf(k) \in {"scan_dead_letter", "scan_pending"}
<1>1. ASSUME j.status # "dead" PROVE Failed(j) \in Job
  BY <1>1, DriveAssumption DEF Failed, Job
<1>2. FailureRecorded(j) \in Job
  BY <1>1 DEF FailureRecorded
<1> QED
  BY <1>1, <1>2 DEF StatusOf

LEMMA FailedFile ==
  ASSUME NEW f \in File, NEW s \in Status, NEW c \in Content \cup {None}
  PROVE  /\ [f EXCEPT !.status = s, !.token = None, !.sha = c] \in File
         /\ [f EXCEPT !.status = s, !.token = None, !.sha = c].status = s
BY DEF File

LEMMA CommitScanFailureStays ==
  ASSUME Inv, NEW w \in Process, CommitScanFailure(w) PROVE Inv' /\ Stays
<1> DEFINE r == worker[w]
           jrow == FailureRecorded(job[r.o])
           row == [file[r.o] EXCEPT !.status = StatusOf(jrow), !.token = None, !.sha = r.content]
<1>1. r.step = "unscanned" /\ r.step \in Finalizing
  BY DEF CommitScanFailure, Finalizing
<1>2. StoreOK /\ CallsOK /\ RowsOK /\ CountsOK /\ r \in Call /\ Knows(r)
      /\ r.o \in Object /\ file[r.o] \in File /\ job[r.o] \in Job
  BY <1>1, FinalizingKnows
<1>3. CASE Undo(w)
  BY <1>1, <1>3, UndoStays
<1>4. CASE /\ Owns(w)
           /\ Jobs(r.o, jrow)
           /\ Rows(r.o, row)
           /\ \/ Unanswered(w)
              \/ /\ IF r.retry THEN Goes(w, "jobfail") ELSE Ends(w)
                 /\ UNCHANGED faults
           /\ UNCHANGED <<blobVars, slipped>>
  <2>1. jrow \in Job /\ StatusOf(jrow) \in {"scan_dead_letter", "scan_pending"}
    BY <1>2, FailureIsJob
  <2> HIDE DEF jrow
  <2>2. row \in File /\ row.status \in {"scan_dead_letter", "scan_pending"}
    <3>1. StatusOf(jrow) \in Status /\ r.content \in Content \cup {None}
      BY <1>2, <2>1 DEF Status, Call
    <3>2. file[r.o] \in File
      BY <1>2
    <3> DEFINE f == file[r.o]
               s == StatusOf(jrow)
               c == r.content
    <3>3. f \in File /\ s \in Status /\ c \in Content \cup {None}
      BY <3>1, <3>2
    <3>4. row = [f EXCEPT !.status = s, !.token = None, !.sha = c]
      OBVIOUS
    <3> HIDE DEF f, s, c, row
    <3>5. row \in File /\ row.status = s
      BY <3>3, <3>4, FailedFile
    <3> QED
      BY <2>1, <3>5 DEF s
  <2>3. file[r.o].status # "infected"
    BY <1>4 DEF Owns
  <2> HIDE DEF row
  <2>4. RowsOK' /\ Stays
    BY <1>2, <1>4, <2>1, <2>2, <2>3, RowsChange
  <2>5. CallsOK'
    BY <1>1, <1>2, <1>4, GoesToEnd, IdleEnds, UndoKeeps DEF Unanswered
  <2>6. CountsOK'
    BY <1>2, <1>4, FaultCounts DEF Unanswered, CountsOK
  <2> QED
    BY <1>2, <1>4, <2>4, <2>5, <2>6, StoreSame, PartsGiveInv
<1> QED
  BY <1>3, <1>4 DEF CommitScanFailure

LEMMA SetAsideStays == ASSUME Inv, NEW w \in Process, SetAside(w) PROVE Inv' /\ Stays
<1> DEFINE r == worker[w]
           next == [r EXCEPT !.step = "quarantine", !.wrote = QuarantineKey(r.o)]
<1>1. r.step = "infected" /\ r.step \in Finalizing
  BY DEF SetAside, Finalizing
<1>2. StoreOK /\ CallsOK /\ RowsOK /\ CountsOK /\ r \in Call /\ Knows(r)
      /\ r.o \in Object /\ r.reserved \in Key /\ r.number \in 1..MaxVersions
      /\ Source(w) \in Content \cup {None}
  BY <1>1, FinalizingKnows
<1>3. r.content \in Content
  BY <1>1, <1>2 DEF Knows, Finalizing
<1>4. RowsOK' /\ Stays
  BY <1>2, RowsSame DEF SetAside
<1>5. CountsOK'
  BY <1>2, FaultCounts DEF SetAside, CountsOK
<1>6. QuarantineKey(r.o) \in Key
  BY <1>2, KeysOfFile
<1>7. CASE Does(w, next) /\ bytes' = [bytes EXCEPT ![QuarantineKey(r.o)] = Source(w)]
  <2>1. StoreOK'
    BY <1>2, <1>7 DEF StoreOK, BlobTypeOK, Clean, SetAside
  <2>2. next \in Call
    BY <1>2, <1>6 DEF Call, Step, Finalizing
  <2>3. Knows(next)
    BY <1>2, <1>3 DEF Knows, Call, Finalizing, Undoing, Expiring
  <2>4. CallsOK'
    BY <1>2, <1>7, <2>2, <2>3, CallChanges
  <2> QED
    BY <1>4, <1>5, <2>1, <2>4, PartsGiveInv
<1>8. CASE Goes(w, "quarantine") /\ UNCHANGED bytes
  <2>1. StoreOK'
    BY <1>2, <1>8 DEF StoreOK, BlobTypeOK, Clean, SetAside
  <2>2. Knows([r EXCEPT !.step = "quarantine"])
    BY <1>2, <1>3 DEF Knows, Call, Finalizing, Undoing, Expiring
  <2>3. "quarantine" \in Step
    BY DEF Step, Finalizing
  <2>4. CallsOK'
    BY <1>2, <1>8, <2>2, <2>3, GoesOn
  <2> QED
    BY <1>4, <1>5, <2>1, <2>4, PartsGiveInv
<1> QED
  BY <1>7, <1>8 DEF SetAside

LEMMA TendsKeeps ==
  ASSUME CallsOK, NEW w \in Process, NEW K \in SUBSET Key, Tends(w, K) PROVE CallsOK'
<1> DEFINE next == [Idle EXCEPT !.step = "look", !.todo = K]
<1>1. next \in Call
  BY IdleOK DEF Call, Step, Cleaning
<1>2. Knows(next)
  BY DEF Knows, Idle, Finalizing, Undoing, Expiring
<1>3. CASE Does(w, next)
  BY <1>1, <1>2, <1>3, CallChanges
<1>4. CASE Does(w, Idle)
  BY <1>4, IdleOK, CallChanges
<1> QED
  BY <1>3, <1>4 DEF Tends

LEMMA QueuedType ==
  ASSUME StoreOK, NEW K
  PROVE  Queued(K) \in [Key -> {"none", "pending", "processing", "completed"}]
BY DEF StoreOK, BlobTypeOK, Queued

LEMMA CommitInfectedStays ==
  ASSUME Inv, NEW w \in Process, CommitInfected(w) PROVE Inv' /\ Stays
<1> DEFINE r == worker[w]
           doomed == {k \in {r.wrote} : k # None} \cup {k \in {r.reserved} : r.inline = None}
           place == IF r.wrote = None THEN file[r.o].key ELSE r.wrote
           row == [file[r.o] EXCEPT !.status = "infected", !.token = None, !.sha = r.content,
                                    !.key = place]
<1>1. r.step = "quarantine" /\ r.step \in Finalizing
  BY DEF CommitInfected, Finalizing
<1>2. StoreOK /\ CallsOK /\ RowsOK /\ CountsOK /\ r \in Call /\ r.o \in Object
      /\ r.reserved \in Key /\ file[r.o] \in File /\ Knows(r)
  BY <1>1, FinalizingKnows
<1>3. CASE Undo(w)
  BY <1>1, <1>3, UndoStays
<1>4. CASE /\ Owns(w)
           /\ Jobs(r.o, NoJob)
           /\ Rows(r.o, row)
           /\ deletion' = Queued(doomed)
           /\ Unanswered(w) \/ (Tends(w, doomed) /\ UNCHANGED faults)
           /\ UNCHANGED <<version, blob, reservation, bytes, slipped>>
  <2>1. row \in File /\ row.status = "infected" /\ row.token = None
    <3>1. place \in Key
      BY <1>2 DEF File, Call
    <3> HIDE DEF place
    <3> QED
      BY <1>2, <3>1 DEF File, Status, Call
  <2>2. NoJob \in Job /\ NoJob.status = "none"
    BY DriveAssumption DEF NoJob, Job
  <2>3. file[r.o].status # "infected"
    BY <1>4 DEF Owns
  <2>4. doomed \in SUBSET Key
    BY <1>2 DEF Call
  <2> HIDE DEF row, doomed
  <2>5. RowsOK' /\ Stays
    BY <1>2, <1>4, <2>1, <2>2, <2>3, RowsChange
  <2>6. CallsOK'
    BY <1>1, <1>2, <1>4, <2>4, TendsKeeps, UndoKeeps DEF Unanswered
  <2>7. StoreOK'
    BY <1>2, <1>4, QueuedType DEF StoreOK, BlobTypeOK, Clean
  <2>8. CountsOK'
    BY <1>2, <1>4, FaultCounts DEF Unanswered, CountsOK
  <2> QED
    BY <1>2, <1>4, <2>5, <2>6, <2>7, <2>8, PartsGiveInv
<1> QED
  BY <1>3, <1>4 DEF CommitInfected

LEMMA ReserveStays == ASSUME Inv, NEW w \in Process, Reserve(w) PROVE Inv' /\ Stays
<1> DEFINE r == worker[w]
<1>1. r.step = "reserve" /\ r.step \in Finalizing
  BY DEF Reserve, Finalizing
<1>2. StoreOK /\ CallsOK /\ RowsOK /\ CountsOK /\ r \in Call /\ r.o \in Object
      /\ r.reserved \in Key /\ r.number \in 1..MaxVersions /\ Knows(r)
  BY <1>1, FinalizingKnows
<1>3. r.content \in Content /\ r.content \notin Infected
  BY <1>1, <1>2 DEF Knows, Finalizing
<1>4. CASE Undo(w)
  BY <1>1, <1>4, UndoStays
<1>5. ASSUME NEW k \in Key, NEW s \in {"commit", "write"},
             blob' = BlobClaimed(r.content, k),
             reservation' = Reserved(r.o, k, w),
             Does(w, [r EXCEPT !.step = s, !.key = k]),
             slipped' \subseteq Slips,
             UNCHANGED <<version, deletion, bytes, file, job, faults>>
      PROVE  Inv' /\ Stays
  <2>1. [r EXCEPT !.step = s, !.key = k] \in Call
    BY <1>2, <1>5 DEF Call, Step, Finalizing
  <2>2. Knows([r EXCEPT !.step = s, !.key = k])
    BY <1>2, <1>3, <1>5 DEF Knows, Call, Finalizing, Undoing, Expiring
  <2>3. CallsOK'
    BY <1>2, <1>5, <2>1, <2>2, CallChanges
  <2>4. blob' \in [Content -> Blob]
    BY <1>2, <1>3, <1>5 DEF BlobClaimed, StoreOK, BlobTypeOK, Blob
  <2>5. reservation' \in [Object -> Reservation]
    BY <1>2, <1>5 DEF Reserved, StoreOK, BlobTypeOK, Reservation
  <2>6. StoreOK'
    BY <1>2, <1>5, <2>4, <2>5 DEF StoreOK, BlobTypeOK, Clean
  <2> QED
    BY <1>2, <1>5, <2>3, <2>6, RowsSame, PartsGiveInv DEF CountsOK
<1> QED
  BY <1>2, <1>4, <1>5, SlipCounts DEF Reserve

LEMMA WriteStays == ASSUME Inv, NEW w \in Process, Write(w) PROVE Inv' /\ Stays
<1> DEFINE r == worker[w]
           next == [r EXCEPT !.step = "commit", !.wrote = r.key]
<1>1. r.step = "write" /\ r.step \in Finalizing
  BY DEF Write, Finalizing
<1>2. StoreOK /\ CallsOK /\ RowsOK /\ CountsOK /\ r \in Call /\ r.o \in Object
      /\ r.reserved \in Key /\ r.number \in 1..MaxVersions /\ Knows(r)
      /\ Source(w) \in Content \cup {None}
  BY <1>1, FinalizingKnows
<1>3. r.content \in Content /\ r.content \notin Infected /\ r.key \in Key
  BY <1>1, <1>2 DEF Knows, Finalizing
<1>4. CASE Undo(w)
  BY <1>1, <1>4, UndoStays
<1>5. CASE /\ bytes' = [bytes EXCEPT ![r.key] = Source(w)]
           /\ Does(w, next)
           /\ UNCHANGED <<version, blob, reservation, deletion, file, job, slipped, faults>>
  <2>1. next \in Call
    BY <1>2, <1>3 DEF Call, Step, Finalizing
  <2>2. Knows(next)
    BY <1>2, <1>3 DEF Knows, Call, Finalizing, Undoing, Expiring
  <2>3. CallsOK'
    BY <1>2, <1>5, <2>1, <2>2, CallChanges
  <2>4. StoreOK'
    BY <1>2, <1>3, <1>5 DEF StoreOK, BlobTypeOK, Clean
  <2> QED
    BY <1>2, <1>5, <2>3, <2>4, RowsSame, CountsSame, PartsGiveInv
<1> QED
  BY <1>4, <1>5 DEF Write

LEMMA FailStays == ASSUME Inv, NEW w \in Process, Fail(w) PROVE Inv' /\ Stays
<1>1. StoreOK /\ RowsOK /\ CountsOK
  BY InvByParts
<1>2. CallsOK'
  BY UndoKeeps DEF Fail
<1>3. CountsOK'
  BY <1>1, FaultCounts, SlipCounts DEF Fail, CountsOK
<1> QED
  BY <1>1, <1>2, <1>3, StoreSame, RowsSame, PartsGiveInv DEF Fail

-----------------------------------------------------------------------------
(* Counting references.                                                    *)

\* A set of numbers that is not empty has a least one.
LEMMA LeastNumber ==
  ASSUME NEW S \in SUBSET Nat, S # {} PROVE \E x \in S : \A y \in S : x <= y
<1> DEFINE Below == {p \in Nat \X Nat : p[1] < p[2]}
<1>1. IsWellFoundedOn(Below, Nat)
  BY NatLessThanWellFounded DEF OpToRel
<1>2. \A x, y \in Nat : x < y => <<x, y>> \in Below
  OBVIOUS
<1> HIDE DEF Below
<1>3. PICK x \in S : \A y \in S : <<y, x>> \notin Below
  BY <1>1, WFMin
<1>4. ASSUME NEW y \in S PROVE x <= y
  <2>1. ~ (y < x)
    BY <1>2, <1>3
  <2> QED
    BY <2>1
<1> QED
  BY <1>4

\* Of the versions that hold a content at a blob key, one has the lowest key.
LEMMA LowestKey ==
  ASSUME NEW held \in SUBSET Version, held # {}, \A v \in held : IsBlobKey(v.key)
  PROVE  \E v \in held : \A u \in held : v.key[3] <= u.key[3]
<1> DEFINE places == {v.key[3] : v \in held}
<1>1. ASSUME NEW k \in Key, IsBlobKey(k) PROVE k[3] \in Nat
  BY <1>1, DriveBlobsAssumption DEF Key, IsBlobKey, OwnKey, QuarantineKey, BlobKey
<1>2. places \in SUBSET Nat /\ places # {}
  BY <1>1 DEF Version
<1>3. PICK x \in places : \A y \in places : x <= y
  <2> HIDE DEF places
  <2> QED BY <1>2, LeastNumber
<1> QED
  BY <1>3

LEMMA RecountedType ==
  ASSUME NEW b \in [Content -> Blob], NEW V \in SUBSET Version, IsFiniteSet(V)
  PROVE  Recounted(b, V) \in [Content -> Blob]
<1>1. ASSUME NEW c \in Content PROVE Recounted(b, V)[c] \in Blob
  <2> DEFINE held == VersionsHolding(c, V)
             low == CHOOSE v \in held : \A u \in held : v.key[3] <= u.key[3]
  <2>1. held \in SUBSET V /\ \A v \in held : IsBlobKey(v.key)
    BY DEF VersionsHolding
  <2>2. Cardinality(held) \in Int
    BY <2>1, FS_Subset, FS_CardinalityType
  <2>3. CASE held = {}
    BY <2>3 DEF Recounted
  <2>4. CASE held # {}
    <3> HIDE DEF held
    <3>1. low \in held
      BY <2>1, <2>4, LowestKey
    <3>2. low.key \in Key
      BY <2>1, <3>1 DEF Version
    <3> HIDE DEF low
    <3>3. [key |-> low.key, refs |-> Cardinality(held)] \in Blob
      BY <2>2, <3>2 DEF Blob
    <3>4. Recounted(b, V)[c] = [key |-> low.key, refs |-> Cardinality(held)]
      BY <2>4 DEF Recounted, low, held
    <3> QED
      BY <3>3, <3>4
  <2> QED
    BY <2>3, <2>4
<1> QED
  BY <1>1 DEF Recounted

LEMMA AddsType ==
  ASSUME StoreOK, CountsOK, NEW c \in Content, NEW k \in Key, NEW kinds, Adds(c, k, kinds)
  PROVE  blob' \in [Content -> Blob] /\ slipped' \subseteq Slips
<1>1. blob \in [Content -> Blob] /\ version \in SUBSET Version /\ IsFiniteSet(version)
  BY DEF StoreOK, BlobTypeOK
<1>2. BlobReferenced(c, k) \in [Content -> Blob]
  BY <1>1 DEF BlobReferenced, Blob
<1>3. Recounted(BlobReferenced(c, k), version)[c] \in Blob
  BY <1>1, <1>2, RecountedType
<1>4. blob' \in [Content -> Blob]
  BY <1>2, <1>3 DEF Adds
<1> QED
  BY <1>4, SlippedCounts DEF Adds

LEMMA UnreservedType ==
  ASSUME StoreOK, NEW o \in Object, NEW w
  PROVE  Unreserved(o, w) \in [Object -> Reservation]
BY DEF StoreOK, BlobTypeOK, Unreserved, Reservation, NoReservation

LEMMA CommitCleanStays ==
  ASSUME Inv, NEW w \in Process, CommitClean(w) PROVE Inv' /\ Stays
<1> DEFINE r == worker[w]
           doomed == Staged(r)
           new == [object |-> r.o, number |-> r.number, key |-> r.key, content |-> r.content]
           row == [file[r.o] EXCEPT !.status = "ready", !.token = None,
                                    !.key = r.key, !.sha = r.content]
<1>1. r.step = "commit" /\ r.step \in Finalizing
  BY DEF CommitClean, Finalizing
<1>2. StoreOK /\ CallsOK /\ RowsOK /\ CountsOK /\ r \in Call /\ r.o \in Object
      /\ r.reserved \in Key /\ r.number \in 1..MaxVersions /\ file[r.o] \in File /\ Knows(r)
  BY <1>1, FinalizingKnows
<1>3. r.content \in Content /\ r.content \notin Infected /\ r.key \in Key
  BY <1>1, <1>2 DEF Knows, Finalizing
<1>4. CASE Undo(w)
  BY <1>1, <1>4, UndoStays
<1>5. ASSUME NEW lost \in BOOLEAN,
             Owns(w),
             IF Dedup THEN Adds(r.content, r.key, CommitSlips(r, lost))
                      ELSE Slipped(CommitSlips(r, lost)) /\ UNCHANGED blob,
             reservation' = Unreserved(r.o, w),
             version' = version \cup {new},
             Rows(r.o, row),
             Jobs(r.o, NoJob),
             deletion' = Queued(doomed),
             IF lost THEN Unanswered(w) ELSE Tends(w, doomed) /\ UNCHANGED faults,
             UNCHANGED bytes
      PROVE  Inv' /\ Stays
  <2>1. row \in File /\ row.status = "ready"
    BY <1>2, <1>3 DEF File, Status
  <2>2. NoJob \in Job /\ NoJob.status = "none"
    BY DriveAssumption DEF NoJob, Job
  <2>3. file[r.o].status # "infected"
    BY <1>5 DEF Owns
  <2>4. doomed \in SUBSET Key
    BY <1>2 DEF Staged
  <2>5. new \in Version /\ new.content \notin Infected
    BY <1>2, <1>3 DEF Version
  <2> HIDE DEF row, doomed, new
  <2>6. RowsOK' /\ Stays
    BY <1>2, <1>5, <2>1, <2>2, <2>3, RowsChange
  <2>7. CallsOK' /\ faults' \in 0..MaxFaults
    <3>1. CASE lost
      BY <1>1, <1>2, <1>5, <3>1, UndoKeeps, FaultCounts DEF Unanswered
    <3>2. CASE ~lost
      BY <1>2, <1>5, <2>4, <3>2, TendsKeeps DEF CountsOK
    <3> QED
      BY <3>1, <3>2
  <2>8. blob' \in [Content -> Blob] /\ slipped' \subseteq Slips
    BY <1>2, <1>3, <1>5, AddsType, SlippedCounts DEF StoreOK, BlobTypeOK
  <2>9. version' \subseteq Version /\ IsFiniteSet(version') /\ Clean'
    BY <1>2, <1>5, <2>5, FS_AddElement DEF StoreOK, BlobTypeOK, Clean
  <2>10. /\ reservation' \in [Object -> Reservation]
         /\ deletion' \in [Key -> {"none", "pending", "processing", "completed"}]
    BY <1>2, <1>5, QueuedType, UnreservedType
  <2>11. StoreOK'
    BY <1>2, <1>5, <2>8, <2>9, <2>10 DEF StoreOK, BlobTypeOK
  <2> QED
    BY <1>2, <1>5, <2>6, <2>7, <2>8, <2>11, PartsGiveInv DEF CountsOK
<1> QED
  BY <1>4, <1>5 DEF CommitClean

-----------------------------------------------------------------------------
(* The catch block.                                                        *)

\* What the catch block knows of itself.
LEMMA UndoingKnows ==
  ASSUME Inv, NEW w \in Process, worker[w].step \in Undoing
  PROVE  /\ StoreOK /\ CallsOK /\ RowsOK /\ CountsOK
         /\ worker[w] \in Call /\ Knows(worker[w])
         /\ worker[w].o \in Object
BY InvByParts DEF CallsOK, Knows

LEMMA UnreserveStays == ASSUME Inv, NEW w \in Process, Unreserve(w) PROVE Inv' /\ Stays
<1> DEFINE r == worker[w]
<1>1. r.step \in Undoing
  BY DEF Unreserve, Undoing
<1>2. StoreOK /\ CallsOK /\ RowsOK /\ CountsOK /\ r \in Call /\ Knows(r) /\ r.o \in Object
  BY <1>1, UndoingKnows
<1>3. ASSUME r.wrote # None, Goes(w, "check") PROVE CallsOK'
  <2>1. Knows([r EXCEPT !.step = "check"])
    BY <1>2, <1>3 DEF Knows, Call, Finalizing, Undoing, Expiring
  <2>2. "check" \in Step
    BY DEF Step, Undoing
  <2> QED
    BY <1>2, <1>3, <2>1, <2>2, GoesOn
<1>4. ASSUME Goes(w, "release") PROVE CallsOK'
  BY <1>2, <1>4, GoesToEnd
<1>5. CallsOK'
  BY <1>3, <1>4 DEF Unreserve
<1>6. StoreOK'
  BY <1>2, UnreservedType DEF StoreOK, BlobTypeOK, Clean, Unreserve
<1>7. RowsOK' /\ Stays /\ CountsOK'
  BY <1>2, RowsSame, CountsSame DEF Unreserve
<1> QED
  BY <1>5, <1>6, <1>7, PartsGiveInv

LEMMA CheckWrittenStays ==
  ASSUME Inv, NEW w \in Process, CheckWritten(w) PROVE Inv' /\ Stays
<1> DEFINE r == worker[w]
<1>1. r.step = "check" /\ r.step \in Undoing
  BY DEF CheckWritten, Undoing
<1>2. StoreOK /\ CallsOK /\ RowsOK /\ CountsOK /\ r \in Call /\ Knows(r) /\ r.o \in Object
  BY <1>1, UndoingKnows
<1>3. ASSUME Goes(w, "discard") PROVE CallsOK'
  <2>1. Knows([r EXCEPT !.step = "discard"])
    BY <1>1, <1>2 DEF Knows, Call, Finalizing, Undoing, Expiring
  <2>2. "discard" \in Step
    BY DEF Step, Undoing
  <2> QED
    BY <1>2, <1>3, <2>1, <2>2, GoesOn
<1>4. ASSUME Goes(w, "release") PROVE CallsOK'
  BY <1>2, <1>4, GoesToEnd
<1>5. CallsOK'
  BY <1>3, <1>4 DEF CheckWritten
<1> QED
  BY <1>2, <1>5, StoreSame, RowsSame, CountsSame, PartsGiveInv DEF CheckWritten

LEMMA DiscardStays == ASSUME Inv, NEW w \in Process, Discard(w) PROVE Inv' /\ Stays
<1>1. worker[w].step = "discard" /\ worker[w].step \in Undoing
  BY DEF Discard, Undoing
<1>2. StoreOK /\ CallsOK /\ RowsOK /\ CountsOK /\ Knows(worker[w]) /\ worker[w].o \in Object
  BY <1>1, UndoingKnows
<1>3. worker[w].wrote \in Key
  BY <1>1, <1>2 DEF Knows
<1>4. StoreOK'
  BY <1>2, <1>3, QueuedType DEF StoreOK, BlobTypeOK, Clean, Discard
<1>5. CallsOK'
  BY <1>2, GoesToEnd DEF Discard
<1>6. RowsOK' /\ Stays
  BY <1>2, RowsSame DEF Discard
<1>7. CountsOK'
  BY <1>2, FaultCounts DEF Discard, CountsOK
<1> QED
  BY <1>4, <1>5, <1>6, <1>7, PartsGiveInv

LEMMA ReleaseStays == ASSUME Inv, NEW w \in Process, Release(w) PROVE Inv' /\ Stays
<1> DEFINE r == worker[w]
           row == [file[r.o] EXCEPT !.status = r.previous, !.token = None]
<1>1. r.step \in Undoing
  BY DEF Release, Undoing
<1>2. StoreOK /\ CallsOK /\ RowsOK /\ CountsOK /\ r \in Call /\ r.o \in Object
      /\ file[r.o] \in File
  BY <1>1, UndoingKnows DEF RowsOK
<1>3. ASSUME file[r.o].token = w, Rows(r.o, row) PROVE RowsOK' /\ Stays
  <2>1. row \in File /\ row.status # "infected"
    BY <1>2 DEF File, Call
  <2>2. file[r.o].status # "infected"
    BY <1>2, <1>3, NoneElsewhere DEF RowsOK, Closed
  <2> HIDE DEF row
  <2> QED
    BY <1>2, <1>3, <2>1, <2>2, RowChanges DEF Release
<1>4. ASSUME UNCHANGED file PROVE RowsOK' /\ Stays
  BY <1>2, <1>4, RowsSame DEF Release
<1>5. RowsOK' /\ Stays
  BY <1>3, <1>4 DEF Release
<1>6. CallsOK'
  BY <1>2, GoesToEnd, IdleEnds DEF Release
<1> QED
  BY <1>2, <1>5, <1>6, StoreSame, CountsSame, PartsGiveInv DEF Release

-----------------------------------------------------------------------------
(* The retry batch.                                                        *)

LEMMA ClaimJobStays ==
  ASSUME Inv, NEW w \in Process, NEW o \in Object, ClaimJob(w, o) PROVE Inv' /\ Stays
<1> DEFINE jrow == [job[o] EXCEPT !.status = "processing"]
           next == [Idle EXCEPT !.step = "job", !.o = o]
<1>1. StoreOK /\ CallsOK /\ RowsOK /\ CountsOK /\ file[o] \in File /\ job[o] \in Job
  BY InvByParts DEF RowsOK
<1>2. jrow \in Job
  BY <1>1, DriveAssumption DEF ClaimJob, Job
<1>3. file[o].status # "infected"
  BY <1>1 DEF RowsOK, Closed, ClaimJob
<1>4. next \in Call /\ Knows(next)
  <2>1. next \in Call
    BY IdleOK DEF Call, Step
  <2>2. Knows(next)
    BY DEF Knows, Idle, Finalizing, Undoing, Expiring
  <2> QED
    BY <2>1, <2>2
<1> HIDE DEF jrow, next
<1>5. RowsOK' /\ Stays
  BY <1>1, <1>2, <1>3, JobChanges DEF ClaimJob, jrow
<1>6. CallsOK'
  BY <1>1, <1>4, CallChanges DEF ClaimJob, next
<1>7. CountsOK'
  BY <1>1, SlipCounts DEF ClaimJob, CountsOK
<1> QED
  BY <1>1, <1>5, <1>6, <1>7, StoreSame, PartsGiveInv DEF ClaimJob

LEMMA JobFailsStays == ASSUME Inv, NEW w \in Process, JobFails(w) PROVE Inv' /\ Stays
<1> DEFINE o == worker[w].o
           jrow == Failed(job[o])
           row == [file[o] EXCEPT !.status = StatusOf(jrow)]
<1>1. StoreOK /\ CallsOK /\ RowsOK /\ CountsOK
  BY InvByParts
<1>2. o \in Object /\ file[o] \in File /\ job[o] \in Job
  BY <1>1 DEF RowsOK, CallsOK, Knows, JobFails
<1>3. ASSUME job[o].status = "processing", Jobs(o, jrow), Rows(o, row) PROVE RowsOK' /\ Stays
  <2>1. jrow \in Job /\ StatusOf(jrow) \in {"scan_dead_letter", "scan_pending"}
    BY <1>2, <1>3, FailureIsJob
  <2> HIDE DEF jrow
  <2>2. row \in File /\ row.status \in {"scan_dead_letter", "scan_pending"}
    BY <1>2, <2>1 DEF File, Status
  <2>3. file[o].status # "infected"
    BY <1>1, <1>2, <1>3 DEF RowsOK, Closed
  <2> HIDE DEF row
  <2> QED
    BY <1>1, <1>2, <1>3, <2>1, <2>2, <2>3, RowsChange
<1>4. ASSUME UNCHANGED <<file, job>> PROVE RowsOK' /\ Stays
  BY <1>1, <1>4, RowsSame
<1>5. RowsOK' /\ Stays
  BY <1>3, <1>4 DEF JobFails
<1>6. CallsOK'
  BY <1>1, IdleEnds DEF JobFails
<1>7. CountsOK'
  BY <1>1, SlipCounts DEF JobFails, CountsOK
<1> QED
  BY <1>1, <1>5, <1>6, <1>7, StoreSame, PartsGiveInv DEF JobFails

LEMMA OverrideStays == ASSUME Inv, NEW o \in Object, Override(o) PROVE Inv' /\ Stays
<1> DEFINE jrow == [status |-> "pending", tries |-> 0]
           row == [file[o] EXCEPT !.status = "scan_pending"]
<1>1. StoreOK /\ CallsOK /\ RowsOK /\ CountsOK /\ file[o] \in File
  BY InvByParts DEF RowsOK
<1>2. jrow \in Job
  BY DriveAssumption DEF Job
<1>3. row \in File /\ row.status = "scan_pending"
  BY <1>1 DEF File, Status
<1>4. file[o].status # "infected"
  BY <1>1 DEF RowsOK, Closed, Override
<1> HIDE DEF row, jrow
<1>5. RowsOK' /\ Stays
  BY <1>1, <1>2, <1>3, <1>4, RowsChange DEF Override, row, jrow
<1> QED
  BY <1>1, <1>5, StoreSame, CallsSame, CountsSame, PartsGiveInv DEF Override

-----------------------------------------------------------------------------
(* Deletions.                                                              *)

LEMMA ClaimDeletionStays ==
  ASSUME Inv, NEW w \in Process, NEW k \in Key, ClaimDeletion(w, k) PROVE Inv' /\ Stays
<1> DEFINE next == [Idle EXCEPT !.step = "look", !.todo = {k}, !.as = "processing"]
<1>1. StoreOK /\ CallsOK /\ RowsOK /\ CountsOK
  BY InvByParts
<1>2. next \in Call
  BY IdleOK DEF Call, Step, Cleaning
<1>3. Knows(next)
  BY DEF Knows, Idle, Finalizing, Undoing, Expiring
<1> HIDE DEF next
<1>4. CallsOK'
  BY <1>1, <1>2, <1>3, CallChanges DEF ClaimDeletion, next
<1>5. StoreOK'
  BY <1>1 DEF StoreOK, BlobTypeOK, Clean, ClaimDeletion
<1>6. RowsOK' /\ Stays
  BY <1>1, RowsSame DEF ClaimDeletion
<1>7. CountsOK'
  BY <1>1, SlipCounts DEF ClaimDeletion, CountsOK
<1> QED
  BY <1>4, <1>5, <1>6, <1>7, PartsGiveInv

LEMMA LookStays == ASSUME Inv, NEW w \in Process, Look(w) PROVE Inv' /\ Stays
<1> DEFINE r == worker[w]
<1>1. StoreOK /\ CallsOK /\ RowsOK /\ CountsOK /\ r \in Call
  BY InvByParts DEF CallsOK
<1>2. PICK k \in r.todo, s \in {"complete", "erase"}, kept \in BOOLEAN :
        Does(w, [r EXCEPT !.step = s, !.key = k, !.kept = kept])
  BY DEF Look
<1>3. k \in Key
  BY <1>1 DEF Call
<1>4. [r EXCEPT !.step = s, !.key = k, !.kept = kept] \in Call
  <2>1. s \in Step
    BY DEF Step, Cleaning
  <2> QED
    BY <1>1, <1>3, <2>1, CallsOf
<1>5. Knows([r EXCEPT !.step = s, !.key = k, !.kept = kept])
  BY <1>1, <1>3 DEF Knows, Call, Finalizing, Undoing, Expiring
<1>6. CallsOK'
  BY <1>1, <1>2, <1>4, <1>5, CallChanges
<1> QED
  BY <1>1, <1>6, StoreSame, RowsSame, CountsSame, PartsGiveInv DEF Look

LEMMA NextDeletionKeeps ==
  ASSUME CallsOK, NEW w \in Process, NextDeletion(w) PROVE CallsOK'
<1> DEFINE rest == worker[w].todo \ {worker[w].key}
           next == [Idle EXCEPT !.step = "look", !.todo = rest, !.as = worker[w].as]
<1>1. worker[w] \in Call
  BY DEF CallsOK
<1>2. rest \in SUBSET Key /\ worker[w].as \in {"pending", "processing"}
  BY <1>1 DEF Call
<1>3. next \in Call
  BY <1>2, IdleOK DEF Call, Step, Cleaning
<1>4. Knows(next)
  BY DEF Knows, Idle, Finalizing, Undoing, Expiring
<1>5. Does(w, next) \/ Does(w, Idle)
  BY DEF NextDeletion
<1> QED
  BY <1>3, <1>4, <1>5, IdleOK, CallChanges

\* What a call that deletes bytes knows of itself.
LEMMA CleaningKnows ==
  ASSUME Inv, NEW w \in Process, worker[w].step \in {"erase", "complete"}
  PROVE  /\ StoreOK /\ CallsOK /\ RowsOK /\ CountsOK
         /\ worker[w] \in Call /\ worker[w].key \in Key
BY InvByParts DEF CallsOK, Knows

LEMMA EraseStays == ASSUME Inv, NEW w \in Process, Erase(w) PROVE Inv' /\ Stays
<1> DEFINE r == worker[w]
<1>1. r.step = "erase"
  BY DEF Erase
<1>2. StoreOK /\ CallsOK /\ RowsOK /\ CountsOK /\ r \in Call /\ r.key \in Key
  BY <1>1, CleaningKnows
<1>3. StoreOK'
  BY <1>2 DEF StoreOK, BlobTypeOK, Clean, Erase
<1>4. ASSUME Goes(w, "complete") PROVE CallsOK'
  <2>1. Knows([r EXCEPT !.step = "complete"])
    BY <1>2 DEF Knows, Call, Finalizing, Undoing, Expiring
  <2>2. "complete" \in Step
    BY DEF Step, Cleaning
  <2> QED
    BY <1>2, <1>4, <2>1, <2>2, GoesOn
<1>5. CallsOK'
  BY <1>2, <1>4, NextDeletionKeeps DEF Erase
<1>6. RowsOK' /\ Stays
  BY <1>2, RowsSame DEF Erase
<1>7. CountsOK'
  BY <1>2, FaultCounts DEF Erase, CountsOK
<1> QED
  BY <1>3, <1>5, <1>6, <1>7, PartsGiveInv

LEMMA CompleteStays == ASSUME Inv, NEW w \in Process, Complete(w) PROVE Inv' /\ Stays
<1> DEFINE r == worker[w]
<1>1. r.step = "complete"
  BY DEF Complete
<1>2. StoreOK /\ CallsOK /\ RowsOK /\ CountsOK /\ r \in Call /\ r.key \in Key
  BY <1>1, CleaningKnows
<1>3. blob' \in [Content -> Blob]
  BY <1>2 DEF StoreOK, BlobTypeOK, WithoutRow, NoBlob, Blob, Complete
<1>4. deletion' \in [Key -> {"none", "pending", "processing", "completed"}]
  BY <1>2 DEF StoreOK, BlobTypeOK, Completed, Complete
<1>5. StoreOK'
  BY <1>2, <1>3, <1>4 DEF StoreOK, BlobTypeOK, Clean, Complete
<1>6. CallsOK'
  BY <1>2, NextDeletionKeeps DEF Complete
<1>7. RowsOK' /\ Stays /\ CountsOK'
  BY <1>2, RowsSame, CountsSame DEF Complete
<1> QED
  BY <1>5, <1>6, <1>7, PartsGiveInv

-----------------------------------------------------------------------------
(* Expiry, removal, revert, crashes.                                       *)

LEMMA ExpireUploadStays ==
  ASSUME Inv, NEW w \in Process, NEW o \in Object, ExpireUpload(w, o) PROVE Inv' /\ Stays
<1> DEFINE row == [file[o] EXCEPT !.status = "upload_expiring"]
           next == [Idle EXCEPT !.step = "expire", !.o = o, !.reserved = file[o].key]
<1>1. StoreOK /\ CallsOK /\ RowsOK /\ CountsOK /\ file[o] \in File
  BY InvByParts DEF RowsOK
<1>2. file[o].key \in Key
  BY <1>1 DEF File
<1>3. row \in File /\ row.status = "upload_expiring"
  BY <1>1 DEF File, Status
<1>4. next \in Call
  BY <1>2, IdleOK DEF Call, Step, Expiring
<1>5. Knows(next)
  BY <1>2 DEF Knows, Idle, Finalizing, Undoing, Expiring
<1>6. file[o].status # "infected"
  BY DEF ExpireUpload, Expirable
<1> HIDE DEF row, next
<1>7. RowsOK' /\ Stays
  BY <1>1, <1>3, <1>6, RowChanges DEF ExpireUpload, row
<1>8. CallsOK'
  BY <1>1, <1>4, <1>5, CallChanges DEF ExpireUpload, next
<1>9. CountsOK'
  BY <1>1, SlipCounts DEF ExpireUpload, CountsOK
<1> QED
  BY <1>1, <1>7, <1>8, <1>9, StoreSame, PartsGiveInv DEF ExpireUpload

LEMMA EraseUploadStays ==
  ASSUME Inv, NEW w \in Process, EraseUpload(w) PROVE Inv' /\ Stays
<1> DEFINE r == worker[w]
<1>1. r.step = "expire"
  BY DEF EraseUpload
<1>2. StoreOK /\ CallsOK /\ RowsOK /\ CountsOK /\ r \in Call /\ Knows(r)
  BY InvByParts DEF CallsOK
<1>3. r.reserved \in Key /\ r.o \in Object
  BY <1>1, <1>2 DEF Knows, Expiring
<1>4. StoreOK'
  BY <1>2, <1>3 DEF StoreOK, BlobTypeOK, Clean, EraseUpload
<1>5. ASSUME Goes(w, "forget") PROVE CallsOK'
  <2>1. Knows([r EXCEPT !.step = "forget"])
    BY <1>2, <1>3 DEF Knows, Call, Finalizing, Undoing, Expiring
  <2>2. "forget" \in Step
    BY DEF Step, Expiring
  <2> QED
    BY <1>2, <1>5, <2>1, <2>2, GoesOn
<1>6. CallsOK'
  BY <1>2, <1>5, IdleEnds DEF EraseUpload
<1>7. RowsOK' /\ Stays
  BY <1>2, RowsSame DEF EraseUpload
<1>8. CountsOK'
  BY <1>2, FaultCounts DEF EraseUpload, CountsOK
<1> QED
  BY <1>4, <1>6, <1>7, <1>8, PartsGiveInv

LEMMA RowGoneKeeps ==
  ASSUME StoreOK, RowsOK, NEW o \in Object, RowGone(o)
  PROVE  RowsOK' /\ Stays /\ reservation' \in [Object -> Reservation]
<1> DEFINE row == [file[o] EXCEPT !.status = "gone", !.token = None]
<1>1. row \in File /\ row.status = "gone"
  BY DEF RowsOK, File, Status
<1>2. NoJob \in Job
  BY DriveAssumption DEF NoJob, Job
<1> HIDE DEF row
<1>3. RowsOK' /\ Stays
  BY <1>1, <1>2, RowsChange DEF RowGone, row
<1>4. reservation' \in [Object -> Reservation]
  BY DEF RowGone, StoreOK, BlobTypeOK, Reservation, NoReservation
<1> QED
  BY <1>3, <1>4

LEMMA ForgetStays == ASSUME Inv, NEW w \in Process, Forget(w) PROVE Inv' /\ Stays
<1> DEFINE o == worker[w].o
<1>1. StoreOK /\ CallsOK /\ RowsOK /\ CountsOK
  BY InvByParts
<1>2. o \in Object
  BY <1>1 DEF CallsOK, Knows, Expiring, Forget
<1>3. RowsOK' /\ Stays /\ reservation' \in [Object -> Reservation]
  <2>1. CASE RowGone(o)
    BY <1>1, <1>2, <2>1, RowGoneKeeps
  <2>2. CASE UNCHANGED <<file, reservation, job>>
    BY <1>1, <2>2, RowsSame DEF StoreOK, BlobTypeOK
  <2> QED
    BY <2>1, <2>2 DEF Forget
<1>4. StoreOK'
  BY <1>1, <1>3 DEF StoreOK, BlobTypeOK, Clean, Forget
<1>5. CallsOK' /\ CountsOK'
  BY <1>1, IdleEnds, CountsSame DEF Forget
<1> QED
  BY <1>3, <1>4, <1>5, PartsGiveInv

LEMMA DecrementedType ==
  ASSUME StoreOK, NEW V \in SUBSET version PROVE BlobDecremented(V) \in [Content -> Blob]
<1>1. ASSUME NEW k PROVE NamedBy(k, V) \in Int
  <2>1. {v \in V : v.key = k} \in SUBSET version
    OBVIOUS
  <2>2. IsFiniteSet({v \in V : v.key = k})
    BY <2>1, FS_Subset DEF StoreOK
  <2> QED
    BY <2>2, FS_CardinalityType DEF NamedBy
<1>2. ASSUME NEW c \in Content
      PROVE  [blob[c] EXCEPT !.refs = IF blob[c].key = None THEN @ ELSE @ - NamedBy(blob[c].key, V)]
               \in Blob
  <2> DEFINE n == NamedBy(blob[c].key, V)
  <2>1. blob[c] \in Blob /\ n \in Int
    BY <1>1 DEF StoreOK, BlobTypeOK
  <2> HIDE DEF n
  <2>2. [blob[c] EXCEPT !.refs = IF blob[c].key = None THEN @ ELSE @ - n] \in Blob
    BY <2>1 DEF Blob
  <2> QED
    BY <2>2 DEF n
<1> QED
  BY <1>2 DEF BlobDecremented

LEMMA PurgeStays ==
  ASSUME Inv, NEW w \in Process, NEW o \in Object, Purge(w, o) PROVE Inv' /\ Stays
<1> DEFINE V == VersionsOf(o)
           keys == {file[o].key} \cup {v.key : v \in V}
           shared == {k \in keys : Dedup /\ IsBlobKey(k)}
<1>1. StoreOK /\ CallsOK /\ RowsOK /\ CountsOK /\ file[o] \in File
  BY InvByParts DEF RowsOK
<1>2. V \in SUBSET version /\ version \in SUBSET Version
  BY <1>1 DEF VersionsOf, StoreOK, BlobTypeOK
<1>3. keys \in SUBSET Key
  BY <1>1, <1>2 DEF File, Version
<1>4. PICK doomed \in SUBSET keys : deletion' = Queued(doomed) /\ Tends(w, doomed)
  BY DEF Purge
<1>5. RowsOK' /\ Stays /\ reservation' \in [Object -> Reservation]
  BY <1>1, RowGoneKeeps DEF Purge
<1>6. CallsOK'
  BY <1>1, <1>3, <1>4, TendsKeeps
<1>7. version' = version \ V
  BY DEF Purge
<1>8. version' \in SUBSET version
  BY <1>7
<1>9. version' \subseteq Version /\ IsFiniteSet(version') /\ Clean'
  BY <1>1, <1>2, <1>8, FS_Subset DEF StoreOK, Clean
<1>10. blob' \in [Content -> Blob]
  BY <1>1, <1>2, DecrementedType DEF Purge, StoreOK, BlobTypeOK
<1>11. deletion' \in [Key -> {"none", "pending", "processing", "completed"}]
  BY <1>1, <1>4, QueuedType
<1>12. StoreOK'
  BY <1>1, <1>5, <1>9, <1>10, <1>11 DEF StoreOK, BlobTypeOK, Purge
<1>13. CountsOK'
  BY <1>1 DEF Purge, Slipped, CountsOK
<1> QED
  BY <1>5, <1>6, <1>12, <1>13, PartsGiveInv

LEMMA RevertStays == ASSUME Inv, NEW o \in Object, Revert(o) PROVE Inv' /\ Stays
<1>1. StoreOK /\ CallsOK /\ RowsOK /\ CountsOK /\ file[o] \in File
  BY InvByParts DEF RowsOK
<1>2. PICK v \in VersionsOf(o) :
        /\ version' = version \cup {[v EXCEPT !.number = NextNumber(o)]}
        /\ Rows(o, [file[o] EXCEPT !.status = "ready", !.key = v.key, !.sha = v.content])
        /\ IF IsBlobKey(v.key) THEN Adds(v.content, v.key, RevertSlips(o))
                               ELSE Slipped(RevertSlips(o)) /\ UNCHANGED blob
  BY DEF Revert
<1> DEFINE new == [v EXCEPT !.number = NextNumber(o)]
           row == [file[o] EXCEPT !.status = "ready", !.key = v.key, !.sha = v.content]
<1>3. v \in version /\ v \in Version
  BY <1>1 DEF VersionsOf, StoreOK, BlobTypeOK
<1>4. NextNumber(o) \in 1..MaxVersions
  BY <1>1, NextNumberType, DriveBlobsAssumption DEF Revert
<1>5. v.key \in Key /\ v.content \in Content /\ v.content \notin Infected
  BY <1>1, <1>3 DEF Version, StoreOK, Clean
<1>6. new \in Version /\ new.content = v.content
  BY <1>3, <1>4 DEF Version
<1>7. row \in File /\ row.status = "ready" /\ row.key = v.key /\ row.sha = v.content
  BY <1>1, <1>5 DEF File, Status
<1>8. version' = version \cup {new}
  BY <1>2
<1>9. /\ blob' \in [Content -> Blob] /\ slipped' \subseteq Slips
      /\ RevertSlips(o) \subseteq slipped'
  <2>1. CASE IsBlobKey(v.key)
    BY <1>1, <1>2, <1>5, <2>1, AddsType DEF Adds, Slipped
  <2>2. CASE ~IsBlobKey(v.key)
    BY <1>1, <1>2, <2>2, SlippedCounts DEF StoreOK, BlobTypeOK, Slipped
  <2> QED
    BY <2>1, <2>2
<1>10. RowsOK' /\ Stays
  <2>1. Rows(o, row) /\ UNCHANGED job
    BY <1>2 DEF Revert
  <2>2. new \in version'
    BY <1>8
  <2>3. new = [v EXCEPT !.number = NextNumber(o)]
    OBVIOUS
  <2> HIDE DEF new, row
  <2>4. file' \in [Object -> File] /\ file'[o] = row
        /\ \A p \in Object \ {o} : file'[p] = file[p]
    BY <1>1, <1>7, <2>1 DEF RowsOK, Rows
  <2>5. RowsOK'
    BY <1>1, <1>7, <2>1, <2>4 DEF RowsOK, Closed
  <2>6. RevertedTo(o, v)
    BY <1>7, <2>2, <2>3, <2>4 DEF RevertedTo
  <2>7. file[o].status = "infected" => "revert" \in slipped'
    BY <1>9 DEF RevertSlips
  <2> QED
    BY <1>2, <2>4, <2>5, <2>6, <2>7 DEF Stays
<1> HIDE DEF new, row
<1>11. version' \subseteq Version /\ IsFiniteSet(version') /\ Clean'
  BY <1>1, <1>5, <1>6, <1>8, FS_AddElement DEF StoreOK, BlobTypeOK, Clean
<1>12. StoreOK'
  BY <1>1, <1>9, <1>11 DEF StoreOK, BlobTypeOK, Revert
<1>13. CallsOK' /\ CountsOK'
  BY <1>1, <1>9, CallsSame DEF Revert, CountsOK
<1> QED
  BY <1>10, <1>12, <1>13, PartsGiveInv

LEMMA CrashStays == ASSUME Inv, NEW w \in Process, Crash(w) PROVE Inv' /\ Stays
<1>1. StoreOK /\ CallsOK /\ RowsOK /\ CountsOK
  BY InvByParts
<1>2. reservation' \in [Object -> Reservation]
  BY <1>1 DEF Crash, StoreOK, BlobTypeOK, Reservation
<1>3. StoreOK'
  BY <1>1, <1>2 DEF StoreOK, BlobTypeOK, Clean, Crash
<1>4. CallsOK' /\ RowsOK' /\ Stays
  BY <1>1, IdleEnds, RowsSame DEF Crash
<1>5. CountsOK'
  BY <1>1, FaultCounts DEF Crash, CountsOK
<1> QED
  BY <1>3, <1>4, <1>5, PartsGiveInv

LEMMA ReconcileStays == ASSUME Inv, ReconcileBlobs PROVE Inv' /\ Stays
<1>1. StoreOK /\ CallsOK /\ RowsOK /\ CountsOK
  BY InvByParts
<1>2. Recounted(blob, version) \in [Content -> Blob]
  BY <1>1, RecountedType DEF StoreOK, BlobTypeOK
<1>3. blob' \in [Content -> Blob]
  <2> DEFINE b == Recounted(blob, version)
  <2>1. b \in [Content -> Blob]
    BY <1>2
  <2> HIDE DEF b
  <2>2. Zeroed(b) \in [Content -> Blob]
    BY <2>1 DEF Zeroed, Blob
  <2> QED
    BY <2>2 DEF ReconcileBlobs, Reconcile, b
<1>4. PICK old : deletion' = [k \in Key |->
         IF k \in old /\ ~BeingDeleted(k) THEN "pending" ELSE deletion[k]]
  BY DEF ReconcileBlobs, Reconcile
<1>5. deletion' \in [Key -> {"none", "pending", "processing", "completed"}]
  BY <1>1, <1>4 DEF StoreOK, BlobTypeOK
<1>6. StoreOK'
  BY <1>1, <1>3, <1>5 DEF StoreOK, BlobTypeOK, Clean, ReconcileBlobs, Reconcile
<1>7. CallsOK' /\ RowsOK' /\ Stays /\ CountsOK'
  BY <1>1, CallsSame, RowsSame, CountsSame DEF ReconcileBlobs
<1> QED
  BY <1>6, <1>7, PartsGiveInv

LEMMA ExpiresStays == ASSUME Inv, NEW o \in Object, Expires(o) PROVE Inv' /\ Stays
<1>1. StoreOK /\ CallsOK /\ RowsOK /\ CountsOK
  BY InvByParts
<1>2. StoreOK'
  BY <1>1 DEF StoreOK, BlobTypeOK, Clean, Expires, ReservationExpires, Reservation, NoReservation
<1>3. CallsOK' /\ RowsOK' /\ Stays /\ CountsOK'
  BY <1>1, CallsSame, RowsSame, CountsSame DEF Expires
<1> QED
  BY <1>2, <1>3, PartsGiveInv

-----------------------------------------------------------------------------
(* Every step, and the theorems.                                           *)

LEMMA InitInv == Init => Inv
<1> SUFFICES ASSUME Init PROVE StoreOK /\ CallsOK /\ RowsOK /\ CountsOK
  BY InvByParts
<1>1. StoreOK
  BY FS_EmptySet DEF Init, BlobInit, StoreOK, BlobTypeOK, Clean, Blob, NoBlob,
     Reservation, NoReservation
<1>2. CallsOK
  BY IdleOK DEF Init, CallsOK
<1>3. ASSUME NEW o \in Object PROVE file[o] \in File /\ file[o].status = "none"
  BY <1>3, KeysOfFile DEF Init, File, Status
<1>4. RowsOK
  BY <1>3, DriveAssumption DEF Init, RowsOK, Closed, Job, NoJob
<1>5. CountsOK
  BY DriveAssumption DEF Init, CountsOK
<1> QED
  BY <1>1, <1>2, <1>4, <1>5

LEMMA ContinueStays == ASSUME Inv, NEW w \in Process, Continue(w) PROVE Inv' /\ Stays
BY ScanStays, CommitScanFailureStays, SetAsideStays, CommitInfectedStays, ReserveStays,
   WriteStays, CommitCleanStays, UnreserveStays, CheckWrittenStays, DiscardStays,
   ReleaseStays, FinalizeJobStays, JobFailsStays, LookStays, EraseStays, CompleteStays,
   EraseUploadStays, ForgetStays DEF Continue

LEMMA NextStays == Inv /\ [Next]_vars => Inv' /\ Stays
<1> SUFFICES ASSUME Inv, [Next]_vars PROVE Inv' /\ Stays
  OBVIOUS
<1>1. ASSUME NEW o \in Object, Prepare(o) \/ Override(o) \/ Revert(o) \/ Expires(o)
      PROVE  Inv' /\ Stays
  BY <1>1, PrepareStays, OverrideStays, RevertStays, ExpiresStays
<1>2. ASSUME NEW o \in Object, NEW c \in Uploads[o], Upload(o, c) PROVE Inv' /\ Stays
  <2>1. c \in Content
    BY DriveAssumption
  <2> QED
    BY <1>2, <2>1, UploadStays
<1>3. ASSUME NEW o \in Object, NEW w \in Process,
             \/ Purge(w, o) \/ ClaimJob(w, o) \/ ExpireUpload(w, o)
             \/ \E inline \in Uploads[o] \cup {None} : Finalize(w, o, inline)
      PROVE  Inv' /\ Stays
  BY <1>3, PurgeStays, ClaimJobStays, ExpireUploadStays, FinalizeStays
<1>4. ASSUME NEW w \in Process,
             Continue(w) \/ Fail(w) \/ Crash(w) \/ \E k \in Key : ClaimDeletion(w, k)
      PROVE  Inv' /\ Stays
  BY <1>4, ContinueStays, FailStays, CrashStays, ClaimDeletionStays
<1>5. ASSUME ReconcileBlobs PROVE Inv' /\ Stays
  BY <1>5, ReconcileStays
<1>6. ASSUME UNCHANGED vars PROVE Inv' /\ Stays
  BY <1>6, InvByParts, StoreSame, CallsSame, RowsSame, CountsSame, PartsGiveInv
  DEF vars, blobVars
<1> QED
  BY <1>1, <1>2, <1>3, <1>4, <1>5, <1>6 DEF Next

\* No content found infected ever becomes a version, what a call knows at each
\* of its steps is so, and a quarantined file is out of reach of the calls still
\* at work on it (uploads.ts, upload-commits.ts, scan-claims.ts).
THEOREM Invariance == Spec => []Inv
<1>1. Init => Inv
  BY InitInv
<1>2. Inv /\ [Next]_vars => Inv'
  BY NextStays
<1> QED
  BY <1>1, <1>2, PTL DEF Spec

\* No step takes a quarantined file out of quarantine but its removal and a revert
\* that looked before the verdict, and the revert shows an earlier version again;
\* whichever other slips happen before (claimDriveUploadFinalization,
\* releaseDriveScanClaim, releaseDriveFinalizationClaim, revertToVersion).
THEOREM QuarantineStays == Spec => QuarantineHolds
<1>1. Inv /\ [Next]_vars => [Stays]_vars
  BY NextStays
<1>2. Spec => []Inv
  BY Invariance
<1>3. Spec => [][Stays]_vars
  BY <1>1, <1>2, PTL DEF Spec
<1> QED
  BY <1>3 DEF QuarantineHolds, Stays

-----------------------------------------------------------------------------
(* Sets of versions, and the histories they make.                          *)

NumberedSet(V) ==
  /\ \A v \in V : v.number <= Cardinality(V)
  /\ \A u, v \in V : u.number = v.number => u = v
  /\ \A n \in 1..Cardinality(V) : \E v \in V : v.number = n
Nth(V, n) == CHOOSE v \in V : v.number = n
HistoryOf(V) == [n \in 1..Cardinality(V) |-> Nth(V, n).content]

LEMMA HistoryIs ==
  ASSUME NEW V \in SUBSET Version, IsFiniteSet(V), NumberedSet(V)
  PROVE  /\ HistoryOf(V) \in Seq(Content)
         /\ Len(HistoryOf(V)) = Cardinality(V)
         /\ \A v \in V : v.number \in 1..Cardinality(V) /\ HistoryOf(V)[v.number] = v.content
<1> DEFINE m == Cardinality(V)
<1>1. m \in Nat
  BY FS_CardinalityType
<1>2. ASSUME NEW n \in 1..m
      PROVE  Nth(V, n) \in V /\ Nth(V, n).number = n
  BY <1>2 DEF NumberedSet, Nth
<1>3. HistoryOf(V) = [n \in 1..m |-> Nth(V, n).content]
  BY DEF HistoryOf
<1>4. \A n \in 1..m : Nth(V, n).content \in Content
  BY <1>2 DEF Version
<1>5. ASSUME NEW v \in V
      PROVE  v.number \in 1..m /\ Nth(V, v.number) = v
  <2>1. v.number \in Nat /\ v.number >= 1 /\ v.number <= m
    BY DEF NumberedSet, Version
  <2>2. v.number \in 1..m
    BY <1>1, <2>1
  <2> QED
    BY <1>2, <2>2 DEF NumberedSet
<1> HIDE DEF m
<1>6. HistoryOf(V) \in [1..m -> Content]
  BY <1>3, <1>4
<1>7. HistoryOf(V) \in Seq(Content) /\ DOMAIN HistoryOf(V) = 1..m
  BY <1>1, <1>6, SeqDef
<1>8. Len(HistoryOf(V)) = m
  BY <1>1, <1>7, LenProperties
<1>9. ASSUME NEW v \in V PROVE v.number \in 1..m /\ HistoryOf(V)[v.number] = v.content
  BY <1>3, <1>5
<1> QED
  BY <1>7, <1>8, <1>9 DEF m

\* One more version is one more content at the end.
LEMMA HistoryGrows ==
  ASSUME NEW V \in SUBSET Version, IsFiniteSet(V), NumberedSet(V),
         NEW v \in Version, v.number = 1 + Cardinality(V)
  PROVE  /\ v \notin V
         /\ Cardinality(V \cup {v}) = 1 + Cardinality(V)
         /\ NumberedSet(V \cup {v})
         /\ HistoryOf(V \cup {v}) = Append(HistoryOf(V), v.content)
<1> DEFINE m == Cardinality(V)
           W == V \cup {v}
<1>1. m \in Nat /\ v.number = m + 1 /\ v.content \in Content
  BY FS_CardinalityType DEF Version
<1>2. \A u \in V : u.number \in Nat /\ u.number <= m
  BY DEF NumberedSet, Version
<1>3. v \notin V
  BY <1>1, <1>2
<1>4. Cardinality(W) = m + 1 /\ IsFiniteSet(W) /\ W \in SUBSET Version
  BY <1>3, <1>1, FS_AddElement
<1> HIDE DEF m
<1>5. NumberedSet(W)
  <2>1. \A u \in W : u.number <= m + 1
    BY <1>1, <1>2
  <2>2. \A u, x \in W : u.number = x.number => u = x
    BY <1>1, <1>2 DEF NumberedSet
  <2>3. ASSUME NEW n \in 1..(m + 1) PROVE \E u \in W : u.number = n
    <3>1. CASE n = m + 1
      BY <1>1, <3>1
    <3>2. CASE n # m + 1
      <4>1. n \in 1..Cardinality(V)
        BY <1>1, <2>3, <3>2 DEF m
      <4> QED
        BY <4>1 DEF NumberedSet
    <3> QED
      BY <3>1, <3>2
  <2> HIDE DEF W
  <2> QED
    BY <1>4, <2>1, <2>2, <2>3 DEF NumberedSet
<1> DEFINE h == HistoryOf(V)
           g == HistoryOf(W)
           a == Append(h, v.content)
<1>6. /\ h \in Seq(Content) /\ Len(h) = m
      /\ \A u \in V : u.number \in 1..m /\ h[u.number] = u.content
  BY HistoryIs DEF m
<1>7. /\ g \in Seq(Content) /\ Len(g) = m + 1
      /\ \A u \in W : u.number \in 1..(m + 1) /\ g[u.number] = u.content
  <2> HIDE DEF W
  <2> QED
    BY <1>4, <1>5, HistoryIs
<1> HIDE DEF h
<1>8. /\ a \in Seq(Content) /\ Len(a) = m + 1 /\ a[m + 1] = v.content
      /\ \A i \in 1..m : a[i] = h[i]
  BY <1>1, <1>6, AppendProperties
<1> HIDE DEF g, a
<1>9. ASSUME NEW i \in 1..(m + 1) PROVE g[i] = a[i]
  <2>1. CASE i = m + 1
    BY <1>1, <1>7, <1>8, <2>1
  <2>2. CASE i # m + 1
    <3>1. i \in 1..m
      BY <1>1, <1>9, <2>2
    <3>2. PICK u \in V : u.number = i
      BY <3>1 DEF NumberedSet, m
    <3>3. g[i] = u.content
      BY <1>7, <3>2
    <3>4. h[i] = u.content
      BY <1>6, <3>2
    <3> QED
      BY <1>8, <3>1, <3>3, <3>4
  <2> QED
    BY <2>1, <2>2
<1>10. g = a
  BY <1>7, <1>8, <1>9, SeqEqual
<1> QED
  BY <1>1, <1>3, <1>4, <1>5, <1>10 DEF g, a, h, m

LEMMA HistoryEmpty == NumberedSet({}) /\ HistoryOf({}) = <<>>
<1>1. Cardinality({}) = 0
  BY FS_EmptySet
<1>2. NumberedSet({})
  BY <1>1 DEF NumberedSet
<1>3. IsFiniteSet({}) /\ {} \in SUBSET Version
  BY FS_EmptySet
<1>4. HistoryOf({}) \in Seq(Content) /\ Len(HistoryOf({})) = 0
  BY <1>1, <1>2, <1>3, HistoryIs
<1> QED
  BY <1>2, <1>4, EmptySeq

-----------------------------------------------------------------------------
(* The invariant, file by file, over the rows that it speaks of.           *)

Undoes == Finalizing \cup Undoing
CanBe(V, row, s) ==
  /\ s = "ready" => \E v \in V : /\ v.number = Cardinality(V)
                                 /\ v.key = row.key
                                 /\ v.content = row.sha
  /\ s \in {"none", "pending_upload", "upload_expiring", "gone"} => V = {}
Returns(V, row, s) == CanBe(V, row, s) /\ s \notin {"none", "gone", "scan_processing"}
GoodRow(V, row, j) ==
  /\ CanBe(V, row, row.status)
  /\ row.status = "scan_processing" => Returns(V, row, row.previous)
  /\ row.status \in {"none", "gone"} => row.token = None
  /\ j.status # "none" => row.status \notin {"none", "gone"}
Holds(o, row, w, r) == row.token = w /\ r.o = o /\ r.step \in Undoes
GoodHolder(V, row, r) ==
  /\ Returns(V, row, r.previous)
  /\ r.step \in Finalizing /\ row.status = "scan_processing" => r.number = 1 + Cardinality(V)
Good(o, V, row, j, calls) ==
  /\ NumberedSet(V)
  /\ GoodRow(V, row, j)
  /\ \A w \in Process : Holds(o, row, w, calls[w]) => GoodHolder(V, row, calls[w])
Settled(o) == Good(o, VersionsOf(o), file[o], job[o], worker)

LEMMA HistoryParts == HistoryInv <=> Inv /\ \A o \in Object : Settled(o)
<1>1. ASSUME NEW o, NEW s
      PROVE  /\ Fits(o, s) <=> CanBe(VersionsOf(o), file[o], s)
             /\ PutBack(o, s) <=> Returns(VersionsOf(o), file[o], s)
  BY DEF Fits, Newest, PutBack, CanBe, Returns
<1>2. Numbered <=> \A o \in Object : NumberedSet(VersionsOf(o))
  BY DEF Numbered, NumberedSet
<1>3. RowFits /\ ClaimFits /\ RowsFree
        <=> \A o \in Object : GoodRow(VersionsOf(o), file[o], job[o])
  BY <1>1 DEF RowFits, ClaimFits, RowsFree, GoodRow, Exists
<1>4. HolderFits <=> \A o \in Object, w \in Process :
        Holds(o, file[o], w, worker[w]) => GoodHolder(VersionsOf(o), file[o], worker[w])
  BY <1>1 DEF HolderFits, Holds, GoodHolder, NextNumber, Undoes
<1>5. HistoryInv <=> Inv /\ Numbered /\ (RowFits /\ ClaimFits /\ RowsFree) /\ HolderFits
  BY DEF HistoryInv
<1> QED
  BY <1>2, <1>3, <1>4, <1>5 DEF Settled, Good

LEMMA SettledAfter ==
  ASSUME NEW o
  PROVE  Settled(o)' <=> Good(o, VersionsOf(o)', file'[o], job'[o], worker')
BY DEF Settled

LEMMA VersionsFinite ==
  ASSUME Inv, NEW o
  PROVE  /\ VersionsOf(o) \in SUBSET Version /\ IsFiniteSet(VersionsOf(o))
         /\ Cardinality(VersionsOf(o)) \in Nat
<1>1. VersionsOf(o) \in SUBSET version /\ IsFiniteSet(version) /\ version \subseteq Version
  BY DEF VersionsOf, Inv, TypeOK, BlobTypeOK
<1> QED
  BY <1>1, FS_Subset, FS_CardinalityType

-----------------------------------------------------------------------------
(* What a step does to a file as its readers see it: each disjunct of Seen *)
(* is a step of DriveFiles.                                                *)

Waiting == {"pending_upload", "scan_processing", "scan_pending", "scan_dead_letter",
            "upload_expiring"}
ShownFrom(o, from, to) == file[o].status \in from /\ file'[o].status \in to
Unseen(o) == Shown(o)' = Shown(o) /\ History(o)' = History(o)
Seen(o) ==
  \/ Unseen(o)
  \/ /\ History(o)' = History(o)
     /\ \/ ShownFrom(o, {"none"}, Waiting)
        \/ ShownFrom(o, {"ready"}, Waiting)
        \/ ShownFrom(o, Waiting, {"ready"}) /\ History(o) # <<>>
        \/ ShownFrom(o, Waiting, {"infected"})
  \/ /\ ShownFrom(o, Waiting, {"ready"})
     /\ \E c \in Content \ Infected : History(o)' = Append(History(o), c)
  \/ /\ ShownFrom(o, Waiting \cup {"ready", "infected"}, {"ready"})
     /\ \E n \in DOMAIN History(o) : History(o)' = Append(History(o), History(o)[n])
  \/ /\ ShownFrom(o, Waiting \cup {"ready", "infected"}, {"gone"})
     /\ History(o)' = <<>>

\* What has to be shown of every step.
GoodStep ==
  /\ \A o \in Object : Settled(o)'
  /\ \/ \A o \in Object : Unseen(o)
     \/ \E o \in Object : Seen(o) /\ \A p \in Object \ {o} : Unseen(p)

\* A call that works on a finalization after a step did so before, and knows of
\* it what it knew.
Follows(r0, r) == r.step \in Undoes =>
  /\ r0.step \in Undoes /\ r.o = r0.o /\ r.previous = r0.previous
  /\ r.step \in Finalizing => r0.step \in Finalizing /\ r.number = r0.number
Follow == \A v \in Process : Follows(worker[v], worker'[v])

LEMMA NewCallFollows ==
  ASSUME CallsOK, NEW w \in Process, NEW r, Does(w, r), Follows(worker[w], r) PROVE Follow
<1>1. \A v \in Process : worker'[v] = IF v = w THEN r ELSE worker[v]
  BY DEF CallsOK, Does
<1> QED
  BY <1>1 DEF Follow, Follows

LEMMA EndFollows ==
  ASSUME CallsOK, NEW w \in Process, NEW r, Does(w, r), r.step \notin Undoes PROVE Follow
BY NewCallFollows DEF Follows

LEMMA SameFollows == ASSUME UNCHANGED worker PROVE Follow
BY DEF Follow, Follows

LEMMA GoesFollows ==
  ASSUME CallsOK, NEW w \in Process, NEW s, Goes(w, s),
         s \in Undoes => worker[w].step \in Undoes,
         s \in Finalizing => worker[w].step \in Finalizing
  PROVE  Follow
<1> DEFINE r == [worker[w] EXCEPT !.step = s]
<1>1. worker[w] \in Call
  BY DEF CallsOK
<1>2. r.step = s /\ r.o = worker[w].o /\ r.previous = worker[w].previous
      /\ r.number = worker[w].number
  BY <1>1 DEF Call
<1>3. Does(w, r)
  BY DEF Goes
<1> HIDE DEF r
<1> QED
  BY <1>2, <1>3, NewCallFollows DEF Follows

LEMMA IdleFollows == ASSUME CallsOK, NEW w \in Process, Ends(w) PROVE Follow
BY EndFollows DEF Ends, Idle, Undoes, Finalizing, Undoing

\* A file that a step leaves alone.
LEMMA LeftAlone ==
  ASSUME NEW o \in Object, Settled(o),
         VersionsOf(o)' = VersionsOf(o), file'[o] = file[o],
         job'[o].status # "none" => job[o].status # "none" \/ Exists(o),
         \A v \in Process : \/ Follows(worker[v], worker'[v])
                            \/ worker'[v].step \in Undoes => worker'[v].o # o
  PROVE  Settled(o)' /\ Unseen(o)
<1> DEFINE V == VersionsOf(o)
           row == file[o]
<1>1. NumberedSet(V) /\ GoodRow(V, row, job[o])
      /\ \A w \in Process : Holds(o, row, w, worker[w]) => GoodHolder(V, row, worker[w])
  BY DEF Settled, Good
<1> HIDE DEF V, row
<1>2. GoodRow(V, row, job'[o])
  BY <1>1 DEF GoodRow, Exists, row
<1>3. ASSUME NEW w \in Process, Holds(o, row, w, worker'[w])
      PROVE  GoodHolder(V, row, worker'[w])
  <2>1. Follows(worker[w], worker'[w])
    BY <1>3 DEF Holds
  <2>2. Holds(o, row, w, worker[w])
    BY <1>3, <2>1 DEF Holds, Follows
  <2>3. GoodHolder(V, row, worker[w])
    BY <1>1, <2>2
  <2> QED
    BY <1>3, <2>1, <2>3 DEF Holds, GoodHolder, Follows
<1>4. Good(o, VersionsOf(o)', file'[o], job'[o], worker')
  BY <1>1, <1>2, <1>3 DEF Good, V, row
<1>5. Unseen(o)
  BY DEF Unseen, Shown, History
<1> QED
  BY <1>4, <1>5, SettledAfter

LEMMA NothingSeen ==
  ASSUME HistoryInv, UNCHANGED <<version, file>>, Follow,
         \A o \in Object : job'[o].status # "none" => job[o].status # "none" \/ Exists(o)
  PROVE  GoodStep
<1>1. ASSUME NEW o \in Object PROVE Settled(o)' /\ Unseen(o)
  <2>1. VersionsOf(o)' = VersionsOf(o)
    BY DEF VersionsOf
  <2> QED
    BY <2>1, LeftAlone, HistoryParts DEF Follow
<1> QED
  BY <1>1 DEF GoodStep

LEMMA OneSeen ==
  ASSUME HistoryInv, NEW o \in Object,
         \A p \in Object \ {o} : /\ VersionsOf(p)' = VersionsOf(p)
                                 /\ file'[p] = file[p]
                                 /\ job'[p] = job[p],
         \A v \in Process : \/ Follows(worker[v], worker'[v])
                            \/ worker'[v].step \in Undoes => worker'[v].o = o,
         Settled(o)', Seen(o)
  PROVE  GoodStep
<1>1. ASSUME NEW p \in Object \ {o} PROVE Settled(p)' /\ Unseen(p)
  <2>1. \A v \in Process : \/ Follows(worker[v], worker'[v])
                           \/ worker'[v].step \in Undoes => worker'[v].o # p
    OBVIOUS
  <2> QED
    BY <2>1, LeftAlone, HistoryParts
<1> QED
  BY <1>1 DEF GoodStep

-----------------------------------------------------------------------------
(* Steps that leave the rows of all files alone.                           *)

LEMMA CallsAre ==
  ASSUME HistoryInv, NEW w \in Process
  PROVE  /\ Inv /\ StoreOK /\ CallsOK /\ RowsOK
         /\ worker[w] \in Call
         /\ worker[w].step \in {"job", "jobfail"} \cup Undoes \cup Expiring => worker[w].o \in Object
BY InvByParts DEF HistoryInv, CallsOK, Knows, Undoes

LEMMA UndoUnseen ==
  ASSUME HistoryInv, NEW w \in Process, worker[w].step \in Finalizing,
         Goes(w, UndoStep(w)), UNCHANGED <<version, file, job>>
  PROVE  GoodStep
<1>1. UndoStep(w) \in Undoing
  BY DEF UndoStep, Undoing
<1>2. Follow
  BY <1>1, CallsAre, GoesFollows DEF Undoes, Undoing, Finalizing
<1> QED
  BY <1>2, NothingSeen

LEMMA FinalizingFollows ==
  ASSUME CallsOK, NEW w \in Process, worker[w].step \in Finalizing, NEW r, Does(w, r),
         r.o = worker[w].o, r.previous = worker[w].previous, r.number = worker[w].number
  PROVE  Follow
BY NewCallFollows DEF Follows, Undoes

LEMMA ScanUnseen == ASSUME HistoryInv, NEW w \in Process, Scan(w) PROVE GoodStep
<1> DEFINE r == worker[w]
<1>1. r.step = "scan" /\ r.step \in Finalizing
  BY DEF Scan, Finalizing
<1>2. CASE Undo(w)
  BY <1>1, <1>2, UndoUnseen DEF Undo, blobVars
<1>3. CASE ~Undo(w)
  <2>1. \E s, c, k : \/ Does(w, [r EXCEPT !.step = s, !.content = c])
                     \/ Does(w, [r EXCEPT !.step = s, !.content = c, !.key = k])
    BY <1>3 DEF Scan
  <2>2. PICK s, c, k : \/ Does(w, [r EXCEPT !.step = s, !.content = c])
                       \/ Does(w, [r EXCEPT !.step = s, !.content = c, !.key = k])
    BY <2>1
  <2>3. r \in Call /\ CallsOK
    BY CallsAre
  <2>4. CASE Does(w, [r EXCEPT !.step = s, !.content = c])
    <3> DEFINE next == [r EXCEPT !.step = s, !.content = c]
    <3>1. next.o = r.o /\ next.previous = r.previous /\ next.number = r.number
      BY <2>3 DEF Call
    <3> QED
      <4> HIDE DEF next
      <4>1. Follow
        BY <1>1, <2>3, <2>4, <3>1, FinalizingFollows DEF next
      <4> QED
        BY <1>3, <4>1, NothingSeen DEF Scan, blobVars
  <2>5. CASE Does(w, [r EXCEPT !.step = s, !.content = c, !.key = k])
    <3> DEFINE next == [r EXCEPT !.step = s, !.content = c, !.key = k]
    <3>1. next.o = r.o /\ next.previous = r.previous /\ next.number = r.number
      BY <2>3 DEF Call
    <3> QED
      <4> HIDE DEF next
      <4>1. Follow
        BY <1>1, <2>3, <2>5, <3>1, FinalizingFollows DEF next
      <4> QED
        BY <1>3, <4>1, NothingSeen DEF Scan, blobVars
  <2> QED
    BY <2>2, <2>4, <2>5
<1> QED
  BY <1>2, <1>3
LEMMA SetAsideUnseen == ASSUME HistoryInv, NEW w \in Process, SetAside(w) PROVE GoodStep
<1> DEFINE r == worker[w]
           next == [r EXCEPT !.step = "quarantine", !.wrote = QuarantineKey(r.o)]
<1>1. r.step = "infected" /\ r.step \in Finalizing
  BY DEF SetAside, Finalizing
<1>2. r \in Call /\ CallsOK
  BY CallsAre
<1>3. next.o = r.o /\ next.previous = r.previous /\ next.number = r.number
  BY <1>2 DEF Call
<1>4. Does(w, next) \/ Goes(w, "quarantine")
  BY DEF SetAside
<1> HIDE DEF next
<1>5. ASSUME Does(w, next) PROVE Follow
  BY <1>1, <1>2, <1>3, <1>5, FinalizingFollows
<1>6. ASSUME Goes(w, "quarantine") PROVE Follow
  BY <1>1, <1>2, <1>6, GoesFollows DEF Undoes
<1> QED
  BY <1>4, <1>5, <1>6, NothingSeen DEF SetAside

LEMMA ReserveUnseen == ASSUME HistoryInv, NEW w \in Process, Reserve(w) PROVE GoodStep
<1> DEFINE r == worker[w]
<1>1. r.step = "reserve" /\ r.step \in Finalizing
  BY DEF Reserve, Finalizing
<1>2. r \in Call /\ CallsOK
  BY CallsAre
<1>3. CASE Undo(w)
  BY <1>1, <1>3, UndoUnseen DEF Undo, blobVars
<1>4. CASE ~Undo(w)
  <2>1. PICK k, s : Does(w, [r EXCEPT !.step = s, !.key = k])
    BY <1>4 DEF Reserve
  <2> DEFINE next == [r EXCEPT !.step = s, !.key = k]
  <2>2. next.o = r.o /\ next.previous = r.previous /\ next.number = r.number
    BY <1>2 DEF Call
  <2>3. Does(w, next)
    BY <2>1
  <2> HIDE DEF next
  <2>4. Follow
    BY <1>1, <1>2, <2>2, <2>3, FinalizingFollows
  <2>5. UNCHANGED <<version, file, job>>
    BY <1>4 DEF Reserve
  <2> QED
    BY <2>4, <2>5, NothingSeen
<1> QED
  BY <1>3, <1>4

LEMMA WriteUnseen == ASSUME HistoryInv, NEW w \in Process, Write(w) PROVE GoodStep
<1> DEFINE r == worker[w]
           next == [r EXCEPT !.step = "commit", !.wrote = r.key]
<1>1. r.step = "write" /\ r.step \in Finalizing
  BY DEF Write, Finalizing
<1>2. r \in Call /\ CallsOK
  BY CallsAre
<1>3. CASE Undo(w)
  BY <1>1, <1>3, UndoUnseen DEF Undo, blobVars
<1>4. CASE ~Undo(w)
  <2>1. next.o = r.o /\ next.previous = r.previous /\ next.number = r.number
    BY <1>2 DEF Call
  <2>2. Does(w, next) /\ UNCHANGED <<version, file, job>>
    BY <1>4 DEF Write
  <2> HIDE DEF next
  <2>3. Follow
    BY <1>1, <1>2, <2>1, <2>2, FinalizingFollows
  <2> QED
    BY <2>2, <2>3, NothingSeen
<1> QED
  BY <1>3, <1>4

LEMMA FailUnseen == ASSUME HistoryInv, NEW w \in Process, Fail(w) PROVE GoodStep
BY UndoUnseen DEF Fail, blobVars

LEMMA UploadUnseen ==
  ASSUME HistoryInv, NEW o \in Object, NEW c, Upload(o, c) PROVE GoodStep
BY NothingSeen, SameFollows DEF Upload

LEMMA UndoingGoes ==
  ASSUME HistoryInv, NEW w \in Process, worker[w].step \in Undoing,
         NEW s \in Undoing \cup {"jobfail"}, Goes(w, s), UNCHANGED <<version, file, job>>
  PROVE  GoodStep
<1>1. s \notin Finalizing
  BY DEF Undoing, Finalizing
<1>2. Follow
  BY <1>1, CallsAre, GoesFollows DEF Undoes
<1> QED
  BY <1>2, NothingSeen

LEMMA UnreserveUnseen == ASSUME HistoryInv, NEW w \in Process, Unreserve(w) PROVE GoodStep
<1>1. \E s \in {"check", "release"} : Goes(w, s)
  BY DEF Unreserve
<1> QED
  BY <1>1, UndoingGoes DEF Unreserve, Undoing

LEMMA CheckWrittenUnseen == ASSUME HistoryInv, NEW w \in Process, CheckWritten(w) PROVE GoodStep
<1>1. \E s \in {"release", "discard"} : Goes(w, s)
  BY DEF CheckWritten
<1> QED
  BY <1>1, UndoingGoes DEF CheckWritten, Undoing, blobVars

LEMMA DiscardUnseen == ASSUME HistoryInv, NEW w \in Process, Discard(w) PROVE GoodStep
BY UndoingGoes DEF Discard, Undoing

LEMMA ClaimJobUnseen ==
  ASSUME HistoryInv, NEW w \in Process, NEW o \in Object, ClaimJob(w, o) PROVE GoodStep
<1> DEFINE next == [Idle EXCEPT !.step = "job", !.o = o]
<1>1. Follow
  <2>1. next.step = "job"
    BY DEF Idle
  <2>2. Does(w, next) /\ next.step \notin Undoes
    BY <2>1 DEF ClaimJob, Undoes, Finalizing, Undoing
  <2> HIDE DEF next
  <2> QED
    BY <2>2, CallsAre, EndFollows
<1>2. \A p \in Object : job'[p].status # "none" => job[p].status # "none" \/ Exists(p)
  <2>1. job \in [Object -> Job] /\ job[o].status # "none"
    BY CallsAre DEF RowsOK, ClaimJob
  <2>2. \A p \in Object : p # o => job'[p] = job[p]
    BY <2>1 DEF ClaimJob, Jobs
  <2> QED
    BY <2>1, <2>2
<1>3. UNCHANGED <<version, file>>
  BY DEF ClaimJob, blobVars
<1> QED
  BY <1>1, <1>2, <1>3, NothingSeen

LEMMA CleaningUnseen ==
  ASSUME HistoryInv, NEW w \in Process, NEW next, Does(w, next), next.step \notin Undoes,
         UNCHANGED <<version, file, job>>
  PROVE  GoodStep
BY CallsAre, EndFollows, NothingSeen

LEMMA ClaimDeletionUnseen ==
  ASSUME HistoryInv, NEW w \in Process, NEW k, ClaimDeletion(w, k) PROVE GoodStep
<1> DEFINE next == [Idle EXCEPT !.step = "look", !.todo = {k}, !.as = "processing"]
<1>1. Does(w, next) /\ next.step \notin Undoes
  BY DEF ClaimDeletion, Idle, Undoes, Finalizing, Undoing
<1> HIDE DEF next
<1> QED
  BY <1>1, CleaningUnseen DEF ClaimDeletion

LEMMA LookUnseen == ASSUME HistoryInv, NEW w \in Process, Look(w) PROVE GoodStep
<1> DEFINE r == worker[w]
<1>1. PICK s \in {"complete", "erase"}, k \in r.todo, kept \in BOOLEAN :
        Does(w, [r EXCEPT !.step = s, !.key = k, !.kept = kept])
  BY DEF Look
<1> DEFINE next == [r EXCEPT !.step = s, !.key = k, !.kept = kept]
<1>2. next.step = s
  BY CallsAre DEF Call
<1>3. Does(w, next)
  BY <1>1
<1> HIDE DEF next
<1>4. next.step \notin Undoes
  BY <1>2 DEF Undoes, Finalizing, Undoing
<1> QED
  BY <1>3, <1>4, CleaningUnseen DEF Look, blobVars

LEMMA NextDeletionUnseen ==
  ASSUME HistoryInv, NEW w \in Process, NextDeletion(w), UNCHANGED <<version, file, job>>
  PROVE  GoodStep
<1> DEFINE next == [Idle EXCEPT !.step = "look", !.todo = worker[w].todo \ {worker[w].key},
                                !.as = worker[w].as]
<1>1. Does(w, Idle) \/ Does(w, next)
  BY DEF NextDeletion
<1>2. next.step \notin Undoes /\ Idle.step \notin Undoes
  BY DEF Idle, Undoes, Finalizing, Undoing
<1> HIDE DEF next
<1> QED
  BY <1>1, <1>2, CleaningUnseen

LEMMA GoesElsewhere ==
  ASSUME HistoryInv, NEW w \in Process, NEW s \in {"jobfail", "complete", "forget"}, Goes(w, s),
         UNCHANGED <<version, file, job>>
  PROVE  GoodStep
<1>1. s \notin Undoes /\ s \notin Finalizing
  BY DEF Undoes, Finalizing, Undoing
<1>2. Follow
  BY <1>1, CallsAre, GoesFollows
<1> QED
  BY <1>2, NothingSeen

LEMMA EraseUnseen == ASSUME HistoryInv, NEW w \in Process, Erase(w) PROVE GoodStep
BY GoesElsewhere, NextDeletionUnseen DEF Erase

LEMMA CompleteUnseen == ASSUME HistoryInv, NEW w \in Process, Complete(w) PROVE GoodStep
BY NextDeletionUnseen DEF Complete

LEMMA EraseUploadUnseen == ASSUME HistoryInv, NEW w \in Process, EraseUpload(w) PROVE GoodStep
<1>1. Goes(w, "forget") \/ Ends(w)
  BY DEF EraseUpload
<1>2. CASE Ends(w)
  BY <1>2, CallsAre, IdleFollows, NothingSeen DEF EraseUpload
<1> QED
  BY <1>1, <1>2, GoesElsewhere DEF EraseUpload

LEMMA CrashUnseen == ASSUME HistoryInv, NEW w \in Process, Crash(w) PROVE GoodStep
BY CallsAre, IdleFollows, NothingSeen DEF Crash

LEMMA ReconcileUnseen == ASSUME HistoryInv, ReconcileBlobs PROVE GoodStep
BY SameFollows, NothingSeen DEF ReconcileBlobs, Reconcile

LEMMA ExpiresUnseen == ASSUME HistoryInv, NEW o \in Object, Expires(o) PROVE GoodStep
BY SameFollows, NothingSeen DEF Expires, ReservationExpires

-----------------------------------------------------------------------------
(* Steps that change the row of a file.                                    *)

\* The row changes, the versions do not: a token that stays, stays with its
\* bytes.
LEMMA NewRow ==
  ASSUME NEW o \in Object, Settled(o), VersionsOf(o)' = VersionsOf(o), Follow,
         GoodRow(VersionsOf(o), file'[o], job'[o]),
         \/ file'[o].token = None
         \/ /\ file'[o].token = file[o].token /\ file'[o].status # "scan_processing"
            /\ file'[o].key = file[o].key /\ file'[o].sha = file[o].sha
  PROVE  Settled(o)' /\ History(o)' = History(o)
<1> DEFINE V == VersionsOf(o)
<1>1. NumberedSet(V)
      /\ \A w \in Process : Holds(o, file[o], w, worker[w]) => GoodHolder(V, file[o], worker[w])
  BY DEF Settled, Good
<1> HIDE DEF V
<1>2. ASSUME NEW w \in Process, Holds(o, file'[o], w, worker'[w])
      PROVE  GoodHolder(V, file'[o], worker'[w])
  <2>1. file'[o].token # None
    BY <1>2, NoneElsewhere DEF Holds
  <2>2. Follows(worker[w], worker'[w])
    BY DEF Follow
  <2>3. Holds(o, file[o], w, worker[w])
    BY <1>2, <2>1, <2>2 DEF Holds, Follows
  <2>4. GoodHolder(V, file[o], worker[w])
    BY <1>1, <2>3
  <2>5. worker'[w].previous = worker[w].previous
        /\ (worker'[w].step \in Finalizing =>
              worker[w].step \in Finalizing /\ worker'[w].number = worker[w].number)
    BY <1>2, <2>2 DEF Holds, Follows
  <2> QED
    BY <2>1, <2>4, <2>5 DEF GoodHolder, Returns, CanBe
<1>3. Good(o, VersionsOf(o)', file'[o], job'[o], worker')
  BY <1>1, <1>2 DEF Good, V
<1> QED
  BY <1>3, SettledAfter DEF History

LEMMA RowsOthers ==
  ASSUME RowsOK, NEW o \in Object, NEW row, Rows(o, row)
  PROVE  file'[o] = row /\ \A p \in Object \ {o} : file'[p] = file[p]
BY DEF RowsOK, Rows

LEMMA JobsOthers ==
  ASSUME RowsOK, NEW o \in Object, NEW row, Jobs(o, row)
  PROVE  job'[o] = row /\ \A p \in Object \ {o} : job'[p] = job[p]
BY DEF RowsOK, Jobs

LEMMA SettledNow ==
  ASSUME HistoryInv, NEW o \in Object
  PROVE  /\ Settled(o) /\ NumberedSet(VersionsOf(o)) /\ GoodRow(VersionsOf(o), file[o], job[o])
         /\ file[o] \in File /\ job[o] \in Job
         /\ file[o].status = "infected" => file[o].token = None /\ job[o].status = "none"
         /\ \A w \in Process : Holds(o, file[o], w, worker[w])
                                 => GoodHolder(VersionsOf(o), file[o], worker[w])
<1>1. Settled(o) /\ RowsOK
  BY HistoryParts, InvByParts
<1> QED
  BY <1>1 DEF RowsOK, Closed, Settled, Good

\* A step that moves the row of one file on among its versions.
LEMMA RowSeen ==
  ASSUME HistoryInv, NEW o \in Object, NEW row, Rows(o, row), UNCHANGED version, Follow,
         \A p \in Object \ {o} : job'[p] = job[p],
         GoodRow(VersionsOf(o), row, job'[o]),
         \/ row.token = None
         \/ /\ row.token = file[o].token /\ row.status # "scan_processing"
            /\ row.key = file[o].key /\ row.sha = file[o].sha,
         \/ file[o].status = "ready" /\ row.status = "ready"
         \/ file[o].status \in Waiting /\ row.status \in Waiting \cup {"infected"}
         \/ file[o].status \in {"none", "ready"} /\ row.status \in Waiting
         \/ file[o].status \in Waiting /\ row.status = "ready" /\ History(o) # <<>>
  PROVE  GoodStep
<1>1. file'[o] = row /\ \A p \in Object \ {o} : file'[p] = file[p]
  BY RowsOthers, SettledNow, InvByParts, HistoryParts
<1>2. \A p \in Object : VersionsOf(p)' = VersionsOf(p)
  BY DEF VersionsOf
<1>3. Settled(o)' /\ History(o)' = History(o)
  BY <1>1, <1>2, NewRow, SettledNow
<1>4. ASSUME file[o].status \in Waiting, row.status \in Waiting PROVE Shown(o)' = Shown(o)
  <2>1. Shown(o) = "waiting"
    BY <1>4 DEF Shown, Waiting
  <2>2. Shown(o)' = "waiting"
    BY <1>1, <1>4 DEF Shown, Waiting
  <2> QED
    BY <2>1, <2>2
<1>5. ASSUME file[o].status = "ready", row.status = "ready" PROVE Shown(o)' = Shown(o)
  BY <1>1, <1>5 DEF Shown
<1>6. Seen(o)
  BY <1>1, <1>3, <1>4, <1>5 DEF Seen, Unseen, ShownFrom
<1> QED
  BY <1>1, <1>2, <1>3, <1>6, OneSeen DEF Follow

LEMMA PrepareSeen == ASSUME HistoryInv, NEW o \in Object, Prepare(o) PROVE GoodStep
<1> DEFINE row == [file[o] EXCEPT !.status = "pending_upload"]
<1>1. file[o].status = "none" /\ file[o] \in File /\ GoodRow(VersionsOf(o), file[o], job[o])
  BY SettledNow DEF Prepare
<1>2. row.status = "pending_upload" /\ row.token = None
  BY <1>1 DEF File, GoodRow
<1>3. Rows(o, row) /\ UNCHANGED <<version, job, worker>>
  BY DEF Prepare, blobVars
<1> HIDE DEF row
<1>4. GoodRow(VersionsOf(o), row, job'[o])
  BY <1>1, <1>2, <1>3 DEF GoodRow, CanBe
<1>5. Follow
  BY <1>3, SameFollows
<1> QED
  BY <1>1, <1>2, <1>3, <1>4, <1>5, RowSeen DEF Waiting

LEMMA UnansweredFollows ==
  ASSUME CallsOK, NEW w \in Process, worker[w].step \in Finalizing, Unanswered(w) PROVE Follow
<1>1. UndoStep(w) \in Undoing /\ UndoStep(w) \notin Finalizing
  BY DEF UndoStep, Undoing, Finalizing
<1> QED
  BY <1>1, GoesFollows DEF Unanswered, Undoes

LEMMA CommitScanFailureSeen ==
  ASSUME HistoryInv, NEW w \in Process, CommitScanFailure(w) PROVE GoodStep
<1> DEFINE r == worker[w]
           o == r.o
           jrow == FailureRecorded(job[o])
           row == [file[o] EXCEPT !.status = StatusOf(jrow), !.token = None, !.sha = r.content]
<1>1. r.step = "unscanned" /\ r.step \in Finalizing
  BY DEF CommitScanFailure, Finalizing
<1>2. o \in Object /\ RowsOK /\ CallsOK
  BY <1>1, CallsAre DEF Undoes
<1>3. CASE ~Owns(w)
  BY <1>1, <1>3, UndoUnseen DEF CommitScanFailure, Undo, blobVars
<1>4. CASE Owns(w)
  <2>1. file[o].status = "scan_processing" /\ file[o] \in File
    BY <1>2, <1>4, SettledNow DEF Owns
  <2>2. StatusOf(jrow) \in {"scan_dead_letter", "scan_pending"}
    BY DEF StatusOf
  <2>3. row.status = StatusOf(jrow) /\ row.token = None
    BY <2>1 DEF File
  <2>4. Rows(o, row) /\ UNCHANGED version /\ Jobs(o, jrow)
    BY <1>4 DEF CommitScanFailure, blobVars
  <2>5. Follow
    <3>1. Goes(w, "jobfail") \/ Ends(w) \/ Unanswered(w)
      BY <1>4 DEF CommitScanFailure
    <3> QED
      BY <1>1, <1>2, <3>1, IdleFollows, GoesFollows, UnansweredFollows
      DEF Undoes, Finalizing, Undoing
  <2> HIDE DEF row, o, jrow
  <2>6. GoodRow(VersionsOf(o), row, job'[o])
    BY <2>2, <2>3 DEF GoodRow, CanBe
  <2>7. \A p \in Object \ {o} : job'[p] = job[p]
    BY <1>2, <2>4, JobsOthers
  <2>8. file[o].status \in Waiting /\ row.status \in Waiting
    BY <2>1, <2>2, <2>3 DEF Waiting
  <2> QED
    BY <1>2, <2>3, <2>4, <2>5, <2>6, <2>7, <2>8, RowSeen
<1> QED
  BY <1>3, <1>4

LEMMA TendsFollows == ASSUME CallsOK, NEW w \in Process, NEW K, Tends(w, K) PROVE Follow
<1> DEFINE next == [Idle EXCEPT !.step = "look", !.todo = K]
<1>1. Does(w, Idle) \/ Does(w, next)
  BY DEF Tends
<1>2. next.step \notin Undoes /\ Idle.step \notin Undoes
  BY DEF Idle, Undoes, Finalizing, Undoing
<1> HIDE DEF next
<1> QED
  BY <1>1, <1>2, EndFollows

LEMMA CommitInfectedSeen ==
  ASSUME HistoryInv, NEW w \in Process, CommitInfected(w) PROVE GoodStep
<1> DEFINE r == worker[w]
           o == r.o
           place == IF r.wrote = None THEN file[o].key ELSE r.wrote
           row == [file[o] EXCEPT !.status = "infected", !.token = None, !.sha = r.content,
                                  !.key = place]
<1>1. r.step = "quarantine" /\ r.step \in Finalizing
  BY DEF CommitInfected, Finalizing
<1>2. o \in Object /\ RowsOK /\ CallsOK
  BY <1>1, CallsAre DEF Undoes
<1>3. CASE ~Owns(w)
  BY <1>1, <1>3, UndoUnseen DEF CommitInfected, Undo, blobVars
<1>4. CASE Owns(w)
  <2>1. file[o].status = "scan_processing" /\ file[o] \in File
    BY <1>2, <1>4, SettledNow DEF Owns
  <2>2. row.status = "infected" /\ row.token = None
    BY <2>1 DEF File
  <2>3. /\ Rows(o, row) /\ UNCHANGED version /\ Jobs(o, NoJob)
        /\ Unanswered(w) \/ \E K : Tends(w, K)
    BY <1>4 DEF CommitInfected
  <2>4. Follow
    BY <1>1, <1>2, <2>3, TendsFollows, UnansweredFollows
  <2> HIDE DEF row, o
  <2>5. GoodRow(VersionsOf(o), row, job'[o])
    BY <2>2 DEF GoodRow, CanBe
  <2>6. \A p \in Object \ {o} : job'[p] = job[p]
    BY <1>2, <2>3, JobsOthers
  <2>7. file[o].status \in Waiting
    BY <2>1 DEF Waiting
  <2> QED
    BY <1>2, <2>2, <2>3, <2>4, <2>5, <2>6, <2>7, RowSeen
<1> QED
  BY <1>3, <1>4

\* A file with a newest version has a history.
LEMMA NewestHistory ==
  ASSUME HistoryInv, NEW o \in Object, CanBe(VersionsOf(o), file[o], "ready")
  PROVE  History(o) # <<>>
<1>1. PICK v \in VersionsOf(o) : v.number = Cardinality(VersionsOf(o))
  BY DEF CanBe
<1>2. VersionsOf(o) \in SUBSET Version /\ IsFiniteSet(VersionsOf(o))
      /\ Cardinality(VersionsOf(o)) \in Nat /\ NumberedSet(VersionsOf(o))
  BY VersionsFinite, SettledNow, HistoryParts
<1>3. Len(HistoryOf(VersionsOf(o))) = Cardinality(VersionsOf(o))
  BY <1>2, HistoryIs
<1>4. v.number >= 1
  BY <1>1, <1>2 DEF Version
<1>5. Len(HistoryOf(VersionsOf(o))) # 0
  BY <1>1, <1>2, <1>3, <1>4
<1>6. HistoryOf(VersionsOf(o)) # <<>>
  BY <1>5, EmptySeq
<1> QED
  BY <1>6 DEF History, HistoryOf, Nth

LEMMA ReleaseSeen == ASSUME HistoryInv, NEW w \in Process, Release(w) PROVE GoodStep
<1> DEFINE r == worker[w]
           o == r.o
           row == [file[o] EXCEPT !.status = r.previous, !.token = None]
<1>1. r.step = "release" /\ r.step \in Undoing
  BY DEF Release, Undoing
<1>2. o \in Object /\ RowsOK /\ CallsOK /\ r \in Call
  BY <1>1, CallsAre DEF Undoes
<1>3. Follow
  <2>1. Goes(w, "jobfail") \/ Ends(w)
    BY DEF Release
  <2> QED
    BY <1>2, <2>1, IdleFollows, GoesFollows DEF Undoes, Finalizing, Undoing
<1>4. UNCHANGED <<version, job>>
  BY DEF Release, blobVars
<1>5. CASE UNCHANGED file
  BY <1>3, <1>4, <1>5, NothingSeen
<1>6. CASE Exists(o) /\ file[o].token = w
  <2>1. file[o] \in File /\ GoodRow(VersionsOf(o), file[o], job[o])
        /\ (file[o].status = "infected" => file[o].token = None)
    BY <1>2, SettledNow
  <2>2. row.status = r.previous /\ row.token = None /\ row.key = file[o].key
        /\ row.sha = file[o].sha
    BY <2>1 DEF File
  <2>3. Rows(o, row)
    BY <1>6 DEF Release
  <2>4. Holds(o, file[o], w, r)
    BY <1>1, <1>6 DEF Holds, Undoes
  <2>5. Returns(VersionsOf(o), file[o], r.previous)
    BY <1>2, <2>4, SettledNow DEF GoodHolder
  <2>6. r.previous \in Waiting \cup {"ready"}
    BY <1>2, <2>5 DEF Returns, Call, Status, Waiting
  <2>7. file[o].status \in Waiting \cup {"ready"}
    BY <1>6, <2>1, NoneElsewhere DEF GoodRow, File, Status, Waiting
  <2> HIDE DEF row, r, o
  <2>8. r.previous = "ready" => History(o) # <<>>
    BY <1>2, <2>5, NewestHistory DEF Returns
  <2>9. GoodRow(VersionsOf(o), row, job'[o])
    BY <2>2, <2>5 DEF GoodRow, CanBe, Returns
  <2> QED
    BY <1>2, <1>3, <1>4, <2>2, <2>3, <2>6, <2>7, <2>8, <2>9, RowSeen
<1> QED
  BY <1>5, <1>6 DEF Release
LEMMA JobFailsSeen == ASSUME HistoryInv, NEW w \in Process, JobFails(w) PROVE GoodStep
<1> DEFINE o == worker[w].o
           jrow == Failed(job[o])
           row == [file[o] EXCEPT !.status = StatusOf(jrow)]
<1>1. o \in Object /\ RowsOK /\ CallsOK
  BY CallsAre DEF JobFails
<1>2. Ends(w) /\ UNCHANGED version
  BY DEF JobFails, blobVars
<1>3. Follow
  BY <1>1, <1>2, IdleFollows
<1>4. CASE job[o].status # "processing"
  BY <1>2, <1>3, <1>4, NothingSeen DEF JobFails
<1>5. CASE job[o].status = "processing"
  <2>1. file[o] \in File /\ GoodRow(VersionsOf(o), file[o], job[o])
        /\ file[o].status # "infected"
    BY <1>1, <1>5, SettledNow
  <2>2. file[o].status \in Waiting \cup {"ready"}
    BY <1>5, <2>1 DEF GoodRow, File, Status, Waiting
  <2>3. StatusOf(jrow) \in {"scan_dead_letter", "scan_pending"}
    BY DEF StatusOf
  <2>4. row.status = StatusOf(jrow) /\ row.token = file[o].token /\ row.key = file[o].key
        /\ row.sha = file[o].sha
    BY <2>1 DEF File
  <2>5. Rows(o, row) /\ Jobs(o, jrow)
    BY <1>5 DEF JobFails
  <2> HIDE DEF row, o, jrow
  <2>6. GoodRow(VersionsOf(o), row, job'[o])
    BY <2>3, <2>4 DEF GoodRow, CanBe
  <2>7. \A p \in Object \ {o} : job'[p] = job[p]
    BY <1>1, <2>5, JobsOthers
  <2>8. row.status \in Waiting
    BY <2>3, <2>4 DEF Waiting
  <2> QED
    BY <1>1, <1>2, <1>3, <2>2, <2>3, <2>4, <2>5, <2>6, <2>7, <2>8, RowSeen
<1> QED
  BY <1>4, <1>5

LEMMA OverrideSeen == ASSUME HistoryInv, NEW o \in Object, Override(o) PROVE GoodStep
<1> DEFINE row == [file[o] EXCEPT !.status = "scan_pending"]
           jrow == [status |-> "pending", tries |-> 0]
<1>1. RowsOK /\ job[o].status = "dead"
  BY HistoryParts, InvByParts DEF Override
<1>2. file[o] \in File /\ GoodRow(VersionsOf(o), file[o], job[o]) /\ file[o].status # "infected"
  BY <1>1, SettledNow
<1>3. file[o].status \in Waiting \cup {"ready"}
  BY <1>1, <1>2 DEF GoodRow, File, Status, Waiting
<1>4. row.status = "scan_pending" /\ row.token = file[o].token /\ row.key = file[o].key
      /\ row.sha = file[o].sha
  BY <1>2 DEF File
<1>5. Rows(o, row) /\ Jobs(o, jrow) /\ UNCHANGED <<version, worker>>
  BY DEF Override, blobVars
<1> HIDE DEF row, jrow
<1>6. GoodRow(VersionsOf(o), row, job'[o])
  BY <1>4 DEF GoodRow, CanBe
<1>7. \A p \in Object \ {o} : job'[p] = job[p]
  BY <1>1, <1>5, JobsOthers
<1>8. row.status \in Waiting
  BY <1>4 DEF Waiting
<1>9. Follow
  BY <1>5, SameFollows
<1> QED
  BY <1>3, <1>4, <1>5, <1>6, <1>7, <1>8, <1>9, RowSeen

LEMMA ExpireUploadSeen ==
  ASSUME HistoryInv, NEW w \in Process, NEW o \in Object, ExpireUpload(w, o) PROVE GoodStep
<1> DEFINE row == [file[o] EXCEPT !.status = "upload_expiring"]
           next == [Idle EXCEPT !.step = "expire", !.o = o, !.reserved = file[o].key]
<1>1. RowsOK /\ CallsOK /\ Expirable(o)
  BY CallsAre DEF ExpireUpload
<1>2. file[o] \in File /\ GoodRow(VersionsOf(o), file[o], job[o])
  BY SettledNow
<1>3. VersionsOf(o) = {}
  BY <1>1, <1>2 DEF Expirable, GoodRow, Returns, CanBe
<1>4. file[o].status \in Waiting
  BY <1>1 DEF Expirable, Waiting
<1>5. row.status = "upload_expiring" /\ row.token = file[o].token /\ row.key = file[o].key
      /\ row.sha = file[o].sha
  BY <1>2 DEF File
<1>6. Rows(o, row) /\ UNCHANGED <<version, job>> /\ Does(w, next)
  BY DEF ExpireUpload, blobVars
<1>7. next.step \notin Undoes
  BY DEF Idle, Undoes, Finalizing, Undoing
<1> HIDE DEF row, next
<1>8. GoodRow(VersionsOf(o), row, job'[o])
  BY <1>3, <1>5 DEF GoodRow, CanBe
<1>9. Follow
  BY <1>1, <1>6, <1>7, EndFollows
<1>10. row.status \in Waiting
  BY <1>5 DEF Waiting
<1> QED
  BY <1>4, <1>5, <1>6, <1>8, <1>9, <1>10, RowSeen

\* The row of a file goes, with its versions.
LEMMA RowGoneSeen ==
  ASSUME HistoryInv, NEW o \in Object, RowGone(o), Exists(o), Follow,
         version' = version \ VersionsOf(o)
  PROVE  GoodStep
<1> DEFINE row == [file[o] EXCEPT !.status = "gone", !.token = None]
<1>1. RowsOK /\ file[o] \in File
  BY HistoryParts, InvByParts, SettledNow
<1>2. row.status = "gone" /\ row.token = None
  BY <1>1 DEF File
<1>3. Rows(o, row) /\ Jobs(o, NoJob)
  BY DEF RowGone
<1> HIDE DEF row
<1>4. file'[o] = row /\ job'[o] = NoJob
      /\ \A p \in Object \ {o} : file'[p] = file[p] /\ job'[p] = job[p]
  BY <1>1, <1>3, RowsOthers, JobsOthers
<1>5. VersionsOf(o)' = {} /\ \A p \in Object \ {o} : VersionsOf(p)' = VersionsOf(p)
  BY DEF VersionsOf
<1>6. NumberedSet({}) /\ History(o)' = <<>>
  BY <1>5, HistoryEmpty DEF History, HistoryOf, Nth
<1>7. GoodRow({}, row, NoJob)
  BY <1>2 DEF GoodRow, CanBe, NoJob
<1>8. Good(o, {}, row, NoJob, worker')
  BY <1>2, <1>6, <1>7, NoneElsewhere DEF Good, Holds
<1>9. Settled(o)'
  BY <1>4, <1>5, <1>8, SettledAfter
<1>10. Seen(o)
  BY <1>1, <1>2, <1>4, <1>6 DEF Seen, ShownFrom, Exists, File, Status, Waiting
<1> QED
  BY <1>4, <1>5, <1>9, <1>10, OneSeen DEF Follow

LEMMA ForgetSeen == ASSUME HistoryInv, NEW w \in Process, Forget(w) PROVE GoodStep
<1> DEFINE o == worker[w].o
<1>1. o \in Object /\ CallsOK
  BY CallsAre DEF Forget, Expiring
<1>2. Follow /\ UNCHANGED version
  BY <1>1, IdleFollows DEF Forget
<1>3. CASE file[o].status = "upload_expiring"
  <2>1. VersionsOf(o) = {}
    BY <1>1, <1>3, SettledNow DEF GoodRow, CanBe
  <2> QED
    BY <1>1, <1>2, <1>3, <2>1, RowGoneSeen DEF Forget, Exists
<1>4. CASE file[o].status # "upload_expiring"
  BY <1>2, <1>4, NothingSeen DEF Forget
<1> QED
  BY <1>3, <1>4

LEMMA PurgeSeen ==
  ASSUME HistoryInv, NEW w \in Process, NEW o \in Object, Purge(w, o) PROVE GoodStep
<1>1. \E K : Tends(w, K)
  BY DEF Purge
<1>2. Follow
  BY <1>1, CallsAre, TendsFollows
<1>3. Exists(o) /\ RowGone(o) /\ version' = version \ VersionsOf(o)
  BY DEF Purge
<1> QED
  BY <1>2, <1>3, RowGoneSeen

LEMMA ClaimSeen ==
  ASSUME HistoryInv, NEW w \in Process, NEW o \in Object, NEW retry, NEW inline,
         Claim(w, o, retry, inline)
  PROVE  GoodStep
<1> DEFINE previous == IF file[o].status = "scan_processing" THEN file[o].previous
                                                             ELSE file[o].status
           row == [file[o] EXCEPT !.status = "scan_processing", !.token = w, !.previous = previous]
           next == [Idle EXCEPT !.step = "scan", !.o = o, !.retry = retry, !.inline = inline,
                       !.previous = previous, !.reserved = file[o].key,
                       !.number = NextNumber(o)]
           V == VersionsOf(o)
<1>1. RowsOK /\ CallsOK /\ file[o] \in File /\ GoodRow(V, file[o], job[o]) /\ NumberedSet(V)
  BY SettledNow, InvByParts, HistoryParts
<1>2. file[o].status \in Waiting \cup {"ready"}
  BY <1>1 DEF Claim, Claimable, Exists, File, Status, Waiting
<1>3. Returns(V, file[o], previous)
  BY <1>1, <1>2 DEF GoodRow, Returns, Waiting
<1>4. /\ row.status = "scan_processing" /\ row.token = w /\ row.previous = previous
      /\ row.key = file[o].key /\ row.sha = file[o].sha
  BY <1>1 DEF File
<1>5. next.step = "scan" /\ next.o = o /\ next.previous = previous
      /\ next.number = 1 + Cardinality(V)
  BY DEF Idle, NextNumber
<1>6. Rows(o, row) /\ Does(w, next) /\ UNCHANGED <<version, job>>
  BY DEF Claim, blobVars
<1> HIDE DEF previous, row, next
<1>7. file'[o] = row /\ \A p \in Object \ {o} : file'[p] = file[p]
  BY <1>1, <1>6, RowsOthers
<1>8. \A v \in Process : worker'[v] = IF v = w THEN next ELSE worker[v]
  BY <1>1, <1>6 DEF CallsOK, Does
<1>9. \A p \in Object : VersionsOf(p)' = VersionsOf(p)
  BY <1>6 DEF VersionsOf
<1>10. GoodRow(V, row, job[o])
  BY <1>3, <1>4 DEF GoodRow, Returns, CanBe
<1>11. GoodHolder(V, row, next)
  BY <1>3, <1>4, <1>5 DEF GoodHolder, Returns, CanBe
<1> HIDE DEF V
<1>12. Good(o, V, row, job[o], worker')
  <2>1. ASSUME NEW v \in Process, Holds(o, row, v, worker'[v])
        PROVE  GoodHolder(V, row, worker'[v])
    BY <1>4, <1>8, <1>11, <2>1 DEF Holds
  <2> QED
    BY <1>1, <1>10, <2>1 DEF Good
<1>13. Settled(o)'
  BY <1>6, <1>7, <1>9, <1>12, SettledAfter DEF V
<1>14. Seen(o)
  <2>1. History(o)' = History(o)
    <3>1. VersionsOf(o)' = VersionsOf(o)
      BY <1>9
    <3> QED
      BY <3>1 DEF History
  <2>2. CASE file[o].status = "ready"
    BY <1>4, <1>7, <2>1, <2>2 DEF Seen, ShownFrom, Waiting
  <2>3. CASE file[o].status \in Waiting
    <3>1. Shown(o) = "waiting"
      BY <2>3 DEF Shown, Waiting
    <3>2. Shown(o)' = "waiting"
      BY <1>4, <1>7 DEF Shown
    <3> QED
      BY <2>1, <3>1, <3>2 DEF Seen, Unseen
  <2> QED
    BY <1>2, <2>2, <2>3
<1>15. \A v \in Process : \/ Follows(worker[v], worker'[v])
                          \/ worker'[v].step \in Undoes => worker'[v].o = o
  BY <1>5, <1>8 DEF Follows
<1> QED
  BY <1>6, <1>7, <1>9, <1>13, <1>14, <1>15, OneSeen

LEMMA FinalizeJobSeen == ASSUME HistoryInv, NEW w \in Process, FinalizeJob(w) PROVE GoodStep
<1>1. worker[w].o \in Object
  BY CallsAre DEF FinalizeJob
<1>2. CASE Claim(w, worker[w].o, TRUE, None)
  BY <1>1, <1>2, ClaimSeen
<1>3. CASE ~Claim(w, worker[w].o, TRUE, None)
  BY <1>3, GoesElsewhere DEF FinalizeJob, blobVars
<1> QED
  BY <1>2, <1>3
\* A version is added to a file that may be read from then on.
LEMMA VersionAdded ==
  ASSUME HistoryInv, NEW o \in Object, NEW v \in Version, v.object = o,
         v.number = NextNumber(o), version' = version \cup {v},
         NEW row, Rows(o, row), row.status = "ready", row.key = v.key, row.sha = v.content,
         row.token # None => /\ row.token = file[o].token
                             /\ VersionsOf(o) # {}
                             /\ UNCHANGED worker
  PROVE  /\ Good(o, VersionsOf(o)', file'[o], job'[o], worker')
         /\ History(o)' = Append(History(o), v.content)
         /\ \A p \in Object \ {o} : VersionsOf(p)' = VersionsOf(p) /\ file'[p] = file[p]
<1> DEFINE V == VersionsOf(o)
           W == V \cup {v}
<1>1. V \in SUBSET Version /\ IsFiniteSet(V) /\ NumberedSet(V) /\ Cardinality(V) \in Nat
  BY VersionsFinite, SettledNow, HistoryParts
<1>2. VersionsOf(o)' = W /\ \A p \in Object \ {o} : VersionsOf(p)' = VersionsOf(p)
  BY DEF VersionsOf
<1>3. file'[o] = row /\ \A p \in Object \ {o} : file'[p] = file[p]
  BY RowsOthers, HistoryParts, InvByParts
<1> HIDE DEF V
<1>4. v.number = 1 + Cardinality(V)
  BY DEF NextNumber, V
<1>5. Cardinality(W) = 1 + Cardinality(V) /\ NumberedSet(W)
      /\ HistoryOf(W) = Append(HistoryOf(V), v.content)
  BY <1>1, <1>4, HistoryGrows
<1>6. v \in W
  OBVIOUS
<1> HIDE DEF W
<1>7. GoodRow(W, row, job'[o])
  BY <1>4, <1>5, <1>6 DEF GoodRow, CanBe
<1>8. Good(o, W, row, job'[o], worker')
  <2>1. ASSUME NEW w \in Process, Holds(o, row, w, worker'[w])
        PROVE  GoodHolder(W, row, worker'[w])
    <3>1. row.token # None
      BY <2>1, NoneElsewhere DEF Holds
    <3>2. GoodHolder(V, file[o], worker[w]) /\ UNCHANGED worker /\ V # {}
      BY <2>1, <3>1, SettledNow DEF Holds, V
    <3> QED
      BY <1>4, <1>5, <1>6, <3>2 DEF GoodHolder, Returns, CanBe
  <2> QED
    BY <1>5, <1>7, <2>1 DEF Good
<1>9. History(o)' = HistoryOf(W) /\ History(o) = HistoryOf(V)
  BY <1>2 DEF History, HistoryOf, Nth, V
<1> QED
  BY <1>2, <1>3, <1>5, <1>8, <1>9

LEMMA CommitCleanOn ==
  ASSUME HistoryInv, NEW w \in Process, NEW o \in Object, o = worker[w].o, CommitClean(w)
  PROVE  GoodStep
<1> DEFINE r == worker[w]
           v == [object |-> o, number |-> r.number, key |-> r.key, content |-> r.content]
           row == [file[o] EXCEPT !.status = "ready", !.token = None, !.key = r.key,
                                  !.sha = r.content]
<1>1. r.step = "commit" /\ r.step \in Finalizing
  BY DEF CommitClean, Finalizing
<1>2. RowsOK /\ CallsOK /\ r \in Call /\ Knows(r) /\ file[o] \in File
  BY CallsAre, SettledNow DEF CallsOK
<1>3. CASE ~Owns(w)
  BY <1>1, <1>3, UndoUnseen DEF CommitClean, Undo, blobVars
<1>4. CASE Owns(w)
  <2>1. file[o].status = "scan_processing"
    BY <1>4 DEF Owns
  <2>2. Holds(o, file[o], w, r)
    BY <1>1, <1>4 DEF Owns, Holds, Undoes
  <2>3. r.number = NextNumber(o)
    BY <1>1, <1>2, <2>1, <2>2, SettledNow DEF GoodHolder, NextNumber
  <2>4. r.number \in 1..MaxVersions /\ r.key \in Key /\ r.content \in Content \ Infected
    BY <1>1, <1>2 DEF Knows, Finalizing
  <2>5. /\ v \in Version /\ v.object = o /\ v.number = NextNumber(o)
        /\ v.key = r.key /\ v.content = r.content
    BY <1>2, <2>3, <2>4 DEF Version
  <2>6. row.status = "ready" /\ row.token = None /\ row.key = r.key /\ row.sha = r.content
    BY <1>2 DEF File
  <2>7. /\ version' = version \cup {v} /\ Rows(o, row) /\ Jobs(o, NoJob)
        /\ Unanswered(w) \/ \E K : Tends(w, K)
    BY <1>4 DEF CommitClean
  <2>8. Follow
    BY <1>1, <1>2, <2>7, TendsFollows, UnansweredFollows
  <2> HIDE DEF v, row
  <2>9. /\ Good(o, VersionsOf(o)', file'[o], job'[o], worker')
        /\ History(o)' = Append(History(o), v.content)
        /\ \A p \in Object \ {o} : VersionsOf(p)' = VersionsOf(p) /\ file'[p] = file[p]
    BY <1>2, <2>5, <2>6, <2>7, VersionAdded
  <2>10. Settled(o)'
    BY <2>9, SettledAfter
  <2>11. \A p \in Object \ {o} : job'[p] = job[p]
    BY <1>2, <2>7, JobsOthers
  <2>12. Seen(o)
    <3>1. file'[o] = row
      BY <1>2, <2>7, RowsOthers
    <3>2. ShownFrom(o, Waiting, {"ready"})
      BY <2>1, <2>6, <3>1 DEF ShownFrom, Waiting
    <3> QED
      BY <2>4, <2>5, <2>9, <3>2 DEF Seen
  <2> QED
    BY <2>8, <2>9, <2>10, <2>11, <2>12, OneSeen DEF Follow
<1> QED
  BY <1>3, <1>4

LEMMA CommitCleanSeen == ASSUME HistoryInv, NEW w \in Process, CommitClean(w) PROVE GoodStep
<1>1. worker[w].step \in Undoes
  BY DEF CommitClean, Undoes, Finalizing
<1>2. worker[w].o \in Object
  BY <1>1, CallsAre
<1> QED
  BY <1>2, CommitCleanOn

LEMMA RevertSeen == ASSUME HistoryInv, NEW o \in Object, Revert(o) PROVE GoodStep
<1>1. PICK u \in VersionsOf(o) :
        /\ version' = version \cup {[u EXCEPT !.number = NextNumber(o)]}
        /\ Rows(o, [file[o] EXCEPT !.status = "ready", !.key = u.key, !.sha = u.content])
  BY DEF Revert
<1> DEFINE v == [u EXCEPT !.number = NextNumber(o)]
           row == [file[o] EXCEPT !.status = "ready", !.key = u.key, !.sha = u.content]
<1>2. RowsOK /\ file[o] \in File /\ GoodRow(VersionsOf(o), file[o], job[o])
  BY SettledNow, HistoryParts, InvByParts
<1>3. /\ VersionsOf(o) \in SUBSET Version /\ IsFiniteSet(VersionsOf(o))
      /\ NumberedSet(VersionsOf(o)) /\ Cardinality(VersionsOf(o)) \in Nat
  BY VersionsFinite, SettledNow, HistoryParts
<1>4. u \in Version /\ u.object = o
  BY <1>3 DEF VersionsOf
<1>5. NextNumber(o) \in 1..MaxVersions
  BY <1>3, DriveBlobsAssumption DEF Revert, NextNumber
<1>6. /\ v \in Version /\ v.object = o /\ v.number = NextNumber(o)
      /\ v.key = u.key /\ v.content = u.content
  BY <1>4, <1>5 DEF Version
<1>7. row.status = "ready" /\ row.token = file[o].token /\ row.key = u.key /\ row.sha = u.content
  BY <1>2 DEF File
<1>8. version' = version \cup {v} /\ Rows(o, row) /\ UNCHANGED <<job, worker>>
  BY <1>1 DEF Revert
<1> HIDE DEF v, row
<1>9. /\ Good(o, VersionsOf(o)', file'[o], job'[o], worker')
      /\ History(o)' = Append(History(o), v.content)
      /\ \A p \in Object \ {o} : VersionsOf(p)' = VersionsOf(p) /\ file'[p] = file[p]
  BY <1>6, <1>7, <1>8, VersionAdded
<1>10. Settled(o)'
  BY <1>9, SettledAfter
<1>11. Seen(o)
  <2>1. file'[o] = row
    BY <1>2, <1>8, RowsOthers
  <2>2. History(o) = HistoryOf(VersionsOf(o))
    BY DEF History, HistoryOf, Nth
  <2>3. u.number \in DOMAIN History(o) /\ History(o)[u.number] = u.content
    BY <1>3, <2>2, HistoryIs DEF HistoryOf
  <2>4. History(o)' = Append(History(o), History(o)[u.number])
    BY <1>6, <1>9, <2>3
  <2>5. ShownFrom(o, Waiting \cup {"ready", "infected"}, {"ready"})
    BY <1>1, <1>2, <1>7, <2>1 DEF ShownFrom, GoodRow, CanBe, File, Status, Waiting
  <2> QED
    BY <2>3, <2>4, <2>5 DEF Seen
<1> QED
  BY <1>8, <1>9, <1>10, <1>11, SameFollows, OneSeen DEF Follow

-----------------------------------------------------------------------------
(* Every step, and the theorems.                                           *)

LEMMA ContinueSeen == ASSUME HistoryInv, NEW w \in Process, Continue(w) PROVE GoodStep
BY ScanUnseen, CommitScanFailureSeen, SetAsideUnseen, CommitInfectedSeen, ReserveUnseen,
   WriteUnseen, CommitCleanSeen, UnreserveUnseen, CheckWrittenUnseen, DiscardUnseen,
   ReleaseSeen, FinalizeJobSeen, JobFailsSeen, LookUnseen, EraseUnseen, CompleteUnseen,
   EraseUploadUnseen, ForgetSeen DEF Continue

LEMMA NextSeen == ASSUME HistoryInv, [Next]_vars PROVE GoodStep
<1>1. ASSUME NEW o \in Object, Prepare(o) \/ Override(o) \/ Revert(o) \/ Expires(o)
      PROVE  GoodStep
  BY <1>1, PrepareSeen, OverrideSeen, RevertSeen, ExpiresUnseen
<1>2. ASSUME NEW o \in Object, NEW c \in Uploads[o], Upload(o, c) PROVE GoodStep
  BY <1>2, UploadUnseen
<1>3. ASSUME NEW o \in Object, NEW w \in Process,
             \/ Purge(w, o) \/ ClaimJob(w, o) \/ ExpireUpload(w, o)
             \/ \E inline \in Uploads[o] \cup {None} : Finalize(w, o, inline)
      PROVE  GoodStep
  BY <1>3, PurgeSeen, ClaimJobUnseen, ExpireUploadSeen, ClaimSeen DEF Finalize
<1>4. ASSUME NEW w \in Process,
             Continue(w) \/ Fail(w) \/ Crash(w) \/ \E k \in Key : ClaimDeletion(w, k)
      PROVE  GoodStep
  BY <1>4, ContinueSeen, FailUnseen, CrashUnseen, ClaimDeletionUnseen
<1>5. ASSUME ReconcileBlobs PROVE GoodStep
  BY <1>5, ReconcileUnseen
<1>6. ASSUME UNCHANGED vars PROVE GoodStep
  BY <1>6, SameFollows, NothingSeen DEF vars
<1> QED
  BY <1>1, <1>2, <1>3, <1>4, <1>5, <1>6 DEF Next

LEMMA HistoryInit == Init => HistoryInv
<1> SUFFICES ASSUME Init PROVE HistoryInv
  OBVIOUS
<1>1. Inv
  BY InitInv
<1>2. ASSUME NEW o \in Object PROVE Settled(o)
  <2>1. VersionsOf(o) = {} /\ NumberedSet({})
    BY HistoryEmpty DEF Init, BlobInit, VersionsOf
  <2>2. file[o].status = "none" /\ file[o].token = None /\ job[o].status = "none"
    BY DEF Init, NoJob
  <2>3. GoodRow({}, file[o], job[o])
    BY <2>2 DEF GoodRow, CanBe
  <2>4. \A w \in Process : ~Holds(o, file[o], w, worker[w])
    BY <2>2, NoneElsewhere DEF Holds
  <2> QED
    BY <2>1, <2>3, <2>4 DEF Settled, Good
<1> QED
  BY <1>1, <1>2, HistoryParts

LEMMA HistoryNext == HistoryInv /\ Inv' /\ GoodStep => HistoryInv'
<1> SUFFICES ASSUME HistoryInv, Inv', GoodStep PROVE HistoryInv'
  OBVIOUS
<1>1. HistoryInv' <=> (Inv /\ \A o \in Object : Settled(o))'
  BY HistoryParts, PTL
<1> QED
  BY <1>1 DEF GoodStep

\* The versions of a file are numbered from one on, a finalization that still
\* has its claim knows the next number, and whatever it puts back fits the
\* versions there are (upload-commits.ts, versions.ts).
THEOREM HistoryInvariance == Spec => []HistoryInv
<1>1. HistoryInv /\ Inv' /\ [Next]_vars => HistoryInv'
  BY NextSeen, HistoryNext
<1> QED
  BY <1>1, HistoryInit, Invariance, PTL DEF Spec

\* A file that can be read shows its newest version, whatever interleaves and
\* fails, also when a finalization was undone, taken over or overtaken by a
\* revert (commitDriveCleanUpload, releaseDriveFinalizationClaim,
\* revertToVersion).
THEOREM ReadyShowsNewest == Spec => []ReadyIsNewest
<1>1. HistoryInv => ReadyIsNewest
  BY DEF HistoryInv, RowFits, Fits, Newest, ReadyIsNewest
<1> QED
  BY <1>1, HistoryInvariance, PTL

-----------------------------------------------------------------------------
(* The refinement of DriveFiles.                                           *)

LEMMA ShownAre ==
  ASSUME NEW o
  PROVE  /\ file[o].status = "none" => Shown(o) = "absent"
         /\ file[o].status = "ready" => Shown(o) = "available"
         /\ file[o].status = "infected" => Shown(o) = "quarantined"
         /\ file[o].status = "gone" => Shown(o) = "removed"
         /\ file[o].status \in Waiting => Shown(o) = "waiting"
BY DEF Shown, Waiting

LEMMA ShownBecome ==
  ASSUME NEW o
  PROVE  /\ file'[o].status = "ready" => Shown(o)' = "available"
         /\ file'[o].status = "infected" => Shown(o)' = "quarantined"
         /\ file'[o].status = "gone" => Shown(o)' = "removed"
         /\ file'[o].status \in Waiting => Shown(o)' = "waiting"
BY DEF Shown, Waiting

LEMMA MovesIs ==
  ASSUME NEW o \in Object, NEW from, NEW to, Shown(o) \in from, Shown(o)' = to,
         \A p \in Object \ {o} : Unseen(p)
  PROVE  Files!Moves(o, from, to)
BY DEF Files!Moves, Unseen

LEMMA HistoryMoves ==
  ASSUME NEW o \in Object, NEW h, History(o)' = h, \A p \in Object \ {o} : Unseen(p)
  PROVE  [p \in Object |-> History(p)]' = [[p \in Object |-> History(p)] EXCEPT ![o] = h]
BY DEF Unseen

LEMMA HistoryStays ==
  ASSUME NEW o \in Object, History(o)' = History(o), \A p \in Object \ {o} : Unseen(p)
  PROVE  UNCHANGED [p \in Object |-> History(p)]
BY DEF Unseen

LEMMA OneFileMoves ==
  ASSUME NEW o \in Object, Seen(o), ~Unseen(o), \A p \in Object \ {o} : Unseen(p)
  PROVE  Files!Next
<1>1. CASE History(o)' = History(o) /\ ShownFrom(o, {"none"}, Waiting)
  <2>1. Files!Moves(o, {"absent"}, "waiting")
    BY <1>1, ShownAre, ShownBecome, MovesIs DEF ShownFrom
  <2>2. UNCHANGED [p \in Object |-> History(p)]
    BY <1>1, HistoryStays
  <2> QED
    BY <2>2, <2>1 DEF Files!Prepare, Files!Next
<1>2. CASE History(o)' = History(o) /\ ShownFrom(o, {"ready"}, Waiting)
  <2>1. Files!Moves(o, {"available"}, "waiting")
    BY <1>2, ShownAre, ShownBecome, MovesIs DEF ShownFrom
  <2>2. UNCHANGED [p \in Object |-> History(p)]
    BY <1>2, HistoryStays
  <2> QED
    BY <2>2, <2>1 DEF Files!Hide, Files!Next
<1>3. CASE History(o)' = History(o) /\ ShownFrom(o, Waiting, {"ready"}) /\ History(o) # <<>>
  <2>1. Files!Moves(o, {"waiting"}, "available")
    BY <1>3, ShownAre, ShownBecome, MovesIs DEF ShownFrom
  <2>2. UNCHANGED [p \in Object |-> History(p)]
    BY <1>3, HistoryStays
  <2> QED
    BY <2>2, <1>3, <2>1 DEF Files!Return, Files!Next
<1>4. CASE History(o)' = History(o) /\ ShownFrom(o, Waiting, {"infected"})
  <2>1. Files!Moves(o, {"waiting"}, "quarantined")
    BY <1>4, ShownAre, ShownBecome, MovesIs DEF ShownFrom
  <2>2. UNCHANGED [p \in Object |-> History(p)]
    BY <1>4, HistoryStays
  <2> QED
    BY <2>2, <2>1 DEF Files!Quarantine, Files!Next
<1>5. ASSUME ShownFrom(o, Waiting, {"ready"}), NEW c \in Content \ Infected,
             History(o)' = Append(History(o), c)
      PROVE  Files!Next
  <2>1. Files!Moves(o, {"waiting"}, "available")
    BY <1>5, ShownAre, ShownBecome, MovesIs DEF ShownFrom
  <2>2. [p \in Object |-> History(p)]'
          = [[p \in Object |-> History(p)] EXCEPT ![o] = Append(History(o), c)]
    BY <1>5, HistoryMoves
  <2>3. Files!Publish(o, c)
    BY <2>1, <2>2 DEF Files!Publish
  <2> QED
    BY <2>3 DEF Files!Next
<1>6. ASSUME ShownFrom(o, Waiting \cup {"ready", "infected"}, {"ready"}), NEW n \in DOMAIN History(o),
             History(o)' = Append(History(o), History(o)[n])
      PROVE  Files!Next
  <2>1. Files!Moves(o, {"waiting", "available", "quarantined"}, "available")
    BY <1>6, ShownAre, ShownBecome, MovesIs DEF ShownFrom
  <2>2. [p \in Object |-> History(p)]'
          = [[p \in Object |-> History(p)] EXCEPT ![o] = Append(History(o), History(o)[n])]
    BY <1>6, HistoryMoves
  <2>3. Files!Revert(o, n)
    BY <2>1, <2>2 DEF Files!Revert
  <2> QED
    BY <2>3 DEF Files!Next
<1>7. CASE ShownFrom(o, Waiting \cup {"ready", "infected"}, {"gone"}) /\ History(o)' = <<>>
  <2>1. Files!Moves(o, {"waiting", "available", "quarantined"}, "removed")
    BY <1>7, ShownAre, ShownBecome, MovesIs DEF ShownFrom
  <2>2. [p \in Object |-> History(p)]' = [[p \in Object |-> History(p)] EXCEPT ![o] = <<>>]
    BY <1>7, HistoryMoves
  <2>3. Files!Remove(o)
    BY <2>1, <2>2 DEF Files!Remove
  <2> QED
    BY <2>3 DEF Files!Next
<1> QED
  BY <1>1, <1>2, <1>3, <1>4, <1>5, <1>6, <1>7 DEF Seen

LEMMA AbstractStep == ASSUME GoodStep PROVE [Files!Next]_(Files!vars)
<1>1. CASE \A p \in Object : Unseen(p)
  BY <1>1 DEF Unseen, Files!vars
<1>2. ASSUME NEW o \in Object, Seen(o), \A p \in Object \ {o} : Unseen(p)
      PROVE  [Files!Next]_(Files!vars)
  BY <1>1, <1>2, OneFileMoves
<1> QED
  BY <1>1, <1>2 DEF GoodStep

LEMMA AbstractInit == Init => Files!Init
<1> SUFFICES ASSUME Init PROVE Files!Init
  OBVIOUS
<1>1. ASSUME NEW o \in Object PROVE Shown(o) = "absent" /\ History(o) = <<>>
  <2>1. file[o].status = "none" /\ VersionsOf(o) = {}
    BY DEF Init, BlobInit, VersionsOf
  <2>2. HistoryOf({}) = <<>>
    BY HistoryEmpty
  <2> QED
    BY <2>1, <2>2, ShownAre DEF History, HistoryOf, Nth
<1> QED
  BY <1>1 DEF Files!Init

\* Drive implements DriveFiles: nobody reads a file before a verdict, only what
\* was found clean enters its history, which grows one version at a time, an
\* undone finalization brings back what was shown, and quarantine ends only by
\* removal or a return to an earlier version (uploads.ts, upload-commits.ts,
\* scan-claims.ts, lifecycle.ts, versions.ts).
THEOREM FilesRefined == Spec => KeepsPromise
<1>1. HistoryInv /\ [Next]_vars => [Files!Next]_(Files!vars)
  BY NextSeen, AbstractStep
<1> QED
  BY <1>1, AbstractInit, HistoryInvariance, PTL DEF Spec, KeepsPromise, Files!Spec

-----------------------------------------------------------------------------
(* The reference counts: keys name the content they hold, and the counts   *)
(* are those of the versions.                                              *)

Counted == VersionKeysFit /\ BlobKeysFit /\ FileKeysFit /\ CallKeysFit /\ CountsMatch

CallFits(r) ==
  /\ r.step \in Finalizing /\ IsBlobKey(r.reserved) => Dedup
  /\ r.step \in Finalizing /\ r.wrote # None /\ IsBlobKey(r.wrote) => Dedup
  /\ r.step = "reserve" => Dedup
  /\ r.step \in {"write", "commit"} =>
       IF Dedup THEN BlobKeyOf(r.content, r.key) ELSE ~IsBlobKey(r.key)

LEMMA CallsFit == CallKeysFit <=> \A w \in Process : CallFits(worker[w])
BY DEF CallKeysFit, CallFits

LEMMA CountsParts == CountsInv <=> HistoryInv /\ Counted
BY DEF CountsInv, Counted

LEMMA KeyKinds ==
  /\ \A o, n : ~IsBlobKey(OwnKey(o, n))
  /\ \A o : ~IsBlobKey(QuarantineKey(o))
  /\ \A c, k : BlobKeyOf(c, k) => IsBlobKey(k)
  /\ \A c, d, k : BlobKeyOf(c, k) /\ BlobKeyOf(d, k) => c = d
  /\ \A c : BlobKeyOf(c, BlobKey(c, 0)) /\ \A i \in 1..MaxFresh : BlobKeyOf(c, BlobKey(c, i))
<1>1. MaxFresh \in Nat /\ 0 \in 0..MaxFresh /\ \A i \in 1..MaxFresh : i \in 0..MaxFresh
  BY DriveBlobsAssumption
<1> QED
  BY <1>1 DEF IsBlobKey, OwnKey, QuarantineKey, BlobKey, BlobKeyOf

LEMMA NewCallFits ==
  ASSUME CountsInv, NEW w \in Process, NEW r, Does(w, r), CallFits(r) PROVE CallKeysFit'
<1>1. CallsOK /\ \A v \in Process : CallFits(worker[v])
  BY CountsParts, CallsFit, HistoryParts, InvByParts DEF Counted
<1>2. \A v \in Process : worker'[v] = IF v = w THEN r ELSE worker[v]
  BY <1>1 DEF CallsOK, Does
<1>3. \A v \in Process : CallFits(worker'[v])
  BY <1>1, <1>2
<1> QED
  BY <1>3 DEF CallKeysFit, CallFits

LEMMA OtherCallFits ==
  ASSUME CountsInv, NEW w \in Process, NEW r, Does(w, r), r.step \notin Finalizing
  PROVE  CallKeysFit'
<1>1. CallFits(r)
  BY DEF CallFits, Finalizing
<1> QED
  BY <1>1, NewCallFits

LEMMA GoesFits ==
  ASSUME CountsInv, NEW w \in Process, NEW s, Goes(w, s), s \notin Finalizing
  PROVE  CallKeysFit'
<1> DEFINE r == [worker[w] EXCEPT !.step = s]
<1>1. worker[w] \in Call
  BY CountsParts, CallsAre
<1>2. Does(w, r) /\ r.step = s
  BY <1>1 DEF Goes, Call
<1> HIDE DEF r
<1> QED
  BY <1>2, OtherCallFits

LEMMA IdleFits == ASSUME CountsInv, NEW w \in Process, Ends(w) PROVE CallKeysFit'
BY OtherCallFits DEF Ends, Idle, Finalizing

LEMMA TendsFits == ASSUME CountsInv, NEW w \in Process, NEW K, Tends(w, K) PROVE CallKeysFit'
<1> DEFINE next == [Idle EXCEPT !.step = "look", !.todo = K]
<1>1. Does(w, Idle) \/ Does(w, next)
  BY DEF Tends
<1>2. next.step \notin Finalizing /\ Idle.step \notin Finalizing
  BY DEF Idle, Finalizing
<1> HIDE DEF next
<1> QED
  BY <1>1, <1>2, OtherCallFits

LEMMA SameFits == ASSUME CountsInv, UNCHANGED worker PROVE CallKeysFit'
BY DEF CountsInv, CallKeysFit

LEMMA UndoFits == ASSUME CountsInv, NEW w \in Process, Goes(w, UndoStep(w)) PROVE CallKeysFit'
BY GoesFits DEF UndoStep, Finalizing

LEMMA FilesSame == ASSUME CountsInv, UNCHANGED file PROVE FileKeysFit'
BY DEF CountsInv, FileKeysFit

LEMMA NewRowFits ==
  ASSUME CountsInv, NEW o \in Object, NEW row, Rows(o, row), IsBlobKey(row.key) => Dedup
  PROVE  FileKeysFit'
<1>1. file'[o] = row /\ \A p \in Object \ {o} : file'[p] = file[p]
  BY RowsOthers, CountsParts, HistoryParts, InvByParts
<1>2. \A p \in Object : IsBlobKey(file[p].key) => Dedup
  BY DEF CountsInv, FileKeysFit
<1> QED
  BY <1>1, <1>2 DEF FileKeysFit

LEMMA OldKeyFits ==
  ASSUME CountsInv, NEW o \in Object, NEW row, Rows(o, row), row.key = file[o].key
  PROVE  FileKeysFit'
<1>1. IsBlobKey(row.key) => Dedup
  BY DEF CountsInv, FileKeysFit
<1> QED
  BY <1>1, NewRowFits

LEMMA UnlessGrows == ASSUME NEW ok, NEW kind, Unless(ok, kind) PROVE slipped \subseteq slipped'
BY DEF Unless, Slip

LEMMA SlippedGrows == ASSUME NEW kinds, Slipped(kinds) PROVE slipped \subseteq slipped'
BY DEF Slipped

\* A step that leaves versions and blobs alone.
LEMMA BlobsStay ==
  ASSUME CountsInv, UNCHANGED <<version, blob>>, slipped \subseteq slipped',
         FileKeysFit', CallKeysFit'
  PROVE  Counted'
<1>1. VersionKeysFit'
  BY DEF CountsInv, VersionKeysFit, BlobKeyOf
<1>2. BlobKeysFit'
  BY DEF CountsInv, BlobKeysFit
<1>3. CountsMatch'
  BY DEF CountsInv, CountsMatch
<1> QED
  BY <1>1, <1>2, <1>3 DEF Counted
LEMMA CallIs ==
  ASSUME CountsInv, NEW w \in Process
  PROVE  /\ HistoryInv /\ RowsOK /\ CallsOK /\ StoreOK
         /\ worker[w] \in Call /\ Knows(worker[w]) /\ CallFits(worker[w])
         /\ worker[w].step \in {"job", "jobfail"} \cup Undoes \cup Expiring => worker[w].o \in Object
BY CountsParts, CallsAre, CallsFit DEF Counted, CallsOK

LEMMA RowIs ==
  ASSUME CountsInv, NEW o \in Object
  PROVE  /\ HistoryInv /\ RowsOK /\ file[o] \in File /\ job[o] \in Job
         /\ IsBlobKey(file[o].key) => Dedup
<1>1. HistoryInv /\ FileKeysFit
  BY CountsParts DEF Counted
<1>2. RowsOK
  BY <1>1, HistoryParts, InvByParts
<1> QED
  BY <1>1, <1>2, SettledNow DEF FileKeysFit

LEMMA UndoCounts ==
  ASSUME CountsInv, NEW w \in Process, Goes(w, UndoStep(w)), UNCHANGED <<version, blob, file>>,
         slipped \subseteq slipped'
  PROVE  Counted'
BY UndoFits, FilesSame, BlobsStay

LEMMA PrepareCounts == ASSUME CountsInv, NEW o \in Object, Prepare(o) PROVE Counted'
<1> DEFINE row == [file[o] EXCEPT !.status = "pending_upload"]
<1>1. Rows(o, row) /\ UNCHANGED <<version, blob, slipped, worker>>
  BY DEF Prepare, blobVars
<1>2. row.key = file[o].key
  BY RowIs DEF File
<1> HIDE DEF row
<1> QED
  BY <1>1, <1>2, OldKeyFits, SameFits, BlobsStay

LEMMA UploadCounts == ASSUME CountsInv, NEW o, NEW c, Upload(o, c) PROVE Counted'
BY FilesSame, SameFits, BlobsStay DEF Upload

LEMMA ClaimCounts ==
  ASSUME CountsInv, NEW w \in Process, NEW o \in Object, NEW retry, NEW inline,
         Claim(w, o, retry, inline)
  PROVE  Counted'
<1> DEFINE previous == IF file[o].status = "scan_processing" THEN file[o].previous
                                                             ELSE file[o].status
           row == [file[o] EXCEPT !.status = "scan_processing", !.token = w, !.previous = previous]
           next == [Idle EXCEPT !.step = "scan", !.o = o, !.retry = retry, !.inline = inline,
                       !.previous = previous, !.reserved = file[o].key,
                       !.number = NextNumber(o)]
<1>1. Rows(o, row) /\ Does(w, next) /\ UNCHANGED <<version, blob>> /\ slipped \subseteq slipped'
  BY SlippedGrows DEF Claim, blobVars
<1>2. row.key = file[o].key
  BY RowIs DEF File
<1>3. CallFits(next)
  <2>1. next.step = "scan" /\ next.reserved = file[o].key /\ next.wrote = None
    BY DEF Idle
  <2> HIDE DEF next
  <2> QED
    BY <2>1, RowIs DEF CallFits
<1> HIDE DEF row, next
<1> QED
  BY <1>1, <1>2, <1>3, OldKeyFits, NewCallFits, BlobsStay

LEMMA ScanCounts == ASSUME CountsInv, NEW w \in Process, Scan(w) PROVE Counted'
<1> DEFINE r == worker[w]
           home == IF r.inline # None /\ r.previous = "ready" THEN OwnKey(r.o, r.number)
                                                              ELSE r.reserved
           step == IF Dedup THEN "reserve" ELSE IF r.inline # None THEN "write" ELSE "commit"
           key == IF Dedup THEN None ELSE home
<1>1. r.step = "scan" /\ r.step \in Finalizing
  BY DEF Scan, Finalizing
<1>2. CASE Undo(w)
  BY <1>2, UndoCounts DEF Undo, blobVars
<1>3. CASE ~Undo(w)
  <2>1. r \in Call /\ CallFits(r)
    BY CallIs
  <2>2. PICK c : \/ \E s \in {"unscanned", "infected"} : Does(w, [r EXCEPT !.step = s, !.content = c])
                 \/ Does(w, [r EXCEPT !.step = step, !.content = c, !.key = key])
    BY <1>3 DEF Scan
  <2>3. CallKeysFit'
    <3>1. ASSUME NEW s \in {"unscanned", "infected"}, Does(w, [r EXCEPT !.step = s, !.content = c])
          PROVE  CallKeysFit'
      <4> DEFINE next == [r EXCEPT !.step = s, !.content = c]
      <4>1. next.step = s /\ next.reserved = r.reserved /\ next.wrote = r.wrote
        BY <2>1 DEF Call
      <4>2. Does(w, next)
        BY <3>1
      <4> HIDE DEF next
      <4>3. CallFits(next)
        BY <1>1, <2>1, <3>1, <4>1 DEF CallFits
      <4> QED
        BY <4>2, <4>3, NewCallFits
    <3>2. ASSUME Does(w, [r EXCEPT !.step = step, !.content = c, !.key = key])
          PROVE  CallKeysFit'
      <4> DEFINE next == [r EXCEPT !.step = step, !.content = c, !.key = key]
      <4>1. next.step = step /\ next.reserved = r.reserved /\ next.wrote = r.wrote
            /\ next.key = key
        BY <2>1 DEF Call
      <4>2. Does(w, next)
        BY <3>2
      <4> HIDE DEF next
      <4>3. ASSUME Dedup PROVE CallFits(next)
        <5>1. step = "reserve"
          BY <4>3
        <5>2. next.step = "reserve"
          BY <4>1, <5>1
        <5> HIDE DEF step, key
        <5> QED
          BY <4>3, <5>2 DEF CallFits
      <4>4. ASSUME ~Dedup PROVE CallFits(next)
        <5>1. ~IsBlobKey(key)
          BY <1>1, <2>1, <4>4, KeyKinds DEF CallFits
        <5>2. step # "reserve"
          BY <4>4
        <5> HIDE DEF step, key
        <5>3. ~IsBlobKey(r.reserved) /\ (r.wrote # None => ~IsBlobKey(r.wrote))
          BY <1>1, <2>1, <4>4 DEF CallFits
        <5> QED
          BY <4>1, <4>4, <5>1, <5>2, <5>3 DEF CallFits
      <4> QED
        BY <4>2, <4>3, <4>4, NewCallFits
    <3> QED
      BY <2>2, <3>1, <3>2
  <2>4. UNCHANGED <<version, blob, file, slipped>>
    BY <1>3 DEF Scan, blobVars
  <2> QED
    BY <2>3, <2>4, FilesSame, BlobsStay
<1> QED
  BY <1>2, <1>3

LEMMA CommitScanFailureCounts ==
  ASSUME CountsInv, NEW w \in Process, CommitScanFailure(w) PROVE Counted'
<1> DEFINE r == worker[w]
           o == r.o
           row == [file[o] EXCEPT !.status = StatusOf(FailureRecorded(job[o])), !.token = None,
                                  !.sha = r.content]
<1>1. o \in Object
  BY CallIs DEF CommitScanFailure, Undoes, Finalizing
<1>2. CASE ~Owns(w)
  BY <1>2, UndoCounts DEF CommitScanFailure, Undo, blobVars
<1>3. CASE Owns(w)
  <2>1. row.key = file[o].key
    BY <1>1, RowIs DEF File
  <2>2. /\ Rows(o, row) /\ UNCHANGED <<version, blob, slipped>>
        /\ Goes(w, "jobfail") \/ Ends(w) \/ Unanswered(w)
    BY <1>3 DEF CommitScanFailure, blobVars
  <2>3. CallKeysFit'
    BY <2>2, IdleFits, GoesFits, UndoFits DEF Finalizing, Unanswered
  <2> HIDE DEF row, o
  <2> QED
    BY <1>1, <2>1, <2>2, <2>3, OldKeyFits, BlobsStay
<1> QED
  BY <1>2, <1>3

LEMMA SetAsideCounts == ASSUME CountsInv, NEW w \in Process, SetAside(w) PROVE Counted'
<1> DEFINE r == worker[w]
           copied == [r EXCEPT !.step = "quarantine", !.wrote = QuarantineKey(r.o)]
           left == [r EXCEPT !.step = "quarantine"]
<1>1. r.step \in Finalizing /\ r \in Call /\ CallFits(r)
  BY CallIs DEF SetAside, Finalizing
<1>2. copied.step = "quarantine" /\ copied.reserved = r.reserved
      /\ copied.wrote = QuarantineKey(r.o)
  BY <1>1 DEF Call
<1>3. left.step = "quarantine" /\ left.reserved = r.reserved /\ left.wrote = r.wrote
  BY <1>1 DEF Call
<1>4. Does(w, copied) \/ Does(w, left)
  BY DEF SetAside, Goes
<1> HIDE DEF copied, left
<1>5. CallFits(copied) /\ CallFits(left)
  BY <1>1, <1>2, <1>3, KeyKinds DEF CallFits
<1>6. CallKeysFit'
  BY <1>4, <1>5, NewCallFits
<1> QED
  BY <1>6, FilesSame, BlobsStay DEF SetAside

LEMMA CommitInfectedCounts ==
  ASSUME CountsInv, NEW w \in Process, CommitInfected(w) PROVE Counted'
<1> DEFINE r == worker[w]
           o == r.o
           place == IF r.wrote = None THEN file[o].key ELSE r.wrote
           row == [file[o] EXCEPT !.status = "infected", !.token = None, !.sha = r.content,
                                  !.key = place]
<1>1. o \in Object /\ r.step \in Finalizing /\ CallFits(r)
  BY CallIs DEF CommitInfected, Undoes, Finalizing
<1>2. CASE ~Owns(w)
  BY <1>2, UndoCounts DEF CommitInfected, Undo, blobVars
<1>3. CASE Owns(w)
  <2>1. row.key = place
    BY <1>1, RowIs DEF File
  <2>2. IsBlobKey(place) => Dedup
    BY <1>1, RowIs DEF CallFits
  <2>3. /\ Rows(o, row) /\ UNCHANGED <<version, blob, slipped>>
        /\ Unanswered(w) \/ \E K : Tends(w, K)
    BY <1>3 DEF CommitInfected
  <2> HIDE DEF row, o, place
  <2>4. FileKeysFit'
    BY <1>1, <2>1, <2>2, <2>3, NewRowFits
  <2> QED
    BY <2>3, <2>4, TendsFits, UndoFits, BlobsStay DEF Unanswered
<1> QED
  BY <1>2, <1>3

LEMMA WriteCounts == ASSUME CountsInv, NEW w \in Process, Write(w) PROVE Counted'
<1> DEFINE r == worker[w]
           next == [r EXCEPT !.step = "commit", !.wrote = r.key]
<1>1. r.step = "write" /\ r.step \in Finalizing /\ r \in Call /\ CallFits(r)
  BY CallIs DEF Write, Finalizing
<1>2. CASE Undo(w)
  BY <1>2, UndoCounts DEF Undo, blobVars
<1>3. CASE ~Undo(w)
  <2>1. /\ next.step = "commit" /\ next.wrote = r.key /\ next.reserved = r.reserved
        /\ next.content = r.content /\ next.key = r.key
    BY <1>1 DEF Call
  <2>2. Does(w, next) /\ UNCHANGED <<version, blob, file, slipped>>
    BY <1>3 DEF Write
  <2> HIDE DEF next
  <2>3. CallFits(next)
    BY <1>1, <2>1 DEF CallFits
  <2> QED
    BY <2>2, <2>3, NewCallFits, FilesSame, BlobsStay
<1> QED
  BY <1>2, <1>3

LEMMA FailCounts == ASSUME CountsInv, NEW w \in Process, Fail(w) PROVE Counted'
BY UndoCounts, UnlessGrows DEF Fail, blobVars

LEMMA UnreserveCounts == ASSUME CountsInv, NEW w \in Process, Unreserve(w) PROVE Counted'
<1>1. CallKeysFit'
  BY GoesFits DEF Unreserve, Finalizing
<1> QED
  BY <1>1, FilesSame, BlobsStay DEF Unreserve

LEMMA CheckWrittenCounts == ASSUME CountsInv, NEW w \in Process, CheckWritten(w) PROVE Counted'
<1>1. CallKeysFit'
  BY GoesFits DEF CheckWritten, Finalizing
<1> QED
  BY <1>1, FilesSame, BlobsStay DEF CheckWritten, blobVars

LEMMA DiscardCounts == ASSUME CountsInv, NEW w \in Process, Discard(w) PROVE Counted'
<1>1. CallKeysFit'
  BY GoesFits DEF Discard, Finalizing
<1> QED
  BY <1>1, FilesSame, BlobsStay DEF Discard

LEMMA ReleaseCounts == ASSUME CountsInv, NEW w \in Process, Release(w) PROVE Counted'
<1> DEFINE r == worker[w]
           o == r.o
           row == [file[o] EXCEPT !.status = r.previous, !.token = None]
<1>1. o \in Object
  BY CallIs DEF Release, Undoes, Undoing
<1>2. row.key = file[o].key
  BY <1>1, RowIs DEF File
<1>3. (Rows(o, row) \/ UNCHANGED file) /\ UNCHANGED <<version, blob, slipped>>
      /\ (Goes(w, "jobfail") \/ Ends(w))
  BY DEF Release, blobVars
<1>4. CallKeysFit'
  BY <1>3, IdleFits, GoesFits DEF Finalizing
<1> HIDE DEF row, o
<1>5. FileKeysFit'
  BY <1>1, <1>2, <1>3, OldKeyFits, FilesSame
<1> QED
  BY <1>3, <1>4, <1>5, BlobsStay

LEMMA ClaimJobCounts ==
  ASSUME CountsInv, NEW w \in Process, NEW o, ClaimJob(w, o) PROVE Counted'
<1> DEFINE next == [Idle EXCEPT !.step = "job", !.o = o]
<1>1. Does(w, next) /\ next.step \notin Finalizing
  BY DEF ClaimJob, Idle, Finalizing
<1> HIDE DEF next
<1>2. CallKeysFit'
  BY <1>1, OtherCallFits
<1> QED
  BY <1>2, FilesSame, UnlessGrows, BlobsStay DEF ClaimJob, blobVars

LEMMA FinalizeJobCounts == ASSUME CountsInv, NEW w \in Process, FinalizeJob(w) PROVE Counted'
<1>1. worker[w].o \in Object
  BY CallIs DEF FinalizeJob
<1>2. CASE Claim(w, worker[w].o, TRUE, None)
  BY <1>1, <1>2, ClaimCounts
<1>3. CASE ~Claim(w, worker[w].o, TRUE, None)
  <2>1. CallKeysFit'
    BY <1>3, GoesFits DEF FinalizeJob, Finalizing
  <2> QED
    BY <1>3, <2>1, FilesSame, BlobsStay DEF FinalizeJob, blobVars
<1> QED
  BY <1>2, <1>3

LEMMA JobFailsCounts == ASSUME CountsInv, NEW w \in Process, JobFails(w) PROVE Counted'
<1> DEFINE o == worker[w].o
           row == [file[o] EXCEPT !.status = StatusOf(Failed(job[o]))]
<1>1. o \in Object
  BY CallIs DEF JobFails
<1>2. row.key = file[o].key
  BY <1>1, RowIs DEF File
<1>3. (Rows(o, row) \/ UNCHANGED file) /\ UNCHANGED <<version, blob>> /\ Ends(w)
  BY DEF JobFails, blobVars
<1>4. slipped \subseteq slipped'
  BY UnlessGrows DEF JobFails
<1> HIDE DEF row, o
<1>5. FileKeysFit'
  BY <1>1, <1>2, <1>3, OldKeyFits, FilesSame
<1> QED
  BY <1>3, <1>4, <1>5, IdleFits, BlobsStay

LEMMA OverrideCounts == ASSUME CountsInv, NEW o \in Object, Override(o) PROVE Counted'
<1> DEFINE row == [file[o] EXCEPT !.status = "scan_pending"]
<1>1. Rows(o, row) /\ UNCHANGED <<version, blob, slipped, worker>>
  BY DEF Override, blobVars
<1>2. row.key = file[o].key
  BY RowIs DEF File
<1> HIDE DEF row
<1> QED
  BY <1>1, <1>2, OldKeyFits, SameFits, BlobsStay

LEMMA ClaimDeletionCounts ==
  ASSUME CountsInv, NEW w \in Process, NEW k, ClaimDeletion(w, k) PROVE Counted'
<1> DEFINE next == [Idle EXCEPT !.step = "look", !.todo = {k}, !.as = "processing"]
<1>1. Does(w, next) /\ next.step \notin Finalizing
  BY DEF ClaimDeletion, Idle, Finalizing
<1> HIDE DEF next
<1>2. CallKeysFit'
  BY <1>1, OtherCallFits
<1> QED
  BY <1>2, FilesSame, UnlessGrows, BlobsStay DEF ClaimDeletion

LEMMA LookCounts == ASSUME CountsInv, NEW w \in Process, Look(w) PROVE Counted'
<1> DEFINE r == worker[w]
<1>1. PICK s \in {"complete", "erase"}, k \in r.todo, kept \in BOOLEAN :
        Does(w, [r EXCEPT !.step = s, !.key = k, !.kept = kept])
  BY DEF Look
<1> DEFINE next == [r EXCEPT !.step = s, !.key = k, !.kept = kept]
<1>2. next.step = s
  BY CallIs DEF Call
<1>3. Does(w, next)
  BY <1>1
<1> HIDE DEF next
<1>4. CallKeysFit'
  BY <1>2, <1>3, OtherCallFits DEF Finalizing
<1> QED
  BY <1>4, FilesSame, BlobsStay DEF Look, blobVars

LEMMA NextDeletionFits ==
  ASSUME CountsInv, NEW w \in Process, NextDeletion(w) PROVE CallKeysFit'
<1> DEFINE next == [Idle EXCEPT !.step = "look", !.todo = worker[w].todo \ {worker[w].key},
                                !.as = worker[w].as]
<1>1. Does(w, Idle) \/ Does(w, next)
  BY DEF NextDeletion
<1>2. next.step \notin Finalizing /\ Idle.step \notin Finalizing
  BY DEF Idle, Finalizing
<1> HIDE DEF next
<1> QED
  BY <1>1, <1>2, OtherCallFits

LEMMA EraseCounts == ASSUME CountsInv, NEW w \in Process, Erase(w) PROVE Counted'
<1>1. CallKeysFit'
  BY NextDeletionFits, GoesFits DEF Erase, Finalizing
<1> QED
  BY <1>1, FilesSame, BlobsStay DEF Erase

LEMMA ExpireUploadCounts ==
  ASSUME CountsInv, NEW w \in Process, NEW o \in Object, ExpireUpload(w, o) PROVE Counted'
<1> DEFINE row == [file[o] EXCEPT !.status = "upload_expiring"]
           next == [Idle EXCEPT !.step = "expire", !.o = o, !.reserved = file[o].key]
<1>1. Rows(o, row) /\ UNCHANGED <<version, blob>> /\ Does(w, next)
  BY DEF ExpireUpload, blobVars
<1>2. row.key = file[o].key
  BY RowIs DEF File
<1>3. next.step \notin Finalizing
  BY DEF Idle, Finalizing
<1>4. slipped \subseteq slipped'
  BY UnlessGrows DEF ExpireUpload
<1> HIDE DEF row, next
<1> QED
  BY <1>1, <1>2, <1>3, <1>4, OldKeyFits, OtherCallFits, BlobsStay

LEMMA EraseUploadCounts == ASSUME CountsInv, NEW w \in Process, EraseUpload(w) PROVE Counted'
<1>1. CallKeysFit'
  BY IdleFits, GoesFits DEF EraseUpload, Finalizing
<1> QED
  BY <1>1, FilesSame, BlobsStay DEF EraseUpload

LEMMA RowGoneFits == ASSUME CountsInv, NEW o \in Object, RowGone(o) PROVE FileKeysFit'
<1> DEFINE row == [file[o] EXCEPT !.status = "gone", !.token = None]
<1>1. Rows(o, row) /\ row.key = file[o].key
  BY RowIs DEF RowGone, File
<1> HIDE DEF row
<1> QED
  BY <1>1, OldKeyFits

LEMMA ForgetCounts == ASSUME CountsInv, NEW w \in Process, Forget(w) PROVE Counted'
<1>1. worker[w].o \in Object
  BY CallIs DEF Forget, Expiring
<1>2. FileKeysFit'
  BY <1>1, RowGoneFits, FilesSame DEF Forget
<1> QED
  BY <1>2, IdleFits, BlobsStay DEF Forget

LEMMA CrashCounts == ASSUME CountsInv, NEW w \in Process, Crash(w) PROVE Counted'
BY IdleFits, FilesSame, BlobsStay DEF Crash

LEMMA ExpiresCounts == ASSUME CountsInv, NEW o \in Object, Expires(o) PROVE Counted'
BY SameFits, FilesSame, BlobsStay DEF Expires, ReservationExpires

-----------------------------------------------------------------------------
(* Steps that change blobs or versions.                                    *)

LEMMA CountsNow ==
  ASSUME CountsInv
  PROVE  /\ version \in SUBSET Version /\ IsFiniteSet(version)
         /\ blob \in [Content -> Blob]
         /\ VersionKeysFit /\ BlobKeysFit /\ CountsMatch
BY CountsParts, HistoryParts DEF Counted, Inv, TypeOK, BlobTypeOK

LEMMA HoldingFinite ==
  ASSUME NEW V, IsFiniteSet(V), NEW c
  PROVE  /\ VersionsHolding(c, V) \subseteq V /\ IsFiniteSet(VersionsHolding(c, V))
         /\ Cardinality(VersionsHolding(c, V)) \in Nat
<1>1. VersionsHolding(c, V) \in SUBSET V
  BY DEF VersionsHolding
<1> QED
  BY <1>1, FS_Subset, FS_CardinalityType

\* Blobs whose keys and counts fit the versions as they are.
LEMMA BlobsFit ==
  ASSUME CountsInv, UNCHANGED version, slipped \subseteq slipped', FileKeysFit', CallKeysFit',
         \A c \in Content : /\ blob'[c].key # None => BlobKeyOf(c, blob'[c].key)
                            /\ "recount" \notin slipped' =>
                                 blob'[c].refs = Cardinality(VersionsHolding(c, version))
  PROVE  Counted'
<1>1. VersionKeysFit'
  BY CountsNow DEF VersionKeysFit, BlobKeyOf
<1>2. BlobKeysFit'
  BY DEF BlobKeysFit
<1>3. CountsMatch'
  BY DEF CountsMatch
<1> QED
  BY <1>1, <1>2, <1>3 DEF Counted

LEMMA ReserveCounts == ASSUME CountsInv, NEW w \in Process, Reserve(w) PROVE Counted'
<1> DEFINE r == worker[w]
           c == r.content
<1>1. r.step = "reserve" /\ r \in Call /\ CallFits(r) /\ Knows(r)
  BY CallIs DEF Reserve
<1>2. c \in Content /\ Dedup
  BY <1>1 DEF Knows, CallFits, Finalizing
<1>3. CASE Undo(w)
  BY <1>3, UndoCounts DEF Undo, blobVars
<1>4. CASE ~Undo(w)
  <2>1. PICK k \in Key, s \in {"commit", "write"} :
          /\ Destination(c, k)
          /\ Unless(k = CurrentKey(c) \/ ~CountedOn(CurrentKey(c)), "split")
          /\ blob' = BlobClaimed(c, k)
          /\ Does(w, [r EXCEPT !.step = s, !.key = k])
    BY <1>4 DEF Reserve
  <2>2. BlobKeyOf(c, k)
    <3>1. k = BlobKey(c, 0) \/ (blob[c].key # None /\ k = blob[c].key)
          \/ \E i \in 1..MaxFresh : k = BlobKey(c, i)
      BY <2>1 DEF Destination, CurrentKey
    <3> QED
      BY <1>2, <3>1, KeyKinds, CountsNow DEF BlobKeysFit
  <2> DEFINE next == [r EXCEPT !.step = s, !.key = k]
  <2>3. /\ next.step = s /\ next.wrote = r.wrote /\ next.reserved = r.reserved
        /\ next.content = c /\ next.key = k
    BY <1>1 DEF Call
  <2>4. Does(w, next)
    BY <2>1
  <2> HIDE DEF next
  <2>5. CallFits(next)
    BY <1>2, <2>1, <2>2, <2>3 DEF CallFits
  <2>6. CallKeysFit'
    BY <2>4, <2>5, NewCallFits
  <2>7. UNCHANGED <<version, file>> /\ slipped \subseteq slipped'
    BY <1>4, <2>1, UnlessGrows DEF Reserve
  <2> HIDE DEF c, r
  <2>8. \A d \in Content : /\ blob'[d].refs = blob[d].refs
                           /\ blob'[d].key = blob[d].key \/ (d = c /\ blob'[d].key = k)
    BY <1>2, <2>1, CountsNow DEF BlobClaimed, Blob
  <2>9. \A d \in Content : blob'[d].key # None => BlobKeyOf(d, blob'[d].key)
    BY <2>2, <2>8, CountsNow DEF BlobKeysFit
  <2>10. \A d \in Content : "recount" \notin slipped' =>
           blob'[d].refs = Cardinality(VersionsHolding(d, version))
    BY <2>7, <2>8, CountsNow DEF CountsMatch
  <2> QED
    BY <2>6, <2>7, <2>9, <2>10, FilesSame, BlobsFit
<1> QED
  BY <1>3, <1>4

LEMMA CompleteCounts == ASSUME CountsInv, NEW w \in Process, Complete(w) PROVE Counted'
<1>1. CallKeysFit' /\ FileKeysFit'
  BY NextDeletionFits, FilesSame DEF Complete
<1>2. ASSUME NEW c \in Content
      PROVE  blob'[c].refs = blob[c].refs /\ blob'[c].key \in {blob[c].key, None}
  BY <1>2, CountsNow DEF Complete, WithoutRow, NoBlob, Blob
<1>3. ASSUME NEW c \in Content
      PROVE  /\ blob'[c].key # None => BlobKeyOf(c, blob'[c].key)
             /\ "recount" \notin slipped => blob'[c].refs = Cardinality(VersionsHolding(c, version))
  BY <1>2, <1>3, CountsNow DEF BlobKeysFit, CountsMatch
<1> QED
  BY <1>1, <1>3, BlobsFit DEF Complete

\* A recount leaves each blob a key of its content, one of a version that holds
\* it if there is any.
LEMMA RecountedIs ==
  ASSUME NEW V \in SUBSET Version, NEW b, NEW c \in Content,
         \A v \in V : IsBlobKey(v.key) => BlobKeyOf(v.content, v.key)
  PROVE  \/ /\ VersionsHolding(c, V) = {}
            /\ Recounted(b, V)[c] = b[c]
         \/ /\ Recounted(b, V)[c].refs = Cardinality(VersionsHolding(c, V))
            /\ \E v \in V : v.key = Recounted(b, V)[c].key
            /\ BlobKeyOf(c, Recounted(b, V)[c].key)
<1> DEFINE held == VersionsHolding(c, V)
           low == CHOOSE v \in held : \A u \in held : v.key[3] <= u.key[3]
<1>1. CASE held = {}
  BY <1>1 DEF Recounted
<1>2. CASE held # {}
  <2>1. held \in SUBSET V /\ \A v \in held : IsBlobKey(v.key) /\ v.content = c
    BY DEF VersionsHolding
  <2>2. Recounted(b, V)[c] = [key |-> low.key, refs |-> Cardinality(held)]
    BY <1>2 DEF Recounted
  <2> HIDE DEF held
  <2>3. low \in held
    BY <1>2, <2>1, LowestKey
  <2> HIDE DEF low
  <2> QED
    BY <2>1, <2>2, <2>3 DEF held
<1> QED
  BY <1>1, <1>2

LEMMA ReconcileCounts == ASSUME CountsInv, ReconcileBlobs PROVE Counted'
<1>1. CallKeysFit' /\ FileKeysFit' /\ UNCHANGED <<version, slipped>>
  BY SameFits, FilesSame DEF ReconcileBlobs, Reconcile
<1> DEFINE b == Recounted(blob, version)
<1>2. b \in [Content -> Blob]
  BY CountsNow, RecountedType
<1>3. blob' = Zeroed(b)
  BY DEF ReconcileBlobs, Reconcile
<1>4. ASSUME NEW c \in Content
      PROVE  /\ blob'[c].key # None => BlobKeyOf(c, blob'[c].key)
             /\ "recount" \notin slipped' => blob'[c].refs = Cardinality(VersionsHolding(c, version))
  <2>1. \/ VersionsHolding(c, version) = {} /\ b[c] = blob[c]
        \/ /\ b[c].refs = Cardinality(VersionsHolding(c, version))
           /\ \E v \in version : v.key = b[c].key
           /\ BlobKeyOf(c, b[c].key)
    BY CountsNow, RecountedIs DEF VersionKeysFit
  <2> HIDE DEF b
  <2>2. /\ blob'[c].key = b[c].key
        /\ blob'[c].refs = IF \E v \in version : v.key = b[c].key THEN b[c].refs ELSE 0
    BY <1>2, <1>3 DEF Zeroed, Blob
  <2>3. CASE VersionsHolding(c, version) = {} /\ b[c] = blob[c]
    <3>1. "recount" \notin slipped => blob[c].refs = 0
      BY <2>3, CountsNow, FS_EmptySet DEF CountsMatch
    <3>2. blob[c].key # None => BlobKeyOf(c, blob[c].key)
      BY CountsNow DEF BlobKeysFit
    <3> QED
      BY <1>1, <2>2, <2>3, <3>1, <3>2, FS_EmptySet
  <2> QED
    BY <2>1, <2>2, <2>3
<1> QED
  BY <1>1, <1>4, BlobsFit

\* One version more, and with a blob key one reference more.
LEMMA OneMore ==
  ASSUME CountsInv, NEW v \in Version, v \notin version, version' = version \cup {v},
         IF IsBlobKey(v.key)
           THEN Dedup /\ BlobKeyOf(v.content, v.key) /\ \E kinds : Adds(v.content, v.key, kinds)
           ELSE UNCHANGED blob /\ slipped \subseteq slipped',
         FileKeysFit', CallKeysFit'
  PROVE  Counted'
<1> DEFINE c == v.content
<1>1. VersionKeysFit'
  <2>1. IsBlobKey(v.key) => Dedup /\ BlobKeyOf(v.content, v.key)
    OBVIOUS
  <2> QED
    BY <2>1, CountsNow DEF VersionKeysFit, BlobKeyOf
<1>2. ASSUME NEW d \in Content
      PROVE  VersionsHolding(d, version') = IF d = c /\ IsBlobKey(v.key)
                                              THEN VersionsHolding(d, version) \cup {v}
                                              ELSE VersionsHolding(d, version)
  BY DEF VersionsHolding
<1>3. c \in Content
  BY DEF Version
<1> HIDE DEF c
<1>4. CASE ~IsBlobKey(v.key)
  <2>1. UNCHANGED blob /\ slipped \subseteq slipped'
    BY <1>4
  <2>2. \A d \in Content : VersionsHolding(d, version') = VersionsHolding(d, version)
    BY <1>2, <1>4
  <2>3. BlobKeysFit'
    BY <2>1, CountsNow DEF BlobKeysFit, BlobKeyOf
  <2>4. CountsMatch'
    BY <2>1, <2>2, CountsNow DEF CountsMatch
  <2> QED
    BY <1>1, <2>3, <2>4 DEF Counted
<1>5. CASE IsBlobKey(v.key)
  <2>1. BlobKeyOf(c, v.key)
    BY <1>5 DEF c
  <2> DEFINE b == BlobReferenced(c, v.key)
  <2>2. b \in [Content -> [key : Key \cup {None}, refs : Int]]
    BY <1>3, CountsNow DEF BlobReferenced, Blob, Version
  <2>3. ASSUME NEW d \in Content
        PROVE  /\ b[d].refs = IF d = c THEN blob[d].refs + 1 ELSE blob[d].refs
               /\ b[d].key # None => BlobKeyOf(d, b[d].key)
    BY <1>3, <2>1, CountsNow DEF BlobReferenced, Blob, BlobKeysFit
  <2> HIDE DEF b
  <2>4. PICK kinds : Adds(c, v.key, kinds)
    BY <1>5 DEF c
  <2>5. PICK counted \in BOOLEAN :
          /\ blob' = IF counted THEN b ELSE [b EXCEPT ![c] = Recounted(b, version)[c]]
          /\ slipped \subseteq slipped' /\ ("recount" \notin slipped' => counted)
    BY <2>4 DEF Adds, b, Slipped
  <2>6. BlobKeysFit'
    <3>1. BlobKeyOf(c, Recounted(b, version)[c].key) \/ Recounted(b, version)[c] = b[c]
      BY <1>3, CountsNow, RecountedIs DEF VersionKeysFit
    <3>2. ASSUME NEW d \in Content, blob'[d].key # None PROVE BlobKeyOf(d, blob'[d].key)
      <4>1. blob'[d] = b[d] \/ (d = c /\ blob'[d] = Recounted(b, version)[c])
        BY <2>2, <2>5
      <4> QED
        BY <2>3, <3>1, <3>2, <4>1
    <3> QED
      BY <3>2 DEF BlobKeysFit, BlobKeyOf
  <2>7. CountsMatch'
    <3> SUFFICES ASSUME "recount" \notin slipped', NEW d \in Content
                 PROVE  blob'[d].refs = Cardinality(VersionsHolding(d, version'))
      BY DEF CountsMatch
    <3>1. blob' = b /\ blob[d].refs = Cardinality(VersionsHolding(d, version))
      BY <2>5, CountsNow DEF CountsMatch
    <3>2. IsFiniteSet(VersionsHolding(d, version)) /\ v \notin VersionsHolding(d, version)
          /\ Cardinality(VersionsHolding(d, version)) \in Nat
      BY CountsNow, HoldingFinite
    <3>3. Cardinality(VersionsHolding(d, version) \cup {v})
            = Cardinality(VersionsHolding(d, version)) + 1
      BY <3>2, FS_AddElement
    <3> QED
      BY <1>2, <1>5, <2>3, <3>1, <3>2, <3>3
  <2> QED
    BY <1>1, <2>6, <2>7 DEF Counted
<1> QED
  BY <1>4, <1>5
LEMMA NotYet ==
  ASSUME HistoryInv, NEW o \in Object, NEW v, v.object = o, v.number = NextNumber(o)
  PROVE  v \notin version
<1>1. Cardinality(VersionsOf(o)) \in Nat
  BY VersionsFinite, HistoryParts
<1>2. v \in version => v.number <= Cardinality(VersionsOf(o))
  BY SettledNow DEF NumberedSet, VersionsOf
<1> QED
  BY <1>1, <1>2 DEF NextNumber

LEMMA CommitCleanCounts == ASSUME CountsInv, NEW w \in Process, CommitClean(w) PROVE Counted'
<1> DEFINE r == worker[w]
           o == r.o
           v == [object |-> o, number |-> r.number, key |-> r.key, content |-> r.content]
           row == [file[o] EXCEPT !.status = "ready", !.token = None, !.key = r.key,
                                  !.sha = r.content]
<1>1. r.step = "commit" /\ r.step \in Finalizing
  BY DEF CommitClean, Finalizing
<1>2. o \in Object /\ r \in Call /\ Knows(r) /\ CallFits(r) /\ file[o] \in File /\ HistoryInv
  BY <1>1, CallIs, RowIs DEF Undoes
<1>3. CASE ~Owns(w)
  BY <1>3, UndoCounts DEF CommitClean, Undo, blobVars
<1>4. CASE Owns(w)
  <2>1. Holds(o, file[o], w, r)
    BY <1>1, <1>4 DEF Owns, Holds, Undoes
  <2>2. r.number = NextNumber(o)
    BY <1>1, <1>2, <1>4, <2>1, SettledNow DEF GoodHolder, NextNumber, Owns
  <2>3. r.number \in 1..MaxVersions /\ r.key \in Key /\ r.content \in Content
    BY <1>1, <1>2 DEF Knows, Finalizing
  <2>4. /\ v \in Version /\ v.object = o /\ v.number = NextNumber(o)
        /\ v.key = r.key /\ v.content = r.content
    BY <1>2, <2>2, <2>3 DEF Version
  <2>5. row.key = r.key
    BY <1>2 DEF File
  <2>6. /\ version' = version \cup {v} /\ Rows(o, row)
        /\ Unanswered(w) \/ \E K : Tends(w, K)
    BY <1>4 DEF CommitClean
  <2>7. IF Dedup THEN \E kinds : Adds(r.content, r.key, kinds)
                 ELSE UNCHANGED blob /\ slipped \subseteq slipped'
    BY <1>4, SlippedGrows DEF CommitClean
  <2>8. IF Dedup THEN BlobKeyOf(r.content, r.key) ELSE ~IsBlobKey(r.key)
    BY <1>1, <1>2 DEF CallFits
  <2> HIDE DEF v, row, o, r
  <2>9. v \notin version
    BY <1>2, <2>4, NotYet
  <2>10. IF IsBlobKey(v.key)
           THEN Dedup /\ BlobKeyOf(v.content, v.key) /\ \E kinds : Adds(v.content, v.key, kinds)
           ELSE UNCHANGED blob /\ slipped \subseteq slipped'
    <3>1. CASE Dedup
      BY <2>4, <2>7, <2>8, <3>1, KeyKinds
    <3>2. CASE ~Dedup
      BY <2>4, <2>7, <2>8, <3>2
    <3> QED
      BY <3>1, <3>2
  <2>11. IsBlobKey(row.key) => Dedup
    BY <2>5, <2>8
  <2>12. FileKeysFit' /\ CallKeysFit'
    BY <1>2, <2>6, <2>11, NewRowFits, TendsFits, UndoFits DEF Unanswered
  <2> QED
    BY <2>4, <2>6, <2>9, <2>10, <2>12, OneMore
<1> QED
  BY <1>3, <1>4

LEMMA RevertCounts == ASSUME CountsInv, NEW o \in Object, Revert(o) PROVE Counted'
<1>1. PICK u \in VersionsOf(o) :
        /\ version' = version \cup {[u EXCEPT !.number = NextNumber(o)]}
        /\ Rows(o, [file[o] EXCEPT !.status = "ready", !.key = u.key, !.sha = u.content])
        /\ IF IsBlobKey(u.key) THEN \E kinds : Adds(u.content, u.key, kinds)
                               ELSE UNCHANGED blob /\ slipped \subseteq slipped'
  BY SlippedGrows DEF Revert
<1> DEFINE v == [u EXCEPT !.number = NextNumber(o)]
           row == [file[o] EXCEPT !.status = "ready", !.key = u.key, !.sha = u.content]
<1>2. u \in version /\ u \in Version /\ u.object = o
  BY CountsNow DEF VersionsOf
<1>3. HistoryInv /\ file[o] \in File /\ Cardinality(VersionsOf(o)) \in Nat
  BY RowIs, VersionsFinite, HistoryParts
<1>4. NextNumber(o) \in 1..MaxVersions
  BY <1>3, DriveBlobsAssumption DEF Revert, NextNumber
<1>5. /\ v \in Version /\ v.object = o /\ v.number = NextNumber(o)
      /\ v.key = u.key /\ v.content = u.content
  BY <1>2, <1>4 DEF Version
<1>6. row.key = u.key
  BY <1>3 DEF File
<1>7. IsBlobKey(u.key) => Dedup /\ BlobKeyOf(u.content, u.key)
  BY <1>2, CountsNow DEF VersionKeysFit
<1>8. version' = version \cup {v} /\ Rows(o, row) /\ UNCHANGED worker
  BY <1>1 DEF Revert
<1> HIDE DEF v, row
<1>9. v \notin version
  BY <1>3, <1>5, NotYet
<1>10. IF IsBlobKey(v.key)
         THEN Dedup /\ BlobKeyOf(v.content, v.key) /\ \E kinds : Adds(v.content, v.key, kinds)
         ELSE UNCHANGED blob /\ slipped \subseteq slipped'
  BY <1>1, <1>5, <1>7
<1>11. FileKeysFit' /\ CallKeysFit'
  BY <1>6, <1>7, <1>8, NewRowFits, SameFits
<1> QED
  BY <1>5, <1>8, <1>9, <1>10, <1>11, OneMore

\* What a purge takes from the count of a content is what its versions hold.
LEMMA PurgedRefs ==
  ASSUME CountsInv, NEW V \in SUBSET version, Decrementable(V), NEW c \in Content
  PROVE  /\ blob[c].key # None => NamedBy(blob[c].key, V) = Cardinality(VersionsHolding(c, V))
         /\ blob[c].key = None => VersionsHolding(c, V) = {}
<1>1. ASSUME NEW v \in V, IsBlobKey(v.key)
      PROVE  BlobKeyOf(v.content, v.key) /\ v.content \in Content /\ v.key \in Key
             /\ blob[v.content].key = v.key
  <2>1. BlobKeyOf(v.content, v.key) /\ v.content \in Content /\ v.key \in Key
    BY <1>1, CountsNow DEF VersionKeysFit, Version
  <2>2. PICK d \in Content : blob[d].key = v.key
    BY <1>1 DEF Decrementable
  <2>3. v.key # None
    BY <2>1, DriveKeyAssumption
  <2>4. BlobKeyOf(d, v.key)
    BY <2>2, <2>3, CountsNow DEF BlobKeysFit
  <2>5. d = v.content
    BY <2>1, <2>4, KeyKinds
  <2> QED
    BY <2>1, <2>2, <2>5
<1>2. ASSUME blob[c].key = None PROVE VersionsHolding(c, V) = {}
  <2>1. ASSUME NEW v \in VersionsHolding(c, V) PROVE FALSE
    <3>1. v \in V /\ IsBlobKey(v.key) /\ v.content = c
      BY <2>1 DEF VersionsHolding
    <3> QED
      BY <1>1, <1>2, <3>1, DriveKeyAssumption
  <2> QED
    BY <2>1
<1>3. ASSUME blob[c].key # None
      PROVE  {v \in V : v.key = blob[c].key} = VersionsHolding(c, V)
  <2> DEFINE k == blob[c].key
  <2>1. BlobKeyOf(c, k) /\ IsBlobKey(k)
    BY <1>3, CountsNow, KeyKinds DEF BlobKeysFit
  <2> HIDE DEF k
  <2>2. ASSUME NEW v \in V, v.key = k PROVE v.content = c /\ IsBlobKey(v.key)
    BY <1>1, <2>1, <2>2, KeyKinds
  <2>3. ASSUME NEW v \in V, IsBlobKey(v.key), v.content = c PROVE v.key = k
    BY <1>1, <2>3 DEF k
  <2> QED
    BY <2>2, <2>3 DEF VersionsHolding, k
<1> QED
  BY <1>2, <1>3 DEF NamedBy

LEMMA PurgeCounts ==
  ASSUME CountsInv, NEW w \in Process, NEW o \in Object, Purge(w, o) PROVE Counted'
<1> DEFINE V == VersionsOf(o)
<1>1. V \in SUBSET version /\ version' = version \ V
  BY DEF VersionsOf, Purge
<1>2. FileKeysFit'
  BY RowGoneFits DEF Purge
<1>3. CallKeysFit'
  <2>1. \E K : Tends(w, K)
    BY DEF Purge
  <2> QED
    BY <2>1, TendsFits
<1>4. slipped \subseteq slipped'
  BY SlippedGrows DEF Purge
<1>5. (Dedup => Decrementable(V) /\ blob' = BlobDecremented(V)) /\ (~Dedup => blob' = blob)
  BY DEF Purge
<1> HIDE DEF V
<1>6. VersionKeysFit'
  BY <1>1, CountsNow DEF VersionKeysFit, BlobKeyOf
<1>7. ASSUME NEW c \in Content
      PROVE  /\ VersionsHolding(c, version') = VersionsHolding(c, version) \ VersionsHolding(c, V)
             /\ Cardinality(VersionsHolding(c, version'))
                  = Cardinality(VersionsHolding(c, version)) - Cardinality(VersionsHolding(c, V))
             /\ Cardinality(VersionsHolding(c, version)) \in Nat
             /\ Cardinality(VersionsHolding(c, V)) \in Nat
  <2>1. VersionsHolding(c, version') = VersionsHolding(c, version) \ VersionsHolding(c, V)
    BY <1>1 DEF VersionsHolding
  <2>2. VersionsHolding(c, version) \cap VersionsHolding(c, V) = VersionsHolding(c, V)
    BY <1>1 DEF VersionsHolding
  <2>3. IsFiniteSet(version) /\ IsFiniteSet(V)
    BY <1>1, CountsNow, FS_Subset
  <2> DEFINE S == VersionsHolding(c, version)
             T == VersionsHolding(c, V)
  <2>4. IsFiniteSet(S) /\ Cardinality(S) \in Nat /\ Cardinality(T) \in Nat
    BY <2>3, HoldingFinite
  <2>5. Cardinality(S \ T) = Cardinality(S) - Cardinality(S \cap T)
    <3> HIDE DEF S, T
    <3> QED
      BY <2>4, FS_Difference
  <2> QED
    BY <2>1, <2>2, <2>4, <2>5
<1>8. CASE Dedup
  <2>1. Decrementable(V) /\ blob' = BlobDecremented(V)
    BY <1>5, <1>8
  <2>2. ASSUME NEW c \in Content
        PROVE  /\ blob'[c].key = blob[c].key
               /\ blob[c].refs = Cardinality(VersionsHolding(c, version))
                    => blob'[c].refs = Cardinality(VersionsHolding(c, version'))
    <3> DEFINE n == NamedBy(blob[c].key, V)
    <3>1. blob[c] \in Blob
      BY CountsNow
    <3>2. blob'[c] = [blob[c] EXCEPT !.refs = IF blob[c].key = None THEN @ ELSE @ - n]
      BY <2>1 DEF BlobDecremented
    <3>3. /\ blob[c].key # None => n = Cardinality(VersionsHolding(c, V))
          /\ blob[c].key = None => VersionsHolding(c, V) = {}
      BY <1>1, <2>1, PurgedRefs
    <3> HIDE DEF n
    <3>4. blob'[c].key = blob[c].key
          /\ blob'[c].refs = IF blob[c].key = None THEN blob[c].refs ELSE blob[c].refs - n
      BY <3>1, <3>2 DEF Blob
    <3>5. CASE blob[c].key = None
      BY <1>7, <3>3, <3>4, <3>5
    <3>6. CASE blob[c].key # None
      BY <1>7, <3>3, <3>4, <3>6
    <3> QED
      BY <3>5, <3>6
  <2>3. BlobKeysFit'
    BY <2>2, CountsNow DEF BlobKeysFit, BlobKeyOf
  <2>4. CountsMatch'
    BY <1>4, <2>2, CountsNow DEF CountsMatch
  <2> QED
    BY <1>2, <1>3, <1>6, <2>3, <2>4 DEF Counted
<1>9. CASE ~Dedup
  <2>1. blob' = blob
    BY <1>5, <1>9
  <2>2. ASSUME NEW c \in Content PROVE VersionsHolding(c, version') = VersionsHolding(c, version)
    BY <1>1, <1>9, CountsNow DEF VersionKeysFit, VersionsHolding
  <2>3. BlobKeysFit'
    BY <2>1, CountsNow DEF BlobKeysFit, BlobKeyOf
  <2>4. CountsMatch'
    BY <1>4, <2>1, <2>2, CountsNow DEF CountsMatch
  <2> QED
    BY <1>2, <1>3, <1>6, <2>3, <2>4 DEF Counted
<1> QED
  BY <1>8, <1>9

-----------------------------------------------------------------------------
(* Every step, and the theorems about the counts.                          *)

LEMMA ContinueCounts == ASSUME CountsInv, NEW w \in Process, Continue(w) PROVE Counted'
BY ScanCounts, CommitScanFailureCounts, SetAsideCounts, CommitInfectedCounts, ReserveCounts,
   WriteCounts, CommitCleanCounts, UnreserveCounts, CheckWrittenCounts, DiscardCounts,
   ReleaseCounts, FinalizeJobCounts, JobFailsCounts, LookCounts, EraseCounts, CompleteCounts,
   EraseUploadCounts, ForgetCounts DEF Continue

LEMMA NextCounts == ASSUME CountsInv, [Next]_vars PROVE Counted'
<1>1. ASSUME NEW o \in Object, Prepare(o) \/ Override(o) \/ Revert(o) \/ Expires(o)
      PROVE  Counted'
  BY <1>1, PrepareCounts, OverrideCounts, RevertCounts, ExpiresCounts
<1>2. ASSUME NEW o \in Object, NEW c \in Uploads[o], Upload(o, c) PROVE Counted'
  BY <1>2, UploadCounts
<1>3. ASSUME NEW o \in Object, NEW w \in Process,
             \/ Purge(w, o) \/ ClaimJob(w, o) \/ ExpireUpload(w, o)
             \/ \E inline \in Uploads[o] \cup {None} : Finalize(w, o, inline)
      PROVE  Counted'
  BY <1>3, PurgeCounts, ClaimJobCounts, ExpireUploadCounts, ClaimCounts DEF Finalize
<1>4. ASSUME NEW w \in Process,
             Continue(w) \/ Fail(w) \/ Crash(w) \/ \E k \in Key : ClaimDeletion(w, k)
      PROVE  Counted'
  BY <1>4, ContinueCounts, FailCounts, CrashCounts, ClaimDeletionCounts
<1>5. ASSUME ReconcileBlobs PROVE Counted'
  BY <1>5, ReconcileCounts
<1>6. ASSUME UNCHANGED vars PROVE Counted'
  BY <1>6, SameFits, FilesSame, BlobsStay DEF vars
<1> QED
  BY <1>1, <1>2, <1>3, <1>4, <1>5, <1>6 DEF Next

LEMMA CountsInit == Init => CountsInv
<1> SUFFICES ASSUME Init PROVE CountsInv
  OBVIOUS
<1>1. HistoryInv
  BY HistoryInit
<1>2. VersionKeysFit
  BY DEF Init, BlobInit, VersionKeysFit
<1>3. BlobKeysFit
  BY DEF Init, BlobInit, BlobKeysFit, NoBlob
<1>4. FileKeysFit
  BY KeyKinds DEF Init, FileKeysFit
<1>5. CallKeysFit
  BY DEF Init, CallKeysFit, Idle, Finalizing
<1>6. CountsMatch
  <2>1. \A c \in Content : VersionsHolding(c, version) = {} /\ blob[c].refs = 0
    BY DEF Init, BlobInit, VersionsHolding, NoBlob
  <2> QED
    BY <2>1, FS_EmptySet DEF CountsMatch
<1> QED
  BY <1>1, <1>2, <1>3, <1>4, <1>5, <1>6, CountsParts DEF Counted

\* Blob keys name the content they hold, only dedup gives them out, and the
\* counts are those of the versions (blobs.ts, upload-commits.ts, lifecycle.ts).
THEOREM CountsInvariance == Spec => []CountsInv
<1>1. CountsInv /\ HistoryInv' /\ [Next]_vars => CountsInv'
  <2> SUFFICES ASSUME CountsInv, HistoryInv', [Next]_vars PROVE CountsInv'
    OBVIOUS
  <2>1. Counted'
    BY NextCounts
  <2> QED
    BY <2>1 DEF CountsInv, Counted
<1> QED
  BY <1>1, CountsInit, HistoryInvariance, PTL DEF Spec

\* The reference count of every content is the number of versions that hold it,
\* whatever interleaves, crashes and fails, unless references were counted while
\* one was added (upsertDriveBlobRef, decrementDriveBlobRef,
\* reconcileDriveBlobReferences).
THEOREM CountsAreRight == Spec => []CountsMatch
<1>1. CountsInv => CountsMatch
  BY DEF CountsInv
<1> QED
  BY <1>1, CountsInvariance, PTL
=============================================================================
