-------------------------------- MODULE Drive --------------------------------
(***************************************************************************)
(* Drive uploads.  A file is prepared, its bytes are put in the object     *)
(* store, and a finalization claims it, scans the bytes and commits a      *)
(* verdict: a new version, quarantine, or another attempt later.  Every    *)
(* transaction and every call of the object store is a step of its own,    *)
(* so calls interleave and a process may die between any two of them.      *)
(* Times are not counted: a lease runs out once its holder is gone, or, as *)
(* one of the slips the constants allow, while the holder is still at work.*)
(***************************************************************************)
EXTENDS DriveBlobs

CONSTANTS
  User,      \* processes that serve requests
  Uploads,   \* Uploads[o]: the contents that o may be given
  Sweeper,   \* processes that run the retry batches; one, while leadership holds
  Infected,  \* contents the scanner or the DLP policy quarantines
  MaxTries,  \* virusScanMaxAttempts
  Slips,     \* the slips that may happen, see SlipKind
  MaxFaults  \* bound on crashes, failed calls and scanner outages

\* What may go wrong between two calls.  Of one file: a lease runs out at work
\* (lease), an expiring upload is claimed (expiring), a key is taken whose
\* deletion is queued (queued), content in a request replaces that of a version
\* (replace), a failed retry takes the file from a finalization (unseat), the
\* file is purged while it is being finalized (purge), a revert that found the
\* file ready writes when it is so no more (revert), the answer of a commit is lost
\* after the call wrote the version's bytes (answer).  Of shared bytes: two
\* calls tend one deletion (overlap), a content gets another key while a
\* finalization still counts on the one it had (split), a call fails after it
\* wrote a blob (undo), references are counted while one is added (recount).
SlipKind == {"lease", "expiring", "queued", "replace", "unseat", "purge", "revert",
             "answer", "overlap", "split", "undo", "recount"}

ASSUME DriveAssumption ==
  /\ Process = User \cup Sweeper
  /\ Infected \subseteq Content
  /\ Uploads \in [Object -> SUBSET Content]
  /\ MaxTries \in Nat \ {0}
  /\ Slips \subseteq SlipKind
  /\ MaxFaults \in Nat

VARIABLES
  file,    \* file[o]: the row of o in "objects"
  job,     \* job[o]: the row of o in "drive_scan_jobs"
  worker,  \* worker[w]: the call that w is in
  slipped, \* the slips so far (history)
  faults   \* how many faults so far

vars == <<version, blob, reservation, deletion, bytes, file, job, worker, slipped, faults>>

Status == {"none", "pending_upload", "scan_processing", "scan_pending",
           "scan_dead_letter", "ready", "infected", "upload_expiring", "gone"}
File == [status : Status, key : Key, token : Process \cup {None},
         previous : Status \ {"infected"}, sha : Content \cup {None}]
Job == [status : {"none", "pending", "processing"}, tries : 0..(MaxTries - 1)]
         \cup [status : {"dead"}, tries : {MaxTries}]

Finalizing == {"scan", "unscanned", "infected", "quarantine", "reserve", "write", "commit"}
Undoing == {"unreserve", "check", "discard", "release"}
Cleaning == {"look", "erase", "complete"}
Expiring == {"expire", "forget"}
Step == {"idle", "job", "jobfail"} \cup Finalizing \cup Undoing \cup Cleaning \cup Expiring
Call == [step : Step, o : Object \cup {None}, retry : BOOLEAN, inline : Content \cup {None},
         previous : Status \ {"infected"}, reserved : Key \cup {None}, number : 0..MaxVersions,
         content : Content \cup {None}, key : Key \cup {None}, wrote : Key \cup {None},
         todo : SUBSET Key, as : {"pending", "processing"}, kept : BOOLEAN]
Idle == [step |-> "idle", o |-> None, retry |-> FALSE, inline |-> None,
         previous |-> "none", reserved |-> None, number |-> 0, content |-> None,
         key |-> None, wrote |-> None, todo |-> {}, as |-> "pending", kept |-> FALSE]
NoJob == [status |-> "none", tries |-> 0]

TypeOK ==
  /\ BlobTypeOK
  /\ file \in [Object -> File]
  /\ job \in [Object -> Job]
  /\ worker \in [Process -> Call]
  /\ slipped \subseteq Slips
  /\ faults \in 0..MaxFaults

Init ==
  /\ BlobInit
  /\ file = [o \in Object |-> [status |-> "none", key |-> OwnKey(o, 1), token |-> None,
                               previous |-> "none", sha |-> None]]
  /\ job = [o \in Object |-> NoJob]
  /\ worker = [w \in Process |-> Idle]
  /\ slipped = {}
  /\ faults = 0

Exists(o) == file[o].status \notin {"none", "gone"}
Fault == faults < MaxFaults /\ faults' = faults + 1
Slip(kind) == kind \in Slips /\ slipped' = slipped \cup {kind}
Unless(ok, kind) == IF ok THEN UNCHANGED slipped ELSE Slip(kind)
Slipped(kinds) == kinds \subseteq Slips /\ slipped' = slipped \cup kinds
Does(w, call) == worker' = [worker EXCEPT ![w] = call]
Goes(w, step) == Does(w, [worker[w] EXCEPT !.step = step])
Ends(w) == Does(w, Idle)
Rows(o, row) == file' = [file EXCEPT ![o] = row]
Jobs(o, row) == job' = [job EXCEPT ![o] = row]

-----------------------------------------------------------------------------
\* Uploading.  The client puts its bytes once, before it asks to finalize.
Prepare(o) ==
  /\ file[o].status = "none"
  /\ Rows(o, [file[o] EXCEPT !.status = "pending_upload"])
  /\ UNCHANGED <<blobVars, job, worker, slipped, faults>>

Upload(o, c) ==
  /\ file[o].status = "pending_upload"
  /\ bytes[file[o].key] = None
  /\ bytes' = [bytes EXCEPT ![file[o].key] = c]
  /\ UNCHANGED <<version, blob, reservation, deletion, file, job, worker, slipped, faults>>

\* The process whose token the row carries is still in that finalization.
Held(o) == \E w \in Process : /\ file[o].token = w
                              /\ worker[w].o = o
                              /\ worker[w].step \in Finalizing \cup Undoing

\* claimDriveUploadFinalization; the status of an expiring upload is not refused.
\* Mutant: nor is that of a quarantined file.
ClaimableQuarantined(o, retry) ==
  /\ Exists(o)
  /\ file[o].status # "scan_dead_letter"
  /\ file[o].status = "scan_pending" => retry
Claimable(o, retry) ==
  /\ Exists(o)
  /\ file[o].status \notin {"scan_dead_letter", "infected"}
  /\ file[o].status = "scan_pending" => retry
ClaimSlips(o, inline, previous) ==
  LET targets == {file[o].key, OwnKey(o, NextNumber(o))}
  IN {kind \in SlipKind :
        \/ kind = "lease" /\ file[o].status = "scan_processing" /\ Held(o)
        \/ kind = "expiring" /\ ~Dedup /\ file[o].status = "upload_expiring"
        \/ kind = "queued" /\ ~Dedup /\ \E k \in targets : BeingDeleted(k)
        \/ kind = "replace" /\ ~Dedup /\ inline # None /\ previous # "ready" /\ VersionsOf(o) # {}}
Claim(w, o, retry, inline) ==
  LET previous == IF file[o].status = "scan_processing" THEN file[o].previous
                                                        ELSE file[o].status
  IN /\ Claimable(o, retry)
     /\ NextNumber(o) <= MaxVersions
     /\ Slipped(ClaimSlips(o, inline, previous))
     /\ Rows(o, [file[o] EXCEPT !.status = "scan_processing", !.token = w, !.previous = previous])
     /\ Does(w, [Idle EXCEPT !.step = "scan", !.o = o, !.retry = retry, !.inline = inline,
                       !.previous = previous, !.reserved = file[o].key,
                       !.number = NextNumber(o)])
     /\ UNCHANGED <<blobVars, job, faults>>

\* finalizeUpload: a request, with the content in it or put in the store before.
Finalize(w, o, inline) ==
  /\ w \in User
  /\ worker[w].step = "idle"
  /\ Claim(w, o, FALSE, inline)

Owns(w) == LET o == worker[w].o IN file[o].status = "scan_processing" /\ file[o].token = w
Source(w) == IF worker[w].inline # None THEN worker[w].inline ELSE bytes[worker[w].reserved]

\* Where the catch block of finalizeUploadForScan starts.
UndoStep(w) == IF worker[w].step \in {"write", "commit"} /\ Dedup THEN "unreserve"
               ELSE IF worker[w].wrote # None THEN "check" ELSE "release"
Undo(w) == Goes(w, UndoStep(w)) /\ UNCHANGED <<blobVars, file, job, slipped, faults>>

-----------------------------------------------------------------------------
\* The finalization.  The bytes are read and scanned; a retry insists on the
\* digest that the first attempt recorded.  Without dedup a version stays where
\* it was uploaded, but for content in a request that overwrites a ready file.
Scan(w) ==
  LET r == worker[w]
      c == Source(w)
      home == IF r.inline # None /\ r.previous = "ready" THEN OwnKey(r.o, r.number) ELSE r.reserved
  IN /\ r.step = "scan"
     /\ IF c = None \/ (r.retry /\ c # file[r.o].sha)
          THEN Undo(w)
          ELSE /\ \/ /\ Fault
                     /\ Does(w, [r EXCEPT !.step = "unscanned", !.content = c])
                  \/ /\ c \in Infected
                     /\ Does(w, [r EXCEPT !.step = "infected", !.content = c])
                     /\ UNCHANGED faults
                  \/ /\ c \notin Infected
                     /\ Does(w, [r EXCEPT !.step = IF Dedup THEN "reserve"
                                             ELSE IF r.inline # None THEN "write" ELSE "commit",
                                    !.content = c, !.key = IF Dedup THEN None ELSE home])
                     /\ UNCHANGED faults
               /\ UNCHANGED <<blobVars, file, job, slipped>>

\* recordDriveScanFailure: only a job that is being worked on counts the failure.
Failed(j) == [status |-> IF j.tries + 1 >= MaxTries THEN "dead" ELSE "pending", tries |-> j.tries + 1]
FailureRecorded(j) == IF j.status \in {"none", "processing"} THEN Failed(j) ELSE j
StatusOf(j) == IF j.status = "dead" THEN "scan_dead_letter" ELSE "scan_pending"

\* The answer of a transaction that was applied is lost: the catch block follows.
Unanswered(w) == Fault /\ Goes(w, UndoStep(w))

\* commitDriveScanFailure
CommitScanFailure(w) ==
  LET r == worker[w] IN
  /\ r.step = "unscanned"
  /\ IF ~Owns(w) THEN Undo(w)
     ELSE /\ Jobs(r.o, FailureRecorded(job[r.o]))
          /\ Rows(r.o, [file[r.o] EXCEPT !.status = StatusOf(FailureRecorded(job[r.o])), !.token = None, !.sha = r.content])
          /\ \/ Unanswered(w)
             \/ /\ IF r.retry THEN Goes(w, "jobfail") ELSE Ends(w)
                /\ UNCHANGED faults
          /\ UNCHANGED <<blobVars, slipped>>

\* The bytes are copied aside; when that fails they stay where they are.
SetAside(w) ==
  LET r == worker[w] IN
  /\ r.step = "infected"
  /\ \/ /\ Source(w) # None
        /\ bytes' = [bytes EXCEPT ![QuarantineKey(r.o)] = Source(w)]
        /\ Does(w, [r EXCEPT !.step = "quarantine", !.wrote = QuarantineKey(r.o)])
        /\ UNCHANGED faults
     \/ /\ IF Source(w) = None THEN UNCHANGED faults ELSE Fault
        /\ Goes(w, "quarantine")
        /\ UNCHANGED bytes
  /\ UNCHANGED <<version, blob, reservation, deletion, file, job, slipped>>

\* The deletions that a committed call queued are its own next work.
Tends(w, K) ==
  Does(w, IF K = {} THEN Idle ELSE [Idle EXCEPT !.step = "look", !.todo = K])

\* commitDriveInfectedVerdict.
CommitInfected(w) ==
  LET r == worker[w]
      doomed == {k \in {r.wrote} : k # None} \cup {k \in {r.reserved} : r.inline = None}
  IN
  /\ r.step = "quarantine"
  /\ IF ~Owns(w) THEN Undo(w)
     ELSE /\ Jobs(r.o, NoJob)
          /\ Rows(r.o, [file[r.o] EXCEPT !.status = "infected", !.token = None, !.sha = r.content,
                         !.key = IF r.wrote = None THEN file[r.o].key ELSE r.wrote])
          /\ deletion' = Queued(doomed)
          /\ Unanswered(w) \/ (Tends(w, doomed) /\ UNCHANGED faults)
          /\ UNCHANGED <<version, blob, reservation, bytes, slipped>>

\* A reservation of k keeps its bytes, but not the row of the content at k.
CountedOn(k) == \E o \in Object : reservation[o].key = k /\ reservation[o].holders # {}

\* claimDriveBlobDestination: a blob in use needs no bytes.  The reservation
\* refers to the row of the file, and cannot be made once that is gone.
Reserve(w) ==
  LET r == worker[w] IN
  /\ r.step = "reserve"
  /\ IF ~Exists(r.o) THEN Undo(w)
     ELSE \E k \in Key :
            /\ Destination(r.content, k)
            /\ Unless(k = CurrentKey(r.content) \/ ~CountedOn(CurrentKey(r.content)), "split")
            /\ blob' = BlobClaimed(r.content, k)
            /\ reservation' = Reserved(r.o, k, w)
            /\ Does(w, [r EXCEPT !.step = IF blob[r.content].refs > 0 THEN "commit" ELSE "write", !.key = k])
            /\ UNCHANGED <<version, deletion, bytes, file, job, faults>>

Write(w) ==
  LET r == worker[w] IN
  /\ r.step = "write"
  /\ IF Source(w) = None THEN Undo(w)
     ELSE /\ bytes' = [bytes EXCEPT ![r.key] = Source(w)]
          /\ Does(w, [r EXCEPT !.step = "commit", !.wrote = r.key])
          /\ UNCHANGED <<version, blob, reservation, deletion, file, job, slipped, faults>>

\* One more reference to c at k; a reconciliation that counted before this one
\* commits, and waited for the row, then puts its own count there.
Adds(c, k, kinds) == \E counted \in BOOLEAN :
  /\ blob' = IF counted THEN BlobReferenced(c, k)
             ELSE [BlobReferenced(c, k) EXCEPT ![c] = Recounted(BlobReferenced(c, k), version)[c]]
  /\ Slipped(kinds \cup {kind \in {"recount"} : ~counted})

\* The staged bytes that a clean commit leaves over.  Mutant: also when the
\* version keeps them.
StagedAlways(r) == {k \in {r.reserved} : r.inline = None /\ r.previous # "ready"}
Staged(r) == {k \in {r.reserved} : r.inline = None /\ r.previous # "ready" /\ k # r.key}

\* commitDriveCleanUpload: the version, its reference and the row of the file
\* are one transaction, which also queues the deletion of the staged bytes.  When
\* its answer is lost, the catch block takes the bytes of the version for unused.
CommitSlips(r, lost) ==
  {kind \in {IF Dedup THEN "undo" ELSE "answer"} : lost /\ r.wrote # None}
CommitClean(w) ==
  LET r == worker[w]
      doomed == Staged(r)
  IN
  /\ r.step = "commit"
  /\ IF ~Owns(w) THEN Undo(w)
     ELSE \E lost \in BOOLEAN :
          /\ IF Dedup THEN Adds(r.content, r.key, CommitSlips(r, lost))
                      ELSE Slipped(CommitSlips(r, lost)) /\ UNCHANGED blob
          /\ reservation' = Unreserved(r.o, w)
          /\ version' = version \cup {[object |-> r.o, number |-> r.number,
                                       key |-> r.key, content |-> r.content]}
          /\ Rows(r.o, [file[r.o] EXCEPT !.status = "ready", !.token = None,
                                                     !.key = r.key, !.sha = r.content])
          /\ Jobs(r.o, NoJob)
          /\ deletion' = Queued(doomed)
          /\ IF lost THEN Unanswered(w) ELSE Tends(w, doomed) /\ UNCHANGED faults
          /\ UNCHANGED bytes

\* A call of the database, the object store or the policies throws; a transaction
\* is not applied.
Fail(w) ==
  /\ worker[w].step \in Finalizing
  /\ Unless(worker[w].step = "commit" /\ Dedup => worker[w].wrote = None, "undo")
  /\ Fault
  /\ Goes(w, UndoStep(w))
  /\ UNCHANGED <<blobVars, file, job>>

-----------------------------------------------------------------------------
\* The catch block: the reservation, the bytes this call wrote, the claim.
Unreserve(w) ==
  /\ worker[w].step = "unreserve"
  /\ reservation' = Unreserved(worker[w].o, w)
  /\ Goes(w, IF worker[w].wrote # None THEN "check" ELSE "release")
  /\ UNCHANGED <<version, blob, deletion, bytes, file, job, slipped, faults>>

CheckWritten(w) ==
  /\ worker[w].step = "check"
  /\ Goes(w, IF IsBlobKey(worker[w].wrote) /\ Referenced(worker[w].wrote) THEN "release" ELSE "discard")
  /\ UNCHANGED <<blobVars, file, job, slipped, faults>>

\* discardOrphanedQuarantineCopy: what cannot be deleted now is queued.
Discard(w) ==
  /\ worker[w].step = "discard"
  /\ \/ /\ bytes' = [bytes EXCEPT ![worker[w].wrote] = None]
        /\ UNCHANGED <<deletion, faults>>
     \/ /\ Fault
        /\ deletion' = Queued({worker[w].wrote})
        /\ UNCHANGED bytes
  /\ Goes(w, "release")
  /\ UNCHANGED <<version, blob, reservation, file, job, slipped>>

\* releaseDriveFinalizationClaim asks for the token only.  Mutants: it does not
\* ask at all; it makes the file readable.
ReleaseAny(w) ==
  LET r == worker[w] IN
  /\ r.step = "release"
  /\ IF Exists(r.o) THEN Rows(r.o, [file[r.o] EXCEPT !.status = r.previous, !.token = None])
                    ELSE UNCHANGED file
  /\ IF r.retry THEN Goes(w, "jobfail") ELSE Ends(w)
  /\ UNCHANGED <<blobVars, job, slipped, faults>>
ReleaseReady(w) ==
  LET r == worker[w] IN
  /\ r.step = "release"
  /\ IF Exists(r.o) /\ file[r.o].token = w
       THEN Rows(r.o, [file[r.o] EXCEPT !.status = "ready", !.token = None])
       ELSE UNCHANGED file
  /\ IF r.retry THEN Goes(w, "jobfail") ELSE Ends(w)
  /\ UNCHANGED <<blobVars, job, slipped, faults>>
Release(w) ==
  LET r == worker[w] IN
  /\ r.step = "release"
  /\ IF Exists(r.o) /\ file[r.o].token = w
       THEN Rows(r.o, [file[r.o] EXCEPT !.status = r.previous, !.token = None])
       ELSE UNCHANGED file
  /\ IF r.retry THEN Goes(w, "jobfail") ELSE Ends(w)
  /\ UNCHANGED <<blobVars, job, slipped, faults>>

-----------------------------------------------------------------------------
\* The retry batch: jobs whose lease is over are claimed like those that are due.
JobHeld(o) == \E w \in Process :
  worker[w].o = o /\ (worker[w].retry \/ worker[w].step = "job")
\* Mutant: only jobs that are due.
ClaimDueJob(w, o) ==
  /\ w \in Sweeper
  /\ worker[w].step = "idle"
  /\ job[o].status = "pending"
  /\ Jobs(o, [job[o] EXCEPT !.status = "processing"])
  /\ Does(w, [Idle EXCEPT !.step = "job", !.o = o])
  /\ UNCHANGED <<blobVars, file, slipped, faults>>
ClaimJob(w, o) ==
  /\ w \in Sweeper
  /\ worker[w].step = "idle"
  /\ job[o].status \in {"pending", "processing"}
  /\ Unless(~JobHeld(o), "lease")
  /\ Jobs(o, [job[o] EXCEPT !.status = "processing"])
  /\ Does(w, [Idle EXCEPT !.step = "job", !.o = o])
  /\ UNCHANGED <<blobVars, file, faults>>

\* finalizeUploadForScan with the recorded digest; a refused claim throws.  So
\* may its transaction, and does when the bound leaves no number.
FinalizeJob(w) ==
  /\ worker[w].step = "job"
  /\ \/ Claim(w, worker[w].o, TRUE, None)
     \/ /\ \/ ~Claimable(worker[w].o, TRUE)
           \/ file[worker[w].o].status = "scan_processing"
           \/ NextNumber(worker[w].o) > MaxVersions
        /\ Goes(w, "jobfail")
        /\ UNCHANGED <<blobVars, file, job, slipped, faults>>

\* releaseDriveScanClaim and updateDriveScanObjectState, whatever the file's status.
JobFails(w) ==
  LET o == worker[w].o IN
  /\ worker[w].step = "jobfail"
  /\ IF job[o].status = "processing"
       THEN /\ Jobs(o, Failed(job[o]))
            /\ Rows(o, [file[o] EXCEPT !.status = StatusOf(Failed(job[o]))])
            /\ Unless(~(file[o].status = "scan_processing" /\ Held(o)), "unseat")
       ELSE UNCHANGED <<job, file, slipped>>
  /\ Ends(w)
  /\ UNCHANGED <<blobVars, faults>>

\* retryDeadLetteredVirusScan
Override(o) ==
  /\ job[o].status = "dead"
  /\ Jobs(o, [status |-> "pending", tries |-> 0])
  /\ Rows(o, [file[o] EXCEPT !.status = "scan_pending"])
  /\ UNCHANGED <<blobVars, worker, slipped, faults>>

-----------------------------------------------------------------------------
\* Deletions.  A queued one may be claimed while the call that queued it works on it.
Tended(k) == \E w \in Process : k \in worker[w].todo
\* Mutant: a deletion whose sweeper died is not claimed again.
ClaimPendingDeletion(w, k) ==
  /\ w \in Sweeper
  /\ worker[w].step = "idle"
  /\ deletion[k] = "pending"
  /\ Unless(~Tended(k), "overlap")
  /\ deletion' = [deletion EXCEPT ![k] = "processing"]
  /\ Does(w, [Idle EXCEPT !.step = "look", !.todo = {k}, !.as = "processing"])
  /\ UNCHANGED <<version, blob, reservation, bytes, file, job, faults>>
ClaimDeletion(w, k) ==
  /\ w \in Sweeper
  /\ worker[w].step = "idle"
  /\ BeingDeleted(k)
  /\ Unless(~Tended(k), "overlap")
  /\ deletion' = [deletion EXCEPT ![k] = "processing"]
  /\ Does(w, [Idle EXCEPT !.step = "look", !.todo = {k}, !.as = "processing"])
  /\ UNCHANGED <<version, blob, reservation, bytes, file, job, faults>>

\* deleteQuarantinedBytes: is the blob needed; its bytes; its rows.
Look(w) ==
  /\ worker[w].step = "look"
  /\ \E k \in worker[w].todo :
       LET r == worker[w]
           kept == IsBlobKey(k) /\ Referenced(k)
       IN Does(w, [r EXCEPT !.step = IF kept THEN "complete" ELSE "erase",
                                                    !.key = k, !.kept = kept])
  /\ UNCHANGED <<blobVars, file, job, slipped, faults>>

NextDeletion(w) == LET rest == worker[w].todo \ {worker[w].key} IN
  Does(w, IF rest = {} THEN Idle ELSE [Idle EXCEPT !.step = "look", !.todo = rest, !.as = worker[w].as])

Erase(w) ==
  LET k == worker[w].key IN
  /\ worker[w].step = "erase"
  /\ \/ /\ bytes' = [bytes EXCEPT ![k] = None]
        /\ Goes(w, "complete")
        /\ UNCHANGED <<deletion, faults>>
     \/ /\ Fault
        /\ deletion' = IF deletion[k] = worker[w].as THEN [deletion EXCEPT ![k] = "pending"] ELSE deletion
        /\ NextDeletion(w)
        /\ UNCHANGED bytes
  /\ UNCHANGED <<version, blob, reservation, file, job, slipped>>

Complete(w) ==
  /\ worker[w].step = "complete"
  /\ deletion' = Completed(worker[w].key, worker[w].as)
  /\ blob' = IF worker[w].kept THEN blob ELSE WithoutRow(worker[w].key)
  /\ NextDeletion(w)
  /\ UNCHANGED <<version, reservation, bytes, file, job, slipped, faults>>

-----------------------------------------------------------------------------
\* claimExpiredPreparedUploads: uploads nobody finalized, or whose finalization
\* or expiry was given up.  Mutant: not those left in finalization.
ExpirableUnclaimed(o) == file[o].status \in {"pending_upload", "upload_expiring"}
Expirable(o) ==
  \/ file[o].status \in {"pending_upload", "upload_expiring"}
  \/ file[o].status = "scan_processing" /\ file[o].previous = "pending_upload"
ExpireUpload(w, o) ==
  LET f == file[o] IN
  /\ w \in Sweeper
  /\ worker[w].step = "idle"
  /\ Expirable(o)
  /\ Unless(/\ f.status = "scan_processing" => ~Held(o)
            /\ \A v \in Process : ~(worker[v].step \in Expiring /\ worker[v].o = o), "lease")
  /\ Rows(o, [file[o] EXCEPT !.status = "upload_expiring"])
  /\ Does(w, [Idle EXCEPT !.step = "expire", !.o = o, !.reserved = f.key])
  /\ UNCHANGED <<blobVars, job, faults>>

\* deleteExpiredPreparedUpload: the bytes, then the row if it is still expiring.
EraseUpload(w) ==
  /\ worker[w].step = "expire"
  /\ \/ /\ bytes' = [bytes EXCEPT ![worker[w].reserved] = None]
        /\ Goes(w, "forget")
        /\ UNCHANGED faults
     \/ /\ Fault
        /\ Ends(w)
        /\ UNCHANGED bytes
  /\ UNCHANGED <<version, blob, reservation, deletion, file, job, slipped>>

\* The reservation and the scan job go with the row.
RowGone(o) ==
  /\ Rows(o, [file[o] EXCEPT !.status = "gone", !.token = None])
  /\ reservation' = [reservation EXCEPT ![o] = NoReservation]
  /\ Jobs(o, NoJob)

Forget(w) ==
  LET o == worker[w].o IN
  /\ worker[w].step = "forget"
  /\ IF file[o].status = "upload_expiring" THEN RowGone(o) ELSE UNCHANGED <<file, reservation, job>>
  /\ Ends(w)
  /\ UNCHANGED <<version, blob, deletion, bytes, slipped, faults>>

PurgeSlips(o, K) ==
  {kind \in SlipKind :
     \/ kind = "purge" /\ Held(o)
     \/ kind = "overlap" /\ \E k \in K : IsBlobKey(k) /\ Tended(k)}

\* deleteEntry, once the recovery window of the trash is over: the versions and
\* their references go with the row, the keys nobody else uses are queued.
Purge(w, o) ==
  LET V == VersionsOf(o)
      keys == {file[o].key} \cup {v.key : v \in V}
      shared == {k \in keys : Dedup /\ IsBlobKey(k)}
  IN
  /\ w \in User
  /\ worker[w].step = "idle"
  /\ Exists(o)
  /\ job[o].status \notin {"pending", "processing"}
  /\ Dedup => Decrementable(V)
  /\ blob' = IF Dedup THEN BlobDecremented(V) ELSE blob
  /\ version' = version \ V
  /\ RowGone(o)
  /\ LET doomed == (keys \ shared) \cup
                     {k \in shared : /\ NamedBy(k, V) > 0
                                    /\ \E c \in Content : blob'[c].key = k /\ blob'[c].refs = 0}
     IN /\ Slipped(PurgeSlips(o, doomed))
        /\ deletion' = Queued(doomed)
        /\ Tends(w, doomed)
  /\ UNCHANGED <<bytes, faults>>

\* revertToVersion: a new version of the old content.  The transaction looks at
\* the status first, then waits for the row, and makes it ready whatever it is by
\* then.  A file that has a version was ready once, so the look is not kept.
RevertSlips(o) == {kind \in {"revert"} : file[o].status # "ready"}
Revert(o) ==
  /\ NextNumber(o) <= MaxVersions
  /\ \E v \in VersionsOf(o) :
       /\ version' = version \cup {[v EXCEPT !.number = NextNumber(o)]}
       /\ Rows(o, [file[o] EXCEPT !.status = "ready", !.key = v.key, !.sha = v.content])
       /\ IF IsBlobKey(v.key) THEN Adds(v.content, v.key, RevertSlips(o))
                              ELSE Slipped(RevertSlips(o)) /\ UNCHANGED blob
  /\ UNCHANGED <<reservation, deletion, bytes, job, worker, faults>>

\* A process dies: whatever it held stays until its time is over.
Crash(w) ==
  /\ worker[w].step # "idle"
  /\ Fault
  /\ Ends(w)
  /\ reservation' = [o \in Object |-> [reservation[o] EXCEPT !.holders = @ \ {w}]]
  /\ UNCHANGED <<version, blob, deletion, bytes, file, job, slipped>>

ReconcileBlobs == Dedup /\ Reconcile /\ UNCHANGED <<file, job, worker, slipped, faults>>
Expires(o) == ReservationExpires(o) /\ UNCHANGED <<file, job, worker, slipped, faults>>

-----------------------------------------------------------------------------
\* A call goes on by itself once it has begun.
Continue(w) ==
  \/ Scan(w) \/ CommitScanFailure(w)
  \/ SetAside(w) \/ CommitInfected(w)
  \/ Reserve(w) \/ Write(w) \/ CommitClean(w)
  \/ Unreserve(w) \/ CheckWritten(w) \/ Discard(w) \/ Release(w)
  \/ FinalizeJob(w) \/ JobFails(w)
  \/ Look(w) \/ Erase(w) \/ Complete(w)
  \/ EraseUpload(w) \/ Forget(w)

Next ==
  \/ \E o \in Object :
       \/ Prepare(o) \/ Override(o) \/ Revert(o) \/ Expires(o)
       \/ \E c \in Uploads[o] : Upload(o, c)
       \/ \E w \in Process : \/ Purge(w, o) \/ ClaimJob(w, o) \/ ExpireUpload(w, o)
                             \/ \E inline \in Uploads[o] \cup {None} : Finalize(w, o, inline)
  \/ \E w \in Process : \/ Continue(w) \/ Fail(w) \/ Crash(w)
                        \/ \E k \in Key : ClaimDeletion(w, k)
  \/ ReconcileBlobs

Spec == Init /\ [][Next]_vars

\* A call that has begun goes on, and the retry batches reach the jobs, uploads
\* and deletions that wait, however often the sweeper is busy with others.
Fairness ==
  /\ \A w \in Process : WF_vars(Continue(w))
  /\ \A w \in Sweeper : /\ SF_vars(\E o \in Object : ClaimJob(w, o))
                         /\ SF_vars(\E k \in Key : ClaimDeletion(w, k))
                         /\ SF_vars(\E o \in Object : ExpireUpload(w, o))
FairSpec == Spec /\ Fairness

-----------------------------------------------------------------------------
\* What a quarantine verdict closes: no finalization holds the file and no scan
\* job is left, which could give it another status (commitDriveInfectedVerdict).
Closed == \A o \in Object : file[o].status = "infected" =>
  file[o].token = None /\ job[o].status = "none"

\* What a call knows at the steps that use it; nothing infected is on its way to
\* a version.
Knows(r) ==
  /\ r.step \in {"job", "jobfail"} \cup Finalizing \cup Undoing \cup Expiring => r.o \in Object
  /\ r.step \in Finalizing \cup {"expire"} => r.reserved \in Key
  /\ r.step \in Finalizing => r.number \in 1..MaxVersions
  /\ r.step \in Finalizing \ {"scan"} => r.content \in Content
  /\ r.step \in {"reserve", "write", "commit"} => r.content \notin Infected
  /\ r.step \in {"write", "commit", "erase", "complete"} => r.key \in Key
  /\ r.step \in {"check", "discard"} => r.wrote \in Key
Clean == \A v \in version : v.content \notin Infected

\* The inductive invariant.  Contents found infected never become a version, and
\* a quarantined file is out of reach of every call still at work on it.
Inv ==
  /\ TypeOK
  /\ IsFiniteSet(version)
  /\ Clean
  /\ \A w \in Process : Knows(worker[w])
  /\ Closed

\* No content a version holds is lost or replaced, whatever interleaves, crashes
\* or fails, unless one of the slips happened before (uploads.ts, quarantine.ts,
\* blobs.ts: check, write and delete are separate calls).
Kept == \A v \in version : bytes[v.key] = v.content
VersionsKept == slipped = {} => Kept

\* The reference counts are those that the versions give: what deleteEntry
\* insists on, and what the deletion of shared bytes relies on.
CountsMatch == "recount" \notin slipped =>
  \A c \in Content : blob[c].refs = Cardinality(VersionsHolding(c, version))

\* A file that can be read shows its newest version, also after a finalization
\* that was undone, lost its claim or was taken over.
ReadyIsNewest == \A o \in Object : file[o].status = "ready" =>
  \E v \in VersionsOf(o) : /\ v.number = Cardinality(VersionsOf(o))
                           /\ v.key = file[o].key
                           /\ v.content = file[o].sha

\* A quarantined file is never promoted, retried or expired by a call that read
\* it before the verdict (claimDriveUploadFinalization, releaseDriveScanClaim).
\* What ends quarantine is removal, or a revert that looked before the verdict
\* (versions.ts:59): then the file shows a new copy of an earlier version.
RevertedTo(o, v) ==
  /\ file'[o].status = "ready"
  /\ file'[o].key = v.key
  /\ file'[o].sha = v.content
  /\ [v EXCEPT !.number = NextNumber(o)] \in version'
QuarantineHolds == [][\A o \in Object : file[o].status = "infected" =>
  \/ file'[o].status \in {"infected", "gone"}
  \/ "revert" \in slipped' /\ \E v \in VersionsOf(o) : RevertedTo(o, v)]_vars

\* What the readers of a file see and its versions, as DriveFiles promises them.
Shown(o) ==
  LET s == file[o].status
  IN CASE s = "none" -> "absent" [] s = "ready" -> "available"
       [] s = "infected" -> "quarantined" [] s = "gone" -> "removed"
       [] OTHER -> "waiting"
History(o) ==
  [n \in 1..Cardinality(VersionsOf(o)) |-> (CHOOSE v \in VersionsOf(o) : v.number = n).content]
Files == INSTANCE DriveFiles WITH
  shown <- [o \in Object |-> Shown(o)],
  history <- [o \in Object |-> History(o)]
KeepsPromise == Files!Spec

\* A queued deletion is carried out, or found unnecessary, although sweepers
\* crash on it and it is queued again meanwhile.
DeletionsFinish == \A k \in Key : BeingDeleted(k) ~> deletion[k] = "completed"

\* A file that waits for the scanner comes to a verdict or is given up, unless
\* a finalization that lost the file put its old status back.
ScansSettle == \A o \in Object : file[o].status = "scan_pending" ~>
  (file[o].status # "scan_pending" \/ slipped \cap {"lease", "unseat", "revert"} # {})

\* No file stays in finalization: a new upload whose process died is swept, a
\* retry is taken up again.  Only a process that dies while it overwrites a file,
\* or finalizes an expiring one, leaves it so until somebody finalizes it again.
FinalizationsEnd == \A o \in Object : file[o].status = "scan_processing" ~>
  \/ file[o].status # "scan_processing"
  \/ file[o].previous \in {"ready", "upload_expiring"} /\ ~Held(o)
-----------------------------------------------------------------------------
(* The inductive invariants behind ReadyIsNewest, KeepsPromise and         *)
(* CountsMatch.  They hold whichever slips happened.                       *)

\* The versions of a file are numbered from 1 on, each number once.
Numbered == \A o \in Object :
  /\ \A v \in VersionsOf(o) : v.number <= Cardinality(VersionsOf(o))
  /\ \A u, v \in VersionsOf(o) : u.number = v.number => u = v
  /\ \A n \in 1..Cardinality(VersionsOf(o)) : \E v \in VersionsOf(o) : v.number = n

\* The row and the versions of o are such that its status may be s.
Newest(o) == \E v \in VersionsOf(o) : /\ v.number = Cardinality(VersionsOf(o))
                                      /\ v.key = file[o].key
                                      /\ v.content = file[o].sha
Fits(o, s) ==
  /\ s = "ready" => Newest(o)
  /\ s \in {"none", "pending_upload", "upload_expiring", "gone"} => VersionsOf(o) = {}
RowFits == \A o \in Object : Fits(o, file[o].status)

\* So may the status that a finalization puts back when it is undone.
PutBack(o, s) == Fits(o, s) /\ s \notin {"none", "gone", "scan_processing"}
ClaimFits == \A o \in Object :
  file[o].status = "scan_processing" => PutBack(o, file[o].previous)

\* A finalization whose token the row still carries may put back the status it
\* found and, unless the file was reverted meanwhile, knows the number of the next
\* version; no file carries a token before it is uploaded or once it is gone, and
\* no job is left without a file.
HolderFits == \A o \in Object, w \in Process :
  /\ file[o].token = w
  /\ worker[w].o = o
  /\ worker[w].step \in Finalizing \cup Undoing
  => /\ PutBack(o, worker[w].previous)
     /\ worker[w].step \in Finalizing /\ file[o].status = "scan_processing"
          => worker[w].number = NextNumber(o)
RowsFree == \A o \in Object :
  /\ file[o].status \in {"none", "gone"} => file[o].token = None
  /\ job[o].status # "none" => Exists(o)

HistoryInv == Inv /\ Numbered /\ RowFits /\ ClaimFits /\ HolderFits /\ RowsFree

\* Blob keys name the content they hold, and only dedup uses them.
BlobKeyOf(c, k) == \E i \in 0..MaxFresh : k = BlobKey(c, i)
VersionKeysFit == \A v \in version : IsBlobKey(v.key) => Dedup /\ BlobKeyOf(v.content, v.key)
BlobKeysFit == \A c \in Content : blob[c].key # None => BlobKeyOf(c, blob[c].key)
FileKeysFit == \A o \in Object : IsBlobKey(file[o].key) => Dedup
CallKeysFit == \A w \in Process :
  LET r == worker[w]
  IN /\ r.step \in Finalizing /\ IsBlobKey(r.reserved) => Dedup
     /\ r.step \in Finalizing /\ r.wrote # None /\ IsBlobKey(r.wrote) => Dedup
     /\ r.step = "reserve" => Dedup
     /\ r.step \in {"write", "commit"} =>
          IF Dedup THEN BlobKeyOf(r.content, r.key) ELSE ~IsBlobKey(r.key)

CountsInv ==
  /\ HistoryInv
  /\ VersionKeysFit /\ BlobKeysFit /\ FileKeysFit /\ CallKeysFit
  /\ CountsMatch
=============================================================================
