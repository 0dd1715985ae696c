# Helix Workspace: formal specifications

TLA+ models of the protocols at the core of the Helix Workspace server
(`src/apps/helix`): what several workers, requests, administrators and outside
services may do to the same durable state, in which order, and what must hold
whatever that order is. TLC checks every model on small instances; TLAPS proves
the results listed under "What is proved" for every value of the constants.

    tlc -workers 2 -config MailRelay.cfg MCMailOutbound
    tlapm MailOutboundProofs.tla

## The system and its parts

One Node.js process (or several replicas of it) serves HTTP, MCP, WebSocket and
mail protocols for many tenants and runs the background workers. State lives in
PostgreSQL; Redis, NATS, Meilisearch, an S3 store, a policy engine and a virus
scanner are used through clients. Two facts shape every model:

* A tenant's HTTP request runs in **one database transaction**
  (`platform/tenancy/middleware.ts`, `postgres-roles.ts`): its statements become
  visible together when the response is sent, or not at all. In most models a
  request is one action; `PendingActions`, where requests meet on one row and the
  work of a request reaches outside its transaction, takes it apart.
* A **worker** that talks to an outside service does not: it claims work in one
  short transaction, calls the service outside any transaction, and records the
  outcome in another. Between these steps other workers, requests and feedback
  run, and the process may stop. In the models each of these is an action of its
  own. These are the protocols worth model checking.

| Part | State it keeps | Operations | Interacts with | What is hard | What makes it correct |
| --- | --- | --- | --- | --- | --- |
| Outbound mail (`platform/mail`) | `mail_outbound_messages`, `mail_suppressions`, `mail_delivery_events` | queue, undo, reschedule, claim, dispatch, acknowledge, replay, record feedback | SMTP relay, HTTP providers, local mailboxes, administrators | lost leases and answers, feedback that overtakes the acknowledgement, undo against claim | no automatic second copy, undo is final, feedback is never taken back, the queue drains |
| Inbound mail (`mail/ingest.ts`, `inbound-dedup.ts`, `vacation.ts`) | messages, dedup keys, reply log | ingest, deduplicate, auto-reply | SMTP edge, rules, drive | redelivered messages | one stored copy per message, one reply per window |
| Leader election (`leader/election.ts`) | advisory lock, supervisor flags | acquire, retry, start, stop, release | every singleton worker | overlapping attempts, stop during an attempt, lost session | at most one replica runs a worker, a stopped leader is replaced |
| Outbox (`outbox`) | `outbox` rows | append, claim, publish, mark | event bus | crash between publish and mark, concurrent drains | an event committed is published, delivered is final |
| Webhooks (`webhooks`) | deliveries, endpoints | deliver, retry, replay, abandon | event bus, outside endpoints | crash while in progress, replay against retry | every delivery settles, attempts stay within the limit |
| Pending actions and tool registry (`tool-registry.ts`, `tools`), dual control (`auth/crown-jewel.ts`) | `pending_actions` | queue, approve, deny, claim, execute, complete, expire, recover; request, second, consume | audit, every tool, assistant, administrative routes | approval against cancellation, expiry and offboarding; work that is rolled back after it had an effect outside; two kinds of row in one table | effects committed once, an outcome that is true, no use of an administrative approval without a second administrator |
| Drive (`drive/store`) | entries, versions, blobs, uploads, quarantine, scan jobs | prepare, finalise, scan, release, quarantine, delete, copy, expire | object store, virus scanner, quotas | bytes and rows commit apart, check-then-delete, retries of a saga | no row refers to deleted bytes, unscanned bytes are never served, quota equals what is stored |
| Storage migration (`storage/migration.ts`) | migration rows | queue, run, verify, cut over | two object stores | crash while running, writes during the copy | after cut-over every object is in the new store |
| Agent runtime (`agent-runtime`) | cursor, processing mark, version | configure, begin, advance, complete, fail, reset | assistant, tools, the agent's inbox | a turn interrupted, a change during a check or a turn | an event has one turn, a change stops a turn at once, no selected event is passed over |
| Search (`search`) | durable index queue, index generation | enqueue, claim, index, reindex in place | Meilisearch, sources | reindex against live changes | the index converges to the source |
| Audit (`audit`, `activity`) | hash-chained activity, shipped batches, anchors | append, verify, ship, anchor | immutable store | concurrent appends, crash between ship and mark | the chain has no gap, what is shipped is what was appended |
| Chat (`chat`) | messages, realtime events, tickets, retention | send, replay, connect, purge | NATS, WebSocket clients | events committed in another order than numbered | a client that resumes misses nothing |
| Limits, metering (`limits`, `metering`) | windows, usage | consume, record, roll up | every request | window edges, concurrent requests | the limit holds, usage is counted once |
| Authentication (`auth`, `passwords`, `signup`) | sessions, codes, tokens, credentials | sign in, exchange, refresh, revoke, pair | identity providers | replayed codes, concurrent refresh | codes are used once, a reused token revokes its family |
| Tenancy (`tenancy`) | tenants, provisioning steps, deletions | provision, suspend, export, delete | every store | resumed provisioning, cancelled deletion | a tenant is fully provisioned or not offered |
| Backup (`backup`) | jobs, artefacts | run, verify, restore | external programs | a worker that stops half-way | a backup reported complete can be restored |
| Assistant (`assistant`, `ai`) | conversations, memories, routines, costs | turn, tool loop, routine | model providers, tools | a routine claimed twice, a turn interrupted | a scheduled run starts once |
| Live, notifications, permissions, administration, contacts, governance, edge, health, observability, secrets, crypto, DLP | own tables or none | reads and single-step writes, pure decisions | | little concurrency | |
| Calendar, meetings | | | | dormant in release 1.0 (`docs/release/1.0-scope.md`) | |
| HTTP/MCP surface, bootstrap, configuration, schema, web client, CLI, SDKs, deployment | | | | wiring, presentation | |

`PROJECT.json` lists every part with its status, and under "hazards" the places
in the code where something can go wrong that a test would hardly reach.

## Modules

### MailOutbound: the durable outbound queue

`MailOutbound.tla` models `store-outbound.ts`, `store-scheduled.ts`,
`outbound-claims.ts`, `local-delivery.ts`, `delivery-events.ts`, and the control
flow of `outbound.ts`, `outbound-routing.ts` and `providers.ts`.

| Model | Code |
| --- | --- |
| `row[m]` | the row of `mail_outbound_messages`: status, `attempt_count`, `next_attempt_at`, `undo_until`, `scheduled_at`, the three lease columns (`token`, `lease`), `dead_lettered_at`, `provider` |
| `worker[w]` | the dispatch a process is executing: the claimed record's snapshot (`token`, `attempt`, `lock` = the provider it was bound to) and where `OutboundMailDispatcher.dispatch` is |
| `filed` | messages `LocalMailTransport` put in local mailboxes |
| `handoffs` | what providers were given, and whether they took it (history; also what feedback may be about) |
| `recorded` | the unique index on delivery events |
| `suppressed` | active suppressions |
| `claims` | number of leases granted, so that a new token is a fresh one |
| `review` | how often a person replayed or retried the message (history) |
| `undone` | messages their senders took back (history) |
| `CreateOutbound` ... `RetryOutbound` | one request each |
| `ClaimDue`, `ClaimNothing` | one claim transaction: the sweep of expired leases and the claim of one due row |
| `CheckRecipients`, `PreparationFails`, `DeliverLocal`, `BindProvider`, `SendAccepted`, `SendRejected`, `SendLost`, `Acknowledge`, `AcknowledgeTooLate` | the steps of a dispatch, each at most one database transaction or one call of a provider |
| `Crash` | the process stops, or a database error ends the dispatch |
| `OffboardActor` | an administrator offboards a sender: blocked while a row of the sender is `sending`, cancels all that are `queued` |
| `RecordEvent` | one provider report, matched by the handoff key; a redelivered one hits the index |
| `Tick` | time: `undo`, `next` and `lease` hold what is left of each deadline |

Abstractions. One tenant (claims are confined to one); one clock for the worker
and the database; one recipient address per message, of which a local part and a
remote part may exist; any due row is claimed (`skip locked` makes the order
depend on locks); bodies, headers, quotas and listing queries are left out.
`DeliverLocal` stands for two transactions of `LocalMailTransport.send`, each of
which locks the leased row. `LegacyFailed` are rows an older release left
`failed` without `dead_lettered_at`; they are the only rows `retryOutbound`
accepts besides none, since every failure now sets that column. At the
environment relay a connection that is lost with one of the codes `ETIMEDOUT`,
`ECONNRESET`, `ESOCKET` is terminal; one that the relay closes in an orderly way
is a transient failure (`outbound.ts:214-227`), also after it took the message: a
handoff has `closed` then. `OffboardActor` is the part of `helix_offboard_actor`
that touches the queue (`0196_actor_offboarding.sql`); the rest of an offboarding,
and that the sender has no access from then on, is left out.

`MailPromise.tla` is what the queue promises about the environment relay, in
three actions: a message is relayed, reviewed by a person or withdrawn by its
sender. A copy is relayed only while all earlier ones of its review ended in an
orderly close, and none of a withdrawn message. `MailOutbound` implements it under
the mapping `copies <- Copies`, `withdrawn <- undone`. Offboarding withdraws
nothing: the rows it cancels may have been filed or relayed before.

Fairness (`FairSpec`): the clock ticks; every worker goes on polling
(`OutboundMailWorker` drains on a timer and a failed drain is retried at the next
tick) and finishes the step it is in (transports time out). Senders,
administrators, feedback and crashes owe nothing. Weak fairness is enough:
polling stays enabled while a due row is there and the worker is idle.

### Leadership: one replica runs each worker

`Leadership.tla` models `leader/election.ts`: the supervisor, its lock client and
the PostgreSQL advisory lock behind them, for one worker on any number of
replicas.

| Model | Code |
| --- | --- |
| `sup[r]` | the fields of `SingletonWorkerSupervisor`: `started` and `stopped` (as `phase`), `workerRunning` (`leader`), `lease`, the retry interval (`timer`), `healthy` |
| `calls[r]` | promises of the lock client in flight: questions the database has not answered, answers the supervisor has not seen, unlocks not executed |
| `held[r]` | how often the replica's session holds the lock: a session-level advisory lock is counted |
| `work[r]` | the worker: calls of `start()` that wait for a first batch, intervals that are armed, and whether `stop()` waits for it |
| `kind` | how the worker starts: `timer` arms an interval and returns, `batchThenTimer` awaits a first batch and then arms it (virus scan retry, trash purge, meet lifecycle, and others), `timerThenBatch` arms it and awaits a first batch (mail productivity) |
| `boots`, `losses` | processes started, sessions lost (the bounds) |
| `Answer`, `QueryFails`, `Unlock`, `LoseSession` | the database and the connection |
| `Start`, `RetryTick`, `OnGranted`, `OnRefused`, `OnFailed` | `start`, the interval, and `attemptAcquire` after its `await` |
| `BatchEnds`, `BatchFails` | the fire-and-forget `worker.start()` after its first batch |
| `Stop`, `WorkerStopped`, `WorkerStopFails` | `stop()` up to `await worker.stop()`, and after it when that resolves or rejects; a `stop()` that rejects keeps the lease |
| `Exit` | the end of the process, orderly or not; its session ends with it |

The retry interval does not wait for the previous attempt (`election.ts:291`).
When two of them overlap, the session gets the counted lock twice, one lease is
kept, and `stop()` unlocks once: until the process ends the lock is not free,
although `bootstrap/workers.ts:293-294` expects a survivor to take over
"immediately". The model takes these steps; `held[r]` is 1 after them.

Left out: the one connection all supervisors of a process share, which needs
more than one key to matter. While no session is lost the answers to a session's
questions are seen in order; afterwards in any order.

Fairness: event loops go on, the retry interval fires, a stopped process exits;
a replica that keeps asking is answered some time (strong fairness of `Answer`:
`QueryFails` may take any finite number of questions).

The supervisor takes a worker whose `start()` rejected for one that does not run
(`election.ts:271-273`), and the `stop()` of a worker with a first batch clears
only the interval that is there. So the interval of such a worker can outlive its
supervisor and the lease, see `leader_stop` below, and `WorkerRunsOnce`, the main
property, speaks of such a worker only on replicas that have not stopped. Of a
worker of kind `timer` it speaks everywhere. Workers that subscribe to the event
bus (webhooks, search, enrichment, metering, signup) start within one turn of the
event loop, since neither bus does I/O in `subscribe`, and are of kind `timer`; so
is the hosted agents' worker, which awaits its `LISTEN` but looks again whether it
was stopped (`agent-runtime/worker.ts:58-61`). `Takeover` is about kind `timer`:
a worker whose first batch fails is not started again until its process ends,
and what it then owes is the report (`IdleLeaseIsReported`).

Why these properties end with the first lost session: after it has been acquired the
lease is never looked at again (`election.ts:261`). When the session that holds
the lock ends while its process goes on, PostgreSQL frees the lock, another
replica acquires it, and two replicas run the worker; the model takes this step
(`LoseSession`), and the outbox, the mail queue and Drive are modelled with
several workers for that reason.

### Outbox: events published at least once

`Outbox.tla` models `outbox/outbox.ts` and `outbox/postgres-store.ts`, with the
one property of `events/nats-event-bus.ts` that matters here: `publish` may fail
after the bus took the message.

| Model | Code |
| --- | --- |
| `row[e]` | the row of the outbox: whether it is there, `delivered_at`, and the ticks until `deliver_after` |
| `created` | the order of `created_at`. It is the start of the inserting transaction, so a row may appear before rows that are already there |
| `drain[w]` | one `drainOutbox`: the rest of the claimed batch, the event at hand, and whether it is about to be marked delivered or failed |
| `published`, `interrupted`, `shared` | history: copies the bus took, copies it took that no mark followed, events two drains had at the same time |
| `ClaimUndelivered` | the claim: the first `BatchSize` due rows, without any row another claim has locked at that instant (`skip locked`; any subset of what others hold). It writes no lease |
| `Publish`, `PublishFails`, `PublishUnsure`, `MarkDelivered`, `MarkDeliveredFails`, `MarkFailed`, `Abort` | the loop of `drainOutbox`, one statement or call each |

`Hopeless` events are never taken by the bus. The `attempts` column is left out:
nothing reads it.

`FairSpec` assumes that the poll interval (one second) is shorter than a tick (a
share of the minute `markFailed` waits), so that an idle drain claims what is
due before time goes on, and that what is tried for ever is not interrupted
every time.

### Webhooks: the life of a delivery

`Webhooks.tla` models the outbound half of `webhooks/delivery.ts`, `worker.ts`
and `store.ts`.

| Model | Code |
| --- | --- |
| `hook[h]` | the endpoint: enabled, withheld (disabled, or with a policy that excludes its events) or deleted; only the first is `Deliverable` |
| `row[d]` | the row of `webhook_deliveries`: status, attempt, ticks until `next_attempt_at` |
| `slot[s]` | the work on one delivery: of the event handler, of the retry timer, or (`request`) of a person's test or replay, which is one database transaction with its request |
| `posts`, `taken`, `lost`, `unsure`, `answers` | history: requests sent, deliveries the endpoint took, those whose work ended half-way, those with an update whose answer was lost, and how many answers were |
| `Handle`, `CreateDelivery` | an event reaches `OutboundWebhookWorker.handle`; the row is inserted `in_progress` |
| `Test`, `Replay` | `webhook.outbound.test`, `replayOutboundWebhook` |
| `ClaimDue`, `Look` | `claimDueOutboundDeliveries`, and the second look at the settings before a retry |
| `Post`, `Record`, `RecordFails`, `RecordUnsure` | `dispatchOutboundDelivery`: the request, the update, and an update that fails inside the `try` that also catches failed requests, not applied or applied |
| `Lose` | a crash, a database error, a secret that cannot be resolved, a process that exits: `stop()` (`worker.ts:84-97`) does not wait for a handler that is running |
| `SetHook`, `Tick` | settings; time |

A delivery is `in_progress` from its insert or claim until its update, without lease
or sweep. When the work ends in between, no claim selects the row again
(`store.ts:487`) and a replay refuses it (`delivery.ts:247`): it is stranded, though
`delivery.ts:480` reads "No further attempt scheduled means the delivery is done
retrying". `OnlyLossStrands` shows that nothing else has this effect.

An update may be committed and its answer lost with the connection
(`RecordUnsure`). The catch (`delivery.ts:465-477`) takes that for a failed request
and writes the row again, unconditionally (`store.ts:440-466`): a delivered row is
reopened and posted again, and a row that another task has claimed meanwhile is
taken from it, after which two tasks count the attempts. `SettledIsFinal`,
`AttemptsBounded` and `OneTask` therefore except such a delivery; `DeliveredIsTrue`,
`OnlyLossStrands` and `EveryDeliverySettles` hold of it too.

Not modelled: inbound receivers, signatures, headers and payloads. The status
`pending` is never written for an outbound delivery. `Record` is unconditional,
as `updateDeliveryStatus` is.

Fairness: the timer fires and claims what is due, the step of a task ends
(requests time out), time passes.

### Drive: from an upload to a version, and the bytes behind it

`Drive.tla` models the finalization saga of `drive/store`: `uploads.ts`,
`upload-commits.ts`, `quarantine.ts`, `upload-expiry.ts`, `scan-claims.ts`,
`scan-jobs.ts`, and `deleteEntry` and `revertToVersion`. It extends
`DriveBlobs.tla`, the rows of `blobs.ts` and the queue of deletions, whose
operators are the effects of single statements. Unlike other requests a
finalization is not one transaction: it reads, scans, copies and commits in
separate steps, and each of them is an action.

| Model | Code |
| --- | --- |
| `file[o]` | the row of `objects`: status, `storage_key`, `scanToken` (`token`), `scanPreviousStatus` (`previous`), `sha256` |
| `job[o]` | the row of `drive_scan_jobs`: status and attempts; `none`: no row |
| `version` | the rows of `drive_versions` |
| `blob[c]` | the row of `drive_blobs` of content `c`: key and `refcount` |
| `reservation[o]` | the row of `drive_blob_reservations`: key, and the calls that were given its id (one row for each file: a second finalization of the file takes it over) |
| `deletion[k]` | the row of `drive_quarantine_deletions` of key `k` |
| `bytes[k]` | the object store |
| `worker[w]` | the call a process is executing: the claim (`previous`, `reserved`, `number`), what it found and wrote, the deletions that are its to do, and where it is |
| `slipped`, `faults` | history: the slips that happened (below); crashes, failed calls and outages (the bound) |
| `Prepare`, `Upload`, `Finalize`, `Purge`, `Revert`, `Override` | requests; the client puts its bytes itself |
| `Scan`, `CommitScanFailure`, `SetAside`, `CommitInfected`, `Reserve`, `Write`, `CommitClean` | `finalizeUploadForScan`, one transaction or call each |
| `Fail`, `Unanswered`, `Unreserve`, `CheckWritten`, `Discard`, `Release` | its `catch` block, entered from any of them, also from one whose transaction was applied |
| `ClaimJob`, `FinalizeJob`, `JobFails` | the retry batch |
| `ClaimDeletion`, `Look`, `Erase`, `Complete` | `deleteQuarantinedBytes`, for the sweep and for the call that queued the deletion |
| `ExpireUpload`, `EraseUpload`, `Forget` | expiry of uploads nobody finalized |
| `ReconcileBlobs`, `Expires` | `reconcileDriveBlobReferences` |
| `Crash` | the process ends; rows and reservations stay |

Abstractions. One tenant; a batch takes one job, upload or deletion at a time;
due times and grace periods are not counted; a lease ends once its holder is
gone. `Infected` contents are those the scanner or the DLP policy quarantines; a
DLP block is a `Fail`. A purge is preceded by trash, recovery window and holds,
which are left out, and so are permissions, quotas, idempotency keys (a replay
returns before it does anything) and multipart uploads, whose bytes are there
when they are finalized.

`revertToVersion` looks whether the file is ready, waits for the row, and then
writes `ready` whatever the status has become (`versions.ts:59-64`, `:131-133`). A
file that has a version was ready once, so a look in time is always possible, and
`Revert` is one action whose guard does not ask for the status; it is the slip
`revert` when the file is not ready at the write. So a revert may overwrite a
finalization, a scan that waits or was given up, and a quarantine. The finalization
it overwrites can no longer commit (its claim asks for `scan_processing`), and undoes
itself.

The answer of any transaction may be lost after it was applied (`Unanswered`). The
call then runs its `catch` block (`uploads.ts:555-587`) as after a failure: it deletes
what it wrote. After a verdict of quarantine that is the copy it set aside, whose
deletion is queued anyway; after a clean one it is the bytes of the version it has
just committed, which only the check of shared bytes keeps (the slip `answer`).

Slips. The bytes and the rows that say who needs them commit apart, and the code
guards the gap with leases, reservations and checks that are separate calls. Twelve
circumstances defeat these guards; each is a kind in `SlipKind`, remembered in
`slipped` when it happens and possible only if `Slips` has it:

| Slip | What happens | Where |
| --- | --- | --- |
| `lease` | a lease (120 s) ends while its holder is at work; the loser's undo deletes what the winner relies on | `upload-commits.ts:28`, `uploads.ts:562` |
| `expiring` | an upload whose expiry has begun is finalized | `upload-commits.ts:45` |
| `queued` | a key is used again whose deletion is queued (no check without deduplication) | `quarantine.ts:122` |
| `replace` | content in a request is written over the key of a version, because the previous status was not `ready` | `uploads.ts:479` |
| `unseat` | a failed retry writes the status of a file another call is finalizing | `scan-claims.ts:163` |
| `purge` | a file is purged while it is being finalized | `lifecycle.ts:80` |
| `revert` | a revert looked while the file was ready and writes when it is not | `versions.ts:59`, `:131` |
| `answer` | the answer of a commit is lost after the call wrote the version's bytes, without deduplication; the `catch` deletes them | `uploads.ts:555` |
| `overlap` | two calls carry out one deletion: the sweep claims what the call that queued it is at, or two purges of one content queue the same key one after the other | `quarantine.ts:22`, `:56` |
| `split` | a content gets a fresh key, because the deletion of its key is queued, while a finalization still counts on the key it had | `blobs.ts:37` |
| `undo` | a call fails after it wrote a blob, or its commit's answer is lost: between its check and its delete another finalization counts on the blob | `uploads.ts:567` |
| `recount` | reconciliation counts versions in a snapshot and overwrites an increment made meanwhile | `blobs.ts:115` |

`VersionsKept` claims nothing once a slip happened; with any of `lease`,
`expiring`, `queued`, `replace`, `answer`, `overlap`, `split`, `undo`, `recount`
allowed, `Kept` alone is violated. `CountsMatch` depends on `recount` alone: whatever else
slips, the counts are those of the versions. What concerns verdicts and histories
is claimed with slips and all.

Two of these races take more files than a run has, and showed in the search for
an inductive invariant. A purge queues the deletion of a blob nobody refers to; a
second file of the content is finalized and purged before the first purge is
done, which finds the row still open (`quarantine.ts:22`) and tends it as well; the
first completes the row, the content is used again, and the second erases it. And a
finalization that reserved a key keeps its bytes, but not the row of the content
at it: with a deletion of that key queued meanwhile the next finalization takes a
fresh key, and the first one writes its bytes and commits a version at a key of
which the row no longer speaks (`blobs.ts:37`, `quarantine.ts:122`).

`DriveFiles.tla` is what Drive promises about a file: nobody reads it before a
verdict, its history grows by one clean version at a time and is never rewritten,
a finalization that is undone brings back what was shown, quarantine ends only by
removal or by a return to an earlier version. `Drive` implements it under `shown <- Shown`, `history <- History`.

Fairness (`FairSpec`): a call that has begun goes on; the sweeper (leadership
gives the worker to one replica) is idle again and again, and then reaches what
waits, however many others wait with it: strong fairness of each kind of claim,
since the claims order by age and a finished one is not due again at once.
Requests, purges, failures and crashes owe nothing.

### PendingActions: what waits for a person

`PendingActions.tla` models the confirmation gate (`tool-registry.ts`,
`tools/registry.ts`, `tools/pending-actions-postgres-store.ts`,
`tools/pending-action-expiry-worker.ts`) and the dual control of administrative
operations (`auth/crown-jewel.ts`), which keep their rows in one table and do not
look at each other's: the gate's `approve`, `cancel` and expiry have no condition
on `approval_kind`.

| Model | Code |
| --- | --- |
| `row[a]` | the committed row of `pending_actions`: `status`, `approval_kind` (`kind`), `actor_id` (`by`), `approval_owner_actor_id`, `approver_actor_id`, `approved_by_actor_id` (`second`), `consumed_at` (`used`) |
| `due` | actions whose `expires_at` has passed |
| `barred` | actors disabled, or whose credential, policy or owner is no longer what it was |
| `req[r]` | a request: where it is, who makes it, whether the deadline had passed when it read the clock, the row as its transaction has left it, whether it started the work and whether the work wrote |
| `row[a].early`, `runs`, `breaks`, `done` | history: the work had run when the row was queued; starts of the work, started runs rolled back, commits of the work's database effects |
| `Queue`, `QueueAfterRun`, `RequestApproval` | the ways a row comes to be: before the handler, after it (below), or for a second administrator; a queued call whose audit record is not kept is cancelled in the same request |
| `Ask` | a request passes the checks that need only what never changes in a row, and the clock |
| `Approve`, `Cancel`, `SecondApproval`, `Consume`, `Refused` | the conditional update once it has the row lock, on the row as committed then |
| `Claim`, `Deny`, `Run`, `Finish` | the rest of `approvePending`: rechecks and claim, a refusal inside `invoke`, the handler, its outcome |
| `Commit`, `Abort` | the `onSend` hook; an error, a client that goes away, a timeout, a crash |
| `Pass`, `Bar`, `Offboard`, `Sweep` | time; administration; the expiry worker, which skips locked rows |

The transaction is what makes this safe and what makes it surprising. An approval,
the claim, the execution and its outcome are statements of one transaction
(`middleware.ts:77-141`; nested calls join it, `postgres-roles.ts:31-42`), so no
other session ever sees `executing`: `recoverStaleExecutions` finds no row
(`RowOK`), and a crash in the middle does not leave an outcome unknown but the
action open. What the handler did outside the database, a call to a provider or
an object store, stays. `docs/adr/adr-0005-agent-write-confirmation-and-allowlists.md:32`
says that an approval "executes exactly once"; the code gives what
`OnceAndReported` and `RepeatsAreInterruptions` state: database effects once, and
one more start of the work for each interrupted request.

One call is queued with its work already done (`QueueAfterRun`). When the data
loss prevention warns about what a handler returned, `invoke` calls
`queueConfirmation` after the handler has run (`tool-registry.ts:722-742`): the
request answers "pending" and commits, and with it what the handler wrote. An
approval then runs the handler again, acknowledged (`:629`), so its effects are
there twice; a row that is refused or expires keeps those of the first run. The
properties count from there (`Before`): what they promise is promised of the
approved run, and the run that came before is the only one they do not charge to
an approval or an interruption.

Also seen here: when the rechecks after the approval fail (`tool-registry.ts:875`
to `:911`) the answer is an error but the approval is committed. The row is then
`approved`, nobody can execute it, and the sweep expires it (`EveryActionSettles`).

Abstractions. One tenant. A principal is an actor; what the policy, the feature
flags, the limits and the permissions decide is `Deny`, before the handler. A
handler succeeds or fails, and may have written before it fails or before its
audit record is refused (the record has a savepoint of its own, so the failure is
reported and the effects are committed). The result of a dual-control request is
not in its row. A batch of the sweep takes all rows (the limit is 500) and the two
updates of a sweep are one step: they are of disjoint rows, and one of them finds
none. Barred actors stay barred.

Fairness (`FairSpec`): a request is answered or aborted, deadlines pass, and the
sweep, which runs every minute and skips locked rows, does not find the same row
locked each time (strong fairness). People owe nothing.

### AgentRuntime: a hosted agent's turns

`AgentRuntime.tla` models `agent-runtime/worker.ts` and `store.ts`, with the inbox
it reads (`live/store.ts`), for one hosted agent on any number of processes.

| Model | Code |
| --- | --- |
| `row` | the row of `agent_runtimes`: `enabled`, `version`, the selected `events`, `cursor`, `processing_cursor`, whether `processing_at` is recent, whether there is a `last_error`, `turns` begun in the present hour |
| `head`, `expired` | the agent's inbox `actor_events`, numbered without a gap, and how much of its front is older than the seven days of history |
| `grant` | the credential: its scopes and policy (a member of `Grant`); `Withheld` when it does not resolve or an operator has switched agents off; `Disabled` when the agent's actor is disabled |
| `up[w]` | whether a process runs the worker, or waits in its `stop()` |
| `sweep[w]` | `check`: what it read of the row (`version`, `events`, `at`) and where in the page it is |
| `turn[w]` | `turn`: its event, the version and credential it began with, the calls made, whether its controller is aborted |
| `begun`, `overlapped`, `late`, `faults` | history: turns started for each event; whether a worker was started beside another; steps a turn took since the last change; the bound |
| `Configure` | `configure`, with "start from the current inbox" (`reset`) |
| `Find`, `Read`, `Page`, `Skip`, `Begin`, `Decline`, `EndPage`, `Report` | `sweep` and `check`, one transaction each: candidates, the row, credential and page, `advance`, `begin`, `fail` |
| `Vet`, `Act`, `Answer`, `Complete`, `Beat`, `Fail` | `turn`: `beforeStep`, a call of the model or of a tool, the reply, `complete`, presence, the `catch` |
| `Abort`, `CheckFails`, `BeginLost`, `TurnFails`, `CompleteLost`, `Crash` | deadline and heartbeat; a call that throws, done or not; the end of the process |
| `Start`, `StartEarly`, `Stop`, `Stopped` | the worker under its supervisor, and beside another worker after a lost lease |

`begin` (`store.ts:146`) compares the version and the processing mark, not the
cursor. One worker at a time never needs more: nobody else moves the cursor past
the page it holds without a new version (`CheckIsAhead`). Two workers do: one
completes the event, and the other begins it from the page it read before.
`OneTurnPerEvent` therefore ends with the first overlap, which `Leadership` shows
to be possible after a lost session. `PassesNothingSelected` nearly survives it:
a worker that skips an event while the other one's turn is in progress has its
advance refused (`store.ts:168`), goes on, and later begins a turn beyond what it
skipped; when the agent is then paused and given a wider selection, the completion
of that turn takes the cursor past events the new selection wants. This needs two
workers and a pause, and is excluded by `overlapped /\ ~row.enabled` and no more.

`beforeStep` (`worker.ts:180-194`) compares the configuration by its version, which
only grows, and scopes and policy by their values; it looks at the operator's switch
at that instant. So a change of the credential that is undone before the next check
goes unnoticed and the turn goes on. `ChangeGrant` therefore takes the credential
from any state to any other, as often as it may be, and `AtMostOneLateStep` counts
anew (`late`) when the credential changes again while the version is still the
turn's: a change of the configuration lets one step through for good, a change of
the credential one step until the next change.

The sweep does not look for an agent whose actor is disabled
(`0234_agent_runtime.sql:69`): what such an agent was marked with, or waits for,
stays without an error until the actor is enabled again. `TurnsSettle` and
`EveryEventAnswered` except this (`Unsought`), as they except a paused agent.

Abstractions. The limit of four active turns, the pages of twenty agents, presence,
prompts and the display of a waiting approval are left out. The reads of
`beforeStep` are one action. Credential and page are one action as well, though
they are two transactions: a credential that changes between them is caught by
the first `Vet`, unless it has been changed back. An event is hidden from the agent or it is not; a message that is
deleted before its turn counts as hidden from the start. What the model and its
tools do is in `PendingActions`.

Fairness (`FairSpec`): the event loop goes on with a check, a turn and a stop; the
five-second timer repeats the sweep; a supervisor starts a worker where none runs
(`Takeover` of `Leadership`); hours pass. Administrators and faults owe nothing.

## What the runs check

| Run | Instance | Shows |
| --- | --- | --- |
| `mail_relay` | two fair workers, one message with a local and a remote recipient, relay only; undo, backoff and lease up to 2, three attempts, one review | one relay copy per review but for orderly closes, undo is final, what is cancelled is in nobody's hands, refinement of `MailPromise`; every message past its undo window leaves `queued`/`sending` |
| `mail_feedback` | two workers, one message that an older release may have left failed, the relay and a managed provider, three kinds of report, bounds 1 | feedback settles the row and is not taken back, what is reported sent was taken, one provider per message, a suppression stops every later dispatch; the inductive invariant of the proofs |
| `mail_resend` | one managed provider, no review | **violated** |
| `leader` | two replicas, three processes, two attempts in flight, one lost session, three kinds of worker | the inductive invariant; until a session is lost a worker runs on one replica that has not stopped, an idle lease is reported; takeover under fairness, lost session or not |
| `leader_stop` | three kinds of worker, no lost session | **violated** |
| `outbox` | two fair drains at once, two events of which one never succeeds, one event to a batch | every copy beyond the first goes back to one interruption, unless two drains shared the event; delivered is final; the event that can succeed is delivered, also from behind the one that cannot |
| `webhook_settles` | two deliveries, two tasks, one endpoint, policy of 3 attempts, delays up to 2, one lost answer | the inductive invariant, with a true `delivered` and, until an update loses its answer, attempts within the policy; settled is final with the same exception; only lost work strands a delivery, every other one settles |
| `drive_keep` | deduplication; two files that may hold the same content, two users, one sweeper, one version each, one fresh key beside the base key, one fault (a crash, a failed call or a lost answer), no slips | no version loses its bytes; reference counts are those the versions give |
| `drive_verdict` | no deduplication; one file, a clean and an infected content, one user, one sweeper, two versions, two attempts at a scan, two faults, all slips but `lease`, `split`, `undo`, `recount` | without slips no version loses its bytes; a readable file shows its newest version; quarantine ends only by removal or by a revert that looked before the verdict; refinement of `DriveFiles`; deletions finish, scans settle, finalizations end |
| `drive_expiry` | one file, one version, no faults, the slip `expiring` | **violated** |
| `pending` | one action of either kind, two requests, an agent, two administrators and another person, one interrupted run, one actor barred | the inductive invariant, with the dual control; an approval's database effects once and a true outcome; repetitions of approved work only after an interruption, also where the work had run before; every action is decided |
| `agent` | two workers; three events: a hidden one, one that only the wider selection wants, one that every selection wants; pages of two, one turn an hour, one call to a turn, one change by the administrator, one fault, any number of changes between a usable credential, a withheld one and a disabled actor | one turn for each event while workers do not overlap; at most one step after a change; nothing selected is passed over; a turn that was begun settles; every selected event comes to its turn, unless the agent is paused or disabled |

Bounds. Two workers, drains, tasks or replicas are the least that can race, and a
third adds only another stale one. One message is enough where a property is about
the attempts of one row. Two attempts give both a transient failure and a final
one (three for webhooks and the relay, so that a retry follows a retry); a lease, undo window,
backoff or delay of 2 lets a deadline fall before, between and after two ticks;
one review lets a stale dispatch of the first round meet the second. Three
processes of two replicas give a crash, a takeover and a restart beside the new
leader; two attempts in flight are what the counted lock needs to be held twice.
Two drains that take one event at a time meet on one row and pass each other;
longer batches are covered by the proofs. Two files of one content, two users and
a sweeper are what it takes to finalize, remove and sweep one blob at once; a
fresh key is what a finalization needs that meets a queued deletion. One fault
there, and two where one file is at stake, let a crash meet what an earlier crash
or outage left. Two versions give an overwrite and a revert. Requests of one row
meet two at a time, since the row lock serves the others one after another; two
administrators give a requester and a second; one interruption separates a first
run from its repetition, and one barred actor is the requester, the approver or
neither. Three events fill one page of two and start another, and an event that
is selected now and then meets a change between a page and its use; a change and a
fault at any step are what it takes to reset an agent after a lost answer. There is
no bound on crashes, lost answers and lease expiries but these, `MaxInterruptions`,
`MaxFaults`, `MaxUnsure` and `MaxBreaks`.

`lease` is left out of `drive_verdict` because it makes the instance too large
with liveness; `split`, `undo` and `recount` need deduplication. `ScansSettle` excepts files on
which a lease ended at work, a failed retry took a finalization's place or a late
revert wrote, since an undo may then put back that the file waits for a scan whose job
is gone. The inductive invariants of `Outbox`, `Drive`
and `AgentRuntime` are proved, and not checked again by these runs.

Deadlock is not checked: a queue whose messages, events or deliveries are all
settled stops, and so do replicas that have used up their processes and an agent
whose events are dealt with.

## Findings

`mail_resend` refutes `NoResendOfUnknownOutcome`. When the connection to a
managed provider is lost after the provider took the message
(`providers.ts:293`), the error that reaches the dispatcher is not a
`MailDeliveryError`; `isTerminalDeliveryError` (`outbound.ts:603-610`) takes it
for transient and the message is queued again. The relay's transport maps the
same situation to a terminal error, as the comment at `store-outbound.ts:335`
("A lost lease may have reached SMTP. Require review instead of sending twice.")
and `docs/plans/2026-10-14-workspace-quality-and-optional-ai.md:528` ask for.
`OneCopyPerReview` therefore speaks of the relay only, and excepts the one loss that
the relay's transport does not map either, the orderly close.

`leader_stop` refutes `StopEndsWorker` without a lost session, for a worker whose
`start()` waits for a first batch. `election.ts:180-181` says that "`stop()` stops
the worker (if running) and releases the lease so another replica can take over",
and `bootstrap/workers.ts:54` that every singleton worker "must run on exactly one
replica". `MailProductivityWorker` arms its interval and then awaits a batch
(`mail/productivity/worker.ts:16-23`); when the batch fails, `stop()` skips
`worker.stop()` and releases the lease while the interval goes on. A worker that
awaits the batch first, like `DriveVirusScanRetryWorker`
(`drive/scan-retry-worker.ts:28-44`), has no interval yet when `stop()` comes during
the batch, and arms it afterwards. In both cases the batches go on beside those of
the next leader until the stopped process ends or closes its database client.

`drive_expiry` refutes `Kept`. `claimDriveUploadFinalization` refuses several
statuses but not `upload_expiring` (`upload-commits.ts:37-47`). The sweep claims
an expired upload, deletes its bytes and removes the row in three steps
(`upload-expiry.ts`); a finalization that claims and scans the upload after the
first passes every check, and without deduplication commits a version at the key
whose bytes the sweep deletes. The sweep's last step spares the row, for it is no
longer expiring: the file is ready and has no content. The test of the sweep
(`store-multipart-sessions.test.ts:510`) says that it "sweeps an abandoned
single-part reservation and any uploaded bytes"; this one is not abandoned.

## What is proved

### MailOutboundProofs

From `MailAssumption` alone (any sets of messages,
workers, providers and addresses, any bounds):

| Theorem | Statement |
| --- | --- |
| `TypeCorrect` | `Spec => []TypeOK` |
| `Invariance` | `Spec => []IInv` |
| `LeaseStateChecked` | `Spec => []LeaseStateCheck` |
| `OneCopy` | `Spec => []OneCopyPerReview` |
| `UndoIsFinal` | `Spec => []UndoneNeverSent` |
| `CancelIsQuiet` | `Spec => []CancelledIsQuiet` |
| `OneProvider` | `Spec => []OneProviderPerMessage` |
| `SentMeansReached` | `Spec => []SentIsTrue` |
| `SuppressionStops` | `Spec => []SuppressionHolds` |
| `FeedbackIsFinal` | `Spec => []FeedbackSettles` |
| `OutcomeStands` | `Spec => OutcomeNeverTakenBack` |
| `Refinement` | `Spec => PromiseKept` |

The argument. `IInv` has four parts, each proved from the ones before it.
`OneCopyPerReview` is not inductive: it says nothing of the workers
that may yet send. `LeaseInv` adds what makes a second copy impossible.
`OneDispatchPerReview`: in one review round at most one dispatch is still
unsettled (it may yet send, or ask for a retry), none once the relay has taken a
copy for good, and none at all while the row waits in the queue or is cancelled. `LeaseIsCurrent`: a
worker that still holds the lease works for the current round. Together they
say that a row returns to `queued` in the same round only through the one
dispatch that takes nothing to be sent. `WorkUnderLease` and
`LeasesStartAfterUndo` tie all work to a lease and every lease to the time after
the undo window, which is why undo is final; `BoundBeforeHandoff` is why all
handoffs go through one provider. `SentInv` adds to `SentIsTrue` the answer a
worker has not written yet. `BarredInv` adds that a suppression a dispatch started
under is still there, so the check of the recipients, which comes before anything
is filed or handed over, finds it. For `FeedbackSettles` the danger is an
acknowledgement that is overtaken by a report: `HandoffPerLease` says that a lease
belongs to one dispatch and is good for one handoff, so once a report settled
the row under that lease nobody else writes with it, and `ReportsOnHandoffs` that
reports are about handoffs. Each conjunct of `LeaseInv` has a lemma that every step
preserves it; the effects of a step on the row of one message are stated once
(`ClaimStep`, `WorksStep`, `Untouched`) and used by all of them.

### LeadershipProofs

From `LeadershipAssumption`: any set of replicas, any bounds, three kinds of worker.

| Theorem | Statement |
| --- | --- |
| `Invariance` | `Spec => []IInv` |
| `OneLeader` | `Spec => []AtMostOneLeader` |
| `OneRunning` | `Spec => []WorkerRunsOnce` |
| `IdleLeaseReported` | `Spec => []IdleLeaseIsReported` |

That the database gives the lock to one session (`OneSession`) is not enough: an
unlock that is executed late could free a lock that was acquired after it was
sent. `LocksCovered` counts: every grant not yet seen, every unlock under way and
the lease have a lock of their own, so that no unlock takes the leader's.
`LeaseOfLeader` ties leading to the lease, and running to it as long as the
supervisor has not stopped; `QuietWhenDown` makes a new process start from nothing. The invariant is proved replica by replica
(`StepReplica` for the one that takes the step, `StepFrame` for the others), and
`StepLock` is the only place where two of them meet. A lost session (`LossInv`)
breaks only `LocksCovered`, which is why it says nothing from then on. All this is
`LockInv`. A replica whose worker failed to start reports itself unhealthy, and an
attempt that is refused reports it healthy again: `RefusedBeforeLease` says that
no refusal is left once a session has the lease, because the lock it holds is
counted and the session is never refused.

### OutboxProofs

From `OutboxAssumption`: any events, drains, batch sizes and interruptions.

| Theorem | Statement |
| --- | --- |
| `Invariance` | `Spec => []IInv` |
| `DeliveredMeansPublished` | `Spec => []DeliveredIsTrue` |
| `DeliveredStays` | `Spec => DeliveredIsFinal` |
| `NoUnexplainedCopies` | `Spec => []CopiesAccountedFor` |

A drain about to mark an event has published it (`MarkedWasPublished`), whichever
other drains hold the same event; and no action of a drain writes the state of a
row except to `delivered`: this is `PublishedInv`. The copies are counted by
`ClaimInv`: an event that was never shared is in the hands of one drain
(`OneHolder`), of none once it is delivered (`DeliveredIsReleased`), and what a
drain has in hand it has not in its batch as well (`HoldsItsBatch`). Hence each
publication is marked, interrupted, or still at hand, and of one drain only.

### WebhooksProofs

From `WebhookAssumption`: any endpoints, deliveries, tasks and policy.

| Theorem | Statement |
| --- | --- |
| `Invariance` | `Spec => []IInv` |
| `PolicyRespected` | `Spec => []AttemptsBounded` |
| `DeliveredMeansTaken` | `Spec => []DeliveredIsTrue` |
| `SettledStaysSettled` | `Spec => SettledIsFinal` |
| `NothingElseStrands` | `Spec => []OnlyLossStrands` |

`Record` writes its row without looking at it, so everything depends on who may
be at work: `OneTask` and `WorkHoldsRow` say that a task has its delivery to
itself, in progress, at the attempt the row counts, and `PostsCounted` that the
posts so far do not exceed that attempt, all three until an update of the delivery
loses its answer. That nothing strands needs none of them: what is in progress has
the task that claimed it, which ends only by writing the row or by being lost, and
no task writes `in_progress` over another's row (`UpdateRow`).

### DriveProofs

From `DriveBlobsAssumption`, `DriveAssumption` and `DriveKeyAssumption` (no key is
the constant that stands for "no key"): any files, contents, processes, versions
and faults, with and without deduplication, whichever slips happen.

| Theorem | Statement |
| --- | --- |
| `Invariance` | `Spec => []Inv` |
| `QuarantineStays` | `Spec => QuarantineHolds` |
| `HistoryInvariance` | `Spec => []HistoryInv` |
| `ReadyShowsNewest` | `Spec => []ReadyIsNewest` |
| `FilesRefined` | `Spec => KeepsPromise` |
| `CountsInvariance` | `Spec => []CountsInv` |
| `CountsAreRight` | `Spec => []CountsMatch` |

`QuarantineHolds` is not inductive: nothing in it keeps a call that read the
file before the verdict from writing afterwards. `Closed` does: a quarantined
file carries no token, so a lost claim neither commits nor releases
(`requireDriveFinalizationClaim`, `releaseDriveFinalizationClaim`), and has no
scan job, so a retry that comes late finds nothing to give back
(`releaseDriveScanClaim`); a revert that comes late writes, and then the file shows a
copy of an earlier version, which is clean; `previous` is never `infected`, so a release brings no
quarantine back. `Clean` (no version holds an infected content) needs `Knows`:
what each call has in hand at each step. The invariant is split by what a step
may write (`StoreOK`, `CallsOK`, `RowsOK`, `CountsOK`), with one lemma for a step
of each kind and one for each action.

`ReadyIsNewest` must also hold of statuses that come back: an undo writes what the
claim remembered, and a commit the number the claim read. `HistoryInv` says so: the
numbers of a file's versions are `1..n`, each once (`Numbered`); its row fits them
under its status (`RowFits`) and under the status it had before the claim
(`ClaimFits`); and the call whose token the row still carries would put back a
fitting status and, as long as the row is in finalization, knows the next number
(`HolderFits`). A revert, which is the other way to a new version, may meet a
finalization whose token the row still carries, but leaves the row `ready`: the
finalization cannot commit (`requireDriveFinalizationClaim`), and what it puts back
fits one more version as well. The invariant is a conjunction over
files (`Settled`); a step either leaves status, key and versions of every file as
they are (`Unseen`) or changes one (`Seen`). The refinement follows from the same
case split: what `Seen` allows for the one file is an action of `DriveFiles`
(`OneFileMoves`), the rest is a stutter. That `History`, the sequence of contents
by number, grows by one element when a version is added is `HistoryGrows`,
about sets of versions and proved once.

`CountsMatch` needs to know which count a statement changes: `upsertDriveBlobRef`
goes by content and `decrementDriveBlobRef` by key. `VersionKeysFit`,
`BlobKeysFit`, `FileKeysFit` and `CallKeysFit` say that a blob key names its content
wherever a row or a call holds one, and that without deduplication nobody holds
one. An addition is `OneMore`. For a purge, `PurgedRefs` shows that the
references it takes from a key are the versions of the file with that content: the guard
of the decrement finds a row for each key, and the row of a content has a single key.
Two purges, a purge and a commit, or a reconciliation between them then change
counts and versions together; only the increment that a reconciliation overwrites
(`recount`) does not.

### DriveKeptProofs

From the assumptions of `DriveProofs`.

| Theorem | Statement |
| --- | --- |
| `KeptInvariance` | `Spec => []KeptInv` |
| `VersionsAreKept` | `Spec => []VersionsKept` |

`VersionsKept` must know of every delete and every write that is still to come that
no version is at its key. `KeptInv` says why, as long as nothing slipped, in two
layers.

- `HeldInv`: a call that finalizes a file has its claim, and the row still has the key
  and the previous status it read (`Claims`, `Has`), so at most one call works on a file
  (`WorkerHolds`); a call in its `catch` block may be without (`Lost`), when the answer of
  its own commit was lost: then it deletes at most the copy it set aside of a file that
  is quarantined or gone; where a file and its versions may be (`RowAt`, `VersionAt`); what
  each call has written and will delete (`CallAt`); and a file without a verdict has
  no scan job (`JobAt`), so its expiry meets no retry.
- Without deduplication the keys of a file are its own, and `OwnInv` is about one
  file at a time: no key with a queued or tended deletion is that of a version
  (`Doomed`), a finalization neither reads nor writes such a key, what it will write
  is no version's, and what it commits is there (`Unharmed`).
- With it keys are shared by the versions of a content, and `SharedInv` relates calls
  of different files: the row of a content points where all its versions are
  (`VersionsPointed`); a finalization at its last steps has its destination reserved,
  at the key the row points to, and nobody else's call ends that reservation
  (`Booked`, and `HoldersOwn`: who holds a reservation has the claim, so a lost call
  releases nothing); a call about to delete shared bytes looked when nobody kept them, and
  nobody has come to keep them since (`Spares`), because a key is given out again
  only when it is in use or its deletion is not queued, and the deletion it tends is
  queued until it is done and tended by nobody else (`BlobsTendedOnce`).

Here the counts matter: a row with no reference is a content without a version
(`RefsAre`, from `CountsMatch`), which is what lets `Complete` drop the row, `Reserve`
point it elsewhere, and `Look` find a blob that is needed. Each slip is a step that
breaks one of these parts: `lease`, `unseat`, `purge` and `revert` break `Claims`,
`answer` breaks `Lost`, `expiring`, `queued` and `replace` break `Unharmed`, `overlap` breaks `BlobsTendedOnce`, `split`
breaks `Booked`, `recount` the counts, and `undo` the part of `CallAt` about what an
undone call still deletes.

### PendingProofs

From `PendingAssumption`: any actions, requests, actors, persons and administrators.

| Theorem | Statement |
| --- | --- |
| `Invariance` | `Spec => []Inv` |
| `SecondPerson` | `Spec => []DualControl` |
| `Once` | `Spec => []OnceAndReported` |
| `Repeats` | `Spec => []RepeatsAreInterruptions` |

None of the three follows from itself: the row a request will write is not yet in
the table. `HeldRow` relates it to the committed row, which cannot change under it
(`OneHolder`, the lock), and `Admitted` says which of the checks before the lock
are still good once the request has it. A step changes the record of one request
(`RequestStep`), commits it (`CommitStep`), or changes rows nobody holds
(`RowsStep`); everything else is which of the three each action is. For the
history, `OtherSteps` says that only commits, and a call queued after its handler
ran, add effects, and `CommitEffects` and `EarlyEffects` what they add; `QuietStep`
that only these, starts and aborts touch the balance of runs and interruptions.

### AgentProofs

From `AgentAssumption`: any processes, events, selections, limits and faults.

| Theorem | Statement |
| --- | --- |
| `InvHolds` | `Spec => []Inv` |
| `TurnsOnce` | `Spec => []OneTurnPerEvent` |
| `LateOnce` | `Spec => []AtMostOneLateStep` |
| `Invariance` | `Spec => []IInv` |
| `NothingSelectedPassed` | `Spec => PassesNothingSelected` |

That an event has one turn needs three facts: what was begun is behind the cursor or
marked in the row (`BegunIsBehind`), a check that may still begin a turn is not
behind the cursor (`CheckIsAhead`), and it may only if the version it read is the
row's, which no later row has (`Remembered`). A reset moves the cursor to the head
and clears the mark in one statement, so `BegunIsBehind` survives it; `CheckIsAhead`
survives because the version changes with it. `LateIsChanged` says that a step
vetted and not yet taken belongs to a turn that is not late. A step is one that
leaves the row alone (`WorkerMoves`) or writes it under the same version
(`RowMoves`); only `Configure` changes the version.

That nothing selected is passed over is a property of the steps that move the
cursor: an advance takes it to where a check is, a completion to the event of the
turn. `IInv` adds what lies between: nothing the agent selects, up to the check
(`CheckPassedOver`, as long as the version it read is the row's) and up to the
marked event (`TurnPassedOver`). A single worker has moved the cursor to each event it skipped, so that
only hidden ones lie between (`ChecksWithoutProgress`: no advance of a check is refused
for a turn in progress), and those no selection wants. After an overlap there may be
others, and a selection that wants them is refused during the turn unless the agent
is paused.

### Only model-checked

Every safety invariant and action property of the passing runs has a theorem.

The liveness properties `QueueDrains`, `Takeover`, `EveryEventDelivered`,
`EveryDeliverySettles`, `DeletionsFinish`, `ScansSettle`, `FinalizationsEnd`,
`EveryActionSettles`, `TurnsSettle`, `EveryEventAnswered`: liveness under fairness
and ENABLED are out of the prover's reach, as are induction over data and RECURSIVE
operators, which no module here uses.

The inductive invariants of the mail queue, the supervisor, webhooks and pending
actions are also invariants of their runs; those of `Outbox`, `Drive` and
`AgentRuntime` are proved only.

## Not modelled

Of Drive: multipart sessions and their sweep, quotas and usage, trash and restore,
copies, sharing, comments, folders and WebDAV. A leak is known and has no property:
a deletion that found its blob still needed completes after a finalization has
pointed the blob's row to a fresh key (`blobs.ts:37`, `quarantine.ts:122`), and no
row names the old key's bytes any more.

Of pending actions: a handler that goes on after its request was aborted (its
database calls then fail or run outside the transaction, as the client library
decides), an authority that is lost between the recheck and the handler's first
statement, and listings.

Of hosted agents: the fairness between agents (four turns at once, pages of twenty),
and agents that run outside Helix and read the inbox themselves.

Of the outbound mail queue: clock skew between worker and database
(`store-outbound.ts:333`). Of the supervisor: a subscription
that is refused at once, the listening socket of the SMTP servers, and the batches
after the first. Of webhooks: endpoints are read once for each event
(`webhooks/worker.ts:105`), so one disabled meanwhile is still sent the event; the
model lets this happen and nothing in the repository asks for more.

The other parts of the table above, with the reason for each in `PROJECT.json`:
most are single transactions, presentation or wiring. The ones with protocols
worth a model are in the plan.

## Plan

1. `MailOutbound`, `MailPromise`; `Leadership`; `Outbox`; `Webhooks`; `DriveBlobs`,
   `Drive`, `DriveFiles` (done).
2. `PendingActions`: approval, execution, expiry and recovery, with the request
   transaction around them (done).
3. `AgentRuntime` (done), `StorageMigration`.
4. `EventDelivery`: the outbox composed with the subscriber that makes webhook
   deliveries, over a bus that keeps nothing.
5. `SearchQueue`, `AuditTrail`, `ChatReplay`, then limits, provisioning, OAuth.

Theorems worth proving next: `VersionsKept` under fewer slips, as each part of
`KeptInv` needs only some of them, and what the modules above will claim.
