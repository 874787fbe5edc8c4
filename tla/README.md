# MailManager in TLA+

TLA+ models of MailManager's mail engine and of the services around it, the TLC
runs that check them on small instances, and TLAPS proofs of what matters most
for every instance. The models are translated from the Go code under
`src/internal` (and, for live events, from the page that listens to them); where a
doc, a comment or a test promises something, it is stated as a property and
checked against what the code does.

## 1. The system and its inventory

MailManager is one Go process over one SQLite database. It mirrors the folders
of several IMAP accounts, applies the user's changes to the mail servers, sends
drafts over SMTP, and serves a web client. Everything long-running lives in
`internal/mailruntime`: a scheduler, a pool of synchronisation workers, IDLE
watchers, one operation worker and one outbox worker. They meet in the database
(one writer, so every `WriteTx` is atomic), in a few in-memory maps guarded by
mutexes, and on the mail servers, which other clients change as well. Two more
processes share its files: `update-apply`, a privileged helper started by systemd,
and `admin-recover`, run by hand.

| Component | State it keeps | Operations | Hard behaviour | What makes it correct | Model |
|---|---|---|---|---|---|
| Folder synchronisation (`internal/sync`, `ingeststore/store.go`, job bodies in `mailruntime/sync.go`) | `sync_checkpoints`, `message_locations`, `messages` | probe for new mail, full reconcile, history backfill, rebuild after a UIDVALIDITY change | two jobs of one folder at once, each with a snapshot of the checkpoint; failure or restart between any two steps; servers that re-create mailboxes or report a stale UIDNEXT | no message is skipped, no live row dropped, checkpoints do not go back, everything converges | `FolderSync` |
| Job queue (`mailruntime/sync.go`, `runtime.go`) | pending map, failures map, retry timers, two bounded channels, dispatcher goroutines, parked lists, slot mutexes | enqueue with dedup and rerun, dispatch, take, park, un-park, finish, retry | callers, workers, dispatchers and timers interleave between critical sections; full channels; cancelled callers | a job is in the system exactly once, slots are exclusive, nobody waits for ever, an accepted request is followed by a run | `SyncQueue` |
| Drafts and outbox (`httpapi/draft_handlers.go`, `repository/drafts.go`, `mailruntime/outbox.go`) | `drafts`, `draft_attachments`, `outbox`, the blob directory | edit, attach, delete, send; claim, load, build, deliver, record | the server accepts and the answer is lost; the commit fails after acceptance; restart; a draft edited, moved or deleted, an account deleted, meanwhile | never delivered twice, the recorded outcome is true, drafts are lost only by delivery or by the user | `Outbox` |
| Mail operations (`repository/operations.go`, `mailruntime/operations.go`) | `operations`, `message_locations`, the server's mailboxes | create, undo, claim, select, STORE / MOVE / COPY+EXPUNGE, commit per folder, outcome | UIDs that are stale when used; commands half carried out; partial commits; passes and other clients in between; restart | only the chosen mails change, none is lost, what is reported as not done was not done, rows name the right mail | `Operations` |
| Event hub (`internal/events`, `useLiveEvents` in the page) | ring of events, subscriber channels; the page's EventSource, last id and caches | publish, subscribe with replay or resync, deliver, reconnect, refetch | slow subscribers are cut off; streams break silently; ids from an evicted event or an earlier boot; restart between commit and event | a page that has caught up shows the database | `EventHub` |
| Attachment cache (`mailruntime/attachments.go`, `downloadAttachment`) | cached files and the rows that name them | fetch, make room, write, rename, record, open | a file is evicted between the answer and the open; a stop between any two steps; a rebuilt mailbox; a restore without the cache | a row's file exists, the quota holds, what is served is the attachment | `AttachmentCache` |
| IMAP session pool (`mailruntime/sessionpool.go`) | one pooled session per slot | check out, probe, dial, release, reap, close all | release after close, reaping against checkout, a changed account | no session is shared, used after its close, or leaked | `SessionPool` |
| Accounts and credentials (`mailruntime/account.go`, `oauthflow`, `repository/accounts.go`) | account row with status and encrypted token, OAuth states, a per-account lock | refresh with rotation, status writes, re-authorisation | a refresh token that works once and whose successor is not stored; refresh against re-authorisation; status writes of several jobs | the stored token is the newest one, the user is asked to authorise again only for a reason | `Credentials` |
| Self-update (`internal/updater`, `deploy/`) | request, status and marker files, binary, backups, the service | check, request, apply step by step, roll back | any step fails; the helper is killed or the machine restarts between any two; wrong or damaged downloads | one can always go back to a version that worked, the status page is right | `Updater` |
| Authentication and setup (`internal/auth`, `store/auth_repository.go`, `bootstrap`) | admin, setup tokens, challenges, sessions, recovery codes, limiter, the token file | bootstrap, enrol, complete, log in, recover, prune | concurrent answers around counters; a restart between issuing and installing a token; a second process that recovers | setup closes behind one whole administrator, guesses are bounded, secrets work once | `Auth` |
| Conversations and threading (`mailstore/threading.go`, `repository/conversations.go`, `ingeststore`) | conversations and their counters | join, refresh | rows that move between conversations | counters equal what they count | - |
| Web client (`src/web`) | draft autosave, recovery copy, event stream | autosave, restore, refetch | stale answers | no keystroke lost, views up to date | event stream: `EventHub` |
| Connectors, HTTP API, store, configuration, crypto, search | - | wire formats, routing, SQLite, pure functions | - | - | - |

`PROJECT.json` lists the same components with what is modelled of each, and all
hazards with the line where they bite.

### How the parts interact

* The scheduler, discovery, IDLE watchers, finished jobs and retry timers ask
  the *queue* for jobs; a queue worker runs a job's body, which is a pass of
  *folder synchronisation*. The slots of the queue (`SlotsAreExclusive`) are the
  reason `FolderSync` has exactly two lanes per folder, and the reason a slot of
  *SessionPool* has one job at a time.
* *Operations* read rows that passes write, change the server, and change the
  rows themselves; a pass that finds a new UIDVALIDITY takes pending operations
  away from the worker. `Operations` therefore contains the steps of a pass that
  touch its tables.
* *Outbox* shares only accounts and the restart with the others.
* *Credentials* contains the callers of every other part that asks for an
  account's configuration, and the status writes of synchronisation jobs.
* *AttachmentCache* contains the two things synchronisation does to it: dropping
  a row and a mailbox whose UIDs have come to mean something else.
* *EventHub* stands for every writer that commits and then publishes.
* *Updater* and *Auth* share nothing with the mail engine but the process.

## 2. Plan

The order is by importance for the mail itself.

1. `FolderSync` with proofs: done.
2. `SyncQueue`: modelled, checked, and every safety property proved.
3. `OutboxLifecycle` (abstract) and `Outbox` (detailed, refines it): modelled,
   checked and, refinement included, proved; its liveness is checked only.
4. `OperationLifecycle` (abstract) and `Operations` (detailed, refines it):
   modelled, checked and, refinement included, proved.
5. `EventHub`, `AttachmentCache`, `SessionPool`, `Credentials`, `Updater`,
   `Auth`, and `Services`, which runs them: modelled, checked, and every safety
   property of each of them proved, alone and of the six together.
6. Proofs: every safety property and type invariant that a run checks is proved;
   what is left is liveness, which stays with TLC (section 6).
7. Next models: conversations and their counters, the autosave of a draft in the
   web client, shutdown of the queue, the copy in the Sent folder.

Abstract specifications worth stating beyond the two lifecycles: the download
as one atomic step for `AttachmentCache`, the installation as one for `Updater`.

## 3. Modules

| Module | Models | Kind |
|---|---|---|
| `FolderSync` | one folder: server mailbox, checkpoint, rows, both job lanes | state machine, properties |
| `FolderSync_proofs` | type correctness, six safety theorems | proofs |
| `SyncQueue` | the job queue | state machine, properties |
| `SyncQueueMC` | accounts of the jobs for TLC | model-checking constants |
| `SyncQueue_proofs` | exclusive slots, one token per job, wake-ups, accepted requests, retries | proofs |
| `OutboxLifecycle` | what `mailstore/outbox.go` allows | abstract specification |
| `Outbox` | drafts, attachments, outbox, delivery | state machine, properties, refinement |
| `Outbox_proofs` | its safety properties and the refinement | proofs |
| `OperationLifecycle` | what `mailstore/operation.go` allows | abstract specification |
| `Operations` | mail operations next to passes and other clients | state machine, properties, refinement |
| `Operations_proofs` | its safety properties and the refinement | proofs |
| `EventHub` | the hub, its streams and the pages that listen | state machine, properties |
| `AttachmentCache` | downloads, eviction, stops and restores | state machine, properties |
| `SessionPool` | IMAP sessions of one account | state machine, properties |
| `Credentials` | tokens and status of one OAuth account | state machine, properties |
| `Credentials_proofs` | the newest token is kept, states work once | proofs |
| `Updater` | request, installation, rollback, restarts | state machine, properties |
| `Updater_proofs` | there is always a way back, the status page is right, requests stay | proofs |
| `Auth` | setup, login, sessions, recovery | state machine, properties |
| `Auth_proofs` | setup closes, guesses are bounded, secrets work once | proofs |
| `Services` | the six preceding services under one specification | composition for TLC |
| `Services_proofs` | sessions accounted for, the cache sound, quiet pages current; all six services together | proofs |

Some definitions are marked *seeded fault*: the way a plausible bug would write
the definition that follows (a dropped guard, an off-by-one, a swapped order).
They belong to no specification. Each is the counterpart of a property, or of one
conjunct of a property that names several, and that property fails when the fault
replaces the real definition; this is how we know that each property can fail at
all. `PROJECT.json` pairs every property of every run with one of them.

### FolderSync

The state is the mailbox as SELECT, SEARCH and FETCH show it (`srv*`), the
folder's row of `sync_checkpoints` (`cpValidity`, `cpLast`, `backfill`), its rows
of `message_locations`, whether a backfill is queued, and the two running jobs.
A job goes through the steps of `FolderSynchronizer.sync` and
`BackfillHistory`: `ReadCheckpoint` (the request is built from the stored
checkpoint), `SelectFolder`, `PrepareFolder`, `SearchUIDs`, `StoreMessage` for
each message, for a reconcile `ListFolder` (SEARCH ALL), `FetchStates` and
`ReconcileFolder`, then the transaction `CompleteFolder` or `CompleteBackfill`.
After `CompleteFolder` a job looks whether history is owed (`ReadBackfill`) and
hands a backfill to the queue (`EnqueueBackfill`), two steps of their own.
`RefuseJob` has the errors the state itself causes, `FailJob` those that may come
at any point, `Restart` drops what lives in memory. Message dates matter only as
older or younger than 90 days.

UIDs are cut off at `MaxUID`, and `MaxUint32` puts the end of the 32-bit range in
reach. `SelectFolder` goes by the UIDNEXT the server reports (`ReportedNext`): the
real one, with `StaleUIDNext` an older one, and once the real one does not fit in
32 bits also none, which reads as zero. A number that does not fit breaks the
session, so the job fails whatever its kind; zero is refused by a sync
(`ReconcileCheckpoint`), and a backfill does not look. With `MaxUint32 = MaxUID` and
stale reports a checkpoint reaches the last UID, from which `FetchFrom` must not
wrap around.

`FirstSyncOver` is an assumption about timing, not code: reconciles come so much
later than discovery that a folder's first sync is over. The constant
`EarlyReconcile` lifts it. A mailbox that assigns UIDs before it shows their
messages (`LateExposure`) is taken to show them in the order of their UIDs.

Left out: contents, flags and threading of messages, the healing pass, several
folders. Several messages are fetched by one command and stored in batches of
one transaction each; one message per step allows strictly more interleavings.

### SyncQueue

A job in the system is a token. `caller` is a goroutine inside `enqueueSync`
between the unlock of `syncMu` and its dispatch, `channel` the two buffered
channels, `dispatchers` the goroutines `dispatchSync` starts when a channel is
full, `worker` a pool goroutine with its program counter, `parked` the waiting
list of a slot and `locked` the slot mutexes. One step is one critical section of
`syncMu`, one TryLock or Unlock, or one channel operation. A caller that has found
the channel full and its context over is `giving` up: it drops its entry in a later
step, whatever has become of the channel by then. `owed` is a history
variable: jobs with an accepted request that no run has started for. `abandoned`
is another: jobs a cancelled caller took out of the pending map together with
requests others were told were accepted (finding 3). The properties about
accepted requests and retries hold for all other jobs. Left out: shutdown and how
long a backoff is.

### Outbox

`account` and `records` are the rows of `drafts` and `draft_attachments`, `files`
the blob directory, `outbox` the rows in order of creation, `worker` and `client`
the program counters of the delivery worker and of HTTP requests that take
several steps. An upload looks for its draft a second time (`CheckUpload`) before it
moves the file into place (`UploadFile`). `ClaimOutbox` takes any queued row
(`Claimable`), as the order of `next_attempt_at`, `created_at` and id does not matter
to the properties. `ClaimOutbox`, `LoadDraft`, `ReadAttachments`, `BuildMessage`,
`SendMessage`, `MarkOutboxSent` / `MarkFails`, `RemoveBlobs` and `FinishOutbox` are
the steps of `processOutbox`. `SendMessage` has the three outcomes of
`SMTPSender.Send`: accepted, surely not accepted, and unknown, the last with and
without acceptance. `delivered` counts acceptances, `discarded` are drafts a user
deleted, `moved` drafts whose account was changed. `DeleteAccount` is the
transaction with its guard on in-flight deliveries. Left out: the text of a draft
and its version, the copy in the Sent folder, the MIME format.

Which drafts a user may move is the constant `Movable`. A moved draft can outlive
the deletion of the account it was sent from, which removes the row that records
its delivery; it can then be sent once more. `NeverDeliveredTwice` and
`OutcomeIsTrue` are therefore stated for drafts that still have the records of
their deliveries (`Recorded`), and `UnmovedDraftsAreGone` for drafts nobody moved.

### Operations

`remote` is the server: copies of mails with folder and UID. `messages` and
`locations` are the rows, `checkpoint` the UIDVALIDITY each folder was last
prepared with, `op` the operations table, `ready` the order of `execute_after`.
The worker's steps are `ClaimOperation`, `LoadOperation` (`operationLocations`,
destination, capabilities and choice of sources; among locations of equal role,
which the code orders by row id, any may be chosen), and for each group of
locations of one folder `SelectLocationGroup`, the IMAP commands (`StoreFlags`;
`Transfer` for MOVE or COPY; `Expunge` for the second half of copy-and-delete and
for a permanent delete) and `CommitProgress`; then `FinishOperation`. A command
that fails may have been carried out for any of its messages. COPYUID may be
left out by the server. A pass is the part of `syncFolder` that meets operations:
SELECT, reading the pending ones with `PrepareFolder` and its rebuild, one listing,
storing, reconciling. A new message row gets an id that was never given before
(`NewMessage`). Which rule says whether a stored mail is a message already known is
the constant `Gmail`: by Gmail's own id, or by Message-ID with the take-over of a
location that lost its place. The run takes the second; the theorems hold for
both. `touched` and `removed` are history variables.

Three simplifications. One pass runs at a time, although the code may run a probe
and a reconcile of one account side by side; what two lanes of one folder do to
each other is the subject of `FolderSync`. The SELECT of pending operations is one
step with the `PrepareFolder` transaction that follows it. And the server is taken
to number the copies it appends in the order of their source UIDs (`Rank`): what
the properties need is that COPYUID pairs each copy with its own source, in
whatever order.

An account of three folders (inbox, archive, trash) is modelled: each role has
one folder, so `operationDestination` finds it (or, by the nondeterministic
outcome of `LoadOperation`, does not). `\Deleted` and UID EXPUNGE are one step:
in between nothing of what the properties see has changed. Left out: the values
of flags, conversation counters, invalid payloads, groups of operations (one
request that creates several).

### EventHub

`version` is the database, one counter per query family an event can
invalidate, and `changes` bounds the commits; `unpublished` are the writers between their commit and `Publish`.
`boot`, `sequence` and `ring` are the hub, `stream`, `replay` and `channel` a
`ServeHTTP` with its subscriber, and `source`, `lastId`, `rebuilt`, `stale` and
`view` the page: its EventSource, the id that source will send, whether it
replaces a dead one, what is invalidated and what was last fetched. `Subscribe`,
`Publish` and `Deliver` are the hub's operations; `Open`, `Fetch`, `StaleTimer` and
`Refused` are the handlers of `useLiveEvents`; `Drop` breaks a stream so that the
browser notices or so that it does not; `HubRestart` loses the hub and keeps the
database, and each page may notice it or not. A page refetches everything it has
marked in one step, or fails to (`FetchFails`), after which nothing is marked and
nothing retries (`main.tsx:12` retries once). `missed` is a history variable, see
section 5.

### AttachmentCache

`rows` and `cachePath` are the table, `files` the directory in order of age with
the temporary files in it, `cacheMu` the mutex. A download is `Request` (a row
with a path skips the cache), `Lock`, `FetchPart`, `MakeRoom` with `ClearRow` and
`RemoveOldest` for each file it evicts, `WriteTemp`, `Rename`, `Record`, and
`OpenFile` without the mutex. Sizes are one or two units, so that one file may cost
two others; the directory's total is its number of files plus that of its big ones.
Every step may fail, and a rename that fails leaves or removes the file it was to
replace; `StopCache` stops the service between any two,
`Restore` brings the rows back without the directory. `evicted` is a history
variable: requests whose file was removed after they had been given its path.

### SessionPool

`pool` is `Runtime.sessions`, `held` what each slot's job has taken out, `open` the
sessions this side has not closed, `identityOf` the configuration each was dialled
with. `Checkout` takes the slot's session out or closes an old or foreign one,
`Probe` and `Dial` are the rest of `acquireSession`, `Release` puts it back or
closes it. `Reap` and `CloseReaped` are the two halves of `reapSessions`, which may
find any of the pooled sessions idle or old; `Cancel` and `CloseAllSessions` of
`Close`. Time is the action `Age`: an aged session is past the provider's
`sessionMaxAgeFor`, the one age a checkout looks at.

### Credentials

One OAuth account. The provider is `current` (per grant of the user, which
rotation of the refresh token it accepts) and `revoked`. A caller goes through
`ReadAccount`, waits for the account's lock, `Refresh`, `Persist`, `Finish` and, for
jobs and connection tests that fail, `MarkError`. `Persist` may fail at the write and
before it, when the token cannot be encoded or encrypted; either way the rotation
is lost. The callback of a new
authorisation consumes its state, exchanges the code and stores the grant.
`SyncAccount` and `MarkSyncing` are the two halves of the user's "synchronise now".
Restarts lose everything but the account and the states. History variables:
`stored` (the grant that should be there), `failedGrants` and `overlapped`, the two
exceptions of section 5.

### Updater

`request`, `status`, `marker`, `binary` and `backups` are the files, `service` the
unit with the version it was started from, `helper` the `update-apply` process with
its program counter. One step of the helper is one file written or one systemctl
call: `ReadRequest`, `DownloadRelease`, `VerifyCandidate`, `PruneBackups`, `Backup`,
`SayInstalling`, `StopService`, `ReplaceBinary`, `SayRestarting`, `StartService`,
`CheckHealth`, `WriteMarker`, `Succeed`, `RemoveBackup`, `RemoveRequest`. `StartAgain`
brings the service back if it could not be stopped or the binary not replaced;
`UndoStop` to `UndoHealth` are `rollbackApply`, which ends without a readiness check
if the service did not start (`UndoEnds`). Each may fail and each may be the last
before `Kill` or `Reboot`. A stop that fails may leave the service, and the requests
in it, at work. `Bad` releases never
become ready. `Install` checks and queues under its lock a release that
`FetchRelease` asked for before, so several administrators race. `proven` and
`halfUndone` are history variables.

### Auth

Rows of the auth tables, the bootstrap token's `file`, the in-memory limiter, and
per request where its handler is. One step is one read or one transaction of the
store, one call of the limiter, or one change of the file: `AllowLogin` and
`RecordFailure` stand on two sides of the password check, `ReadChallenge`,
`IncrementAttempts` and `ConsumeChallenge` on two sides of the code check,
`ReadEnrolment` and `CompleteSetup` on two sides of a repeated `SetSetupEnrollment`.
That there is one administrator is the doing of the table (`SingletonIsFree`, the
UNIQUE column `admins.singleton`): the transaction of a second one fails.
`LookUpCode` and `ApplyRecovery` run in another process. `Stop`, `IssueBootstrapToken`,
`InstallTokenFile` and `StartConfigured` are a restart. Getting old is an action for
tokens, challenges and limiter entries.

### Services

The six modules share no state. `Services` extends them and adds `part`, the one
that runs: a behaviour of `ServicesSpec` is a behaviour of one of the six, so one
run checks all of them, and the states it visits are the sum of theirs. A
property of one module then holds in the other parts because they leave it at its
start.

## 4. Runs

| Run | Instance | What it shows |
|---|---|---|
| `folder_safety` | 2 UIDs, end of the UID range in reach, stale UIDNEXT, early reconciles, one failure or restart, one expunge | the checkpoint passes no recent message that is not stored, and no step drops a live row |
| `folder_converges` | 2 UIDs, fairness, one failure or restart | old mail below the checkpoint is stored or owed to a backfill; every message is eventually stored |
| `folder_purged` | 2 UIDs in the first generation and 1 in a second, SEARCH limit 1, one failure or restart, one expunge or re-creation, late exposure, fairness | rows of expunged messages and of the older generation are dropped in the end, though reconciles fail or are skipped while the folder is over the limit, if it comes to stay within it; the checkpoint never goes back, and no incremental probe moves it past a message not shown yet |
| `folder_rebuild` | two generations, no failures | finding 1 |
| `folder_first_sync_race` | one generation, early reconciles, no failures | finding 2 |
| `queue` | an inbox job and a history job of one account, a job whose folder has gone, 2 workers, channels of one place, one caller that may be cancelled, one failing run, fairness | a job is in the system once, slots are exclusive, no wake-up is lost, accepted requests are held and served, a failing job has a way back |
| `queue_cancelled` | 2 jobs, 1 worker, a caller that may be cancelled | finding 3 |
| `outbox_delivery` | 2 drafts (one may be moved), 2 accounts that may be deleted, 1 blob, 1 client, 2 rows, one fault, fairness | no double delivery, true outcomes, in-flight rows and drafts are kept, attachments have files, sent drafts are gone, every queued row is decided, refinement of the lifecycle |
| `outbox_moved` | 1 draft, 2 accounts, no faults | finding 4 |
| `operations_mails` | 2 mails, 1 operation (flag, archive, trash, delete), MOVE or copy-and-delete, rows by the rule of every provider but Gmail, one pass, one change by another client or a re-created mailbox, one fault | all properties of `Operations` and the refinement of the lifecycle |
| `services` | each of the six services, see below | `QuietPagesAreCurrent` and `PagesCatchUp`; `CacheIsSound`; `SessionsAreAccounted`; `CredentialsAreSound`; `RollbackIsPossible`, `StatusIsTrue` and `RequestsAreHonoured`; `SetupIsSound`, `GuessesAreBounded` and `SecretsWorkOnce` |
| `cache_restored` | the cache with one restore, no other faults | finding 5 |

### Bounds and why they are enough

Nearly every race in these components is between two actors over one object: two
lanes of a folder, a parking worker and a releasing one, a worker and a handler,
a command and a pass, two requests around a counter. Two UIDs give one message
on either side of a checkpoint, and with a SEARCH limit of one a folder that is
over the limit and comes back under it; two generations give a rebuild - a
mailbox is only re-created while it holds at most `MaxRebuiltUID` messages, with
at most as many, and a re-creation counts against `MaxExpunges`; one failure or
restart can strike at any step, and what it leaves behind is the same after a
second. Channels of capacity 1 and three jobs make "full" and "parked behind a
parked job" happen. Two outbox rows allow a resend after every outcome. Two
mails are needed in `Operations` for the pairing of COPYUID lists, for two
groups, and for a UID that has come to mean another mail.

The services: one page, a ring and a channel of one event, three commits on two
topics, two broken streams or failed refetches and one restart make an id leave the ring, a channel
overflow and a boot change while the page reconnects. Three attachments of one and
two units in a cache of two, two requests and three downloads make one download
evict what another was given. Two slots, four sessions and four jobs with one
change of the account use a session again, replace it and close it while its
neighbour works. Two callers, one callback, two grants with two rotations each
give a refresh against a re-authorisation. Four releases, the third one bad, two
failing steps and two kills give an update after an interrupted rollback of an
interrupted update; two failures are needed there, as a rollback is the answer to
the first. Two visitors and limits of one wrong attempt put concurrent requests
exactly at the limits; two tokens, two enrolments and one restart repeat setup.

Bounds are constants named `Max...` and appear only in guards of the environment
(requests, faults, events), never in guards of the code.

Deadlock checking is off in all runs: with its environment's bounds used up, each
of these systems rightly has nothing left to do.

### Fairness

* `FolderSync`: a started job runs on or ends with an error (weak fairness of
  `JobStep`): every command and transaction has a timeout. Discovery queues the
  first sync of each folder and its retry timer comes back until it is done (weak
  fairness of `StartFirstSync`). No later probe is assumed: polling visits only
  inboxes and skips jobs that fail. The reconcile timer keeps visiting every folder,
  and reconciles and backfills share one slot whose waiting list is first-in
  first-out, so each is served although the other keeps coming (strong).
* `SyncQueue`: goroutines are scheduled, runs end by `timeoutForSyncJob` (weak).
  Goroutines waiting to send on a channel are served in order, and a timer that
  has fired is a goroutine that reaches the mutex (strong). Nobody has to ask.
* `Outbox`: the worker is woken or polls (weak fairness of
  its steps); nothing is assumed of users or faults.
* `EventHub`: a writer that has committed goes on to publish, and a page goes on to
  do what it can next: connect, read its stream, refetch, or notice after
  `eventsStaleMs` that its stream is silent (weak). Commits, broken streams and
  restarts are not fair.
* `Updater`: systemd's path unit starts the helper while the request file exists,
  and each of its steps ends, since downloads, systemctl and the readiness check
  have deadlines (weak). Nobody has to publish, install, fail or be killed.
* `AttachmentCache`, `SessionPool`, `Credentials` and `Auth` state no liveness.

## 5. Findings

1. `folder_rebuild`: `PrepareFolder` stores the new UIDVALIDITY of a rebuild and
   keeps `last_uid`, so `CompleteFolder` takes the maximum with the old
   generation's value; new mail below it is never probed.
2. `folder_first_sync_race`: a reconcile and a backfill that overtake a slow first
   sync clear the backfill mark; the first sync then checkpoints UIDNEXT-1, which
   covers old-dated mail that came in later and that nobody will fetch.
3. `queue_cancelled`: a caller whose context ends while the channel is full takes
   the entry out of the pending map together with requests others were told were
   accepted. If one of them was the retry timer's, a failing inbox job is left to
   nobody, since polling skips it.
4. `outbox_moved`: a draft moved to another account while it is being sent is not
   deleted by `markOutboxSent`, and its attachment files are removed all the same.
5. `cache_restored`: a download opens the path its row names without the check
   that `LoadAttachment` would make, so after a restore without the cache
   directory, which the documentation calls dispensable, every retry of a formerly
   cached attachment finds the same row and no file.

### Known limits that have no run of their own

Each is an exception in a property, or a definition beside the properties that
states what does not hold.

* `FolderSync`, with `LateExposure = TRUE` (a server that assigns a UID before it
  shows the message): `RecentMailNotSkipped` fails, as a first sync checkpoints
  UIDNEXT-1. What the comment at `ingest.go:205-207` promises of probes holds and is
  `LateMailNotSkipped`, for servers that show messages in the order of their UIDs.
  `DeadRowsPurged` excepts a folder that stays over the SEARCH limit: every
  reconcile of it is skipped (`ingest.go:403-407`) and its dead rows stay.
  `HistoryNotForgotten` does not survive a UIDVALIDITY change, because a
  rebuild does not set `backfill_before` again.
* `Outbox`: a moved draft whose first account is deleted can be sent twice
  (section 3).
* `EventHub`, `ReconnectsResume`: `App.tsx:141-142` says that a browser's own
  reconnect resumes. It does not if the stream broke before it had carried an event
  with an id, nor does anything replay what was published between a page's first
  fetch and its first stream. `missed` are the topics concerned, until something
  refetches them. Topics whose refetch failed, its one retry included
  (`main.tsx:10-14`), are among them: the stream is healthy and the page is stale.
* `Credentials`, `AuthorisationSticks`: a refresh begun before the user authorised
  again writes its token over the new one (`account.go:92`). `overlapped` says that
  a caller was at work when the authorisation was stored. Also, a refresh that
  fails for a passing reason is recorded as `reauth_required`; `failedGrants`
  includes it.
* `Updater`, `BadVersionIsUndone` (`README.md:140` of the repository): if the helper
  is killed, or the machine restarts, after the binary was replaced, the helper
  starts over; if the recheck then fails, or finds a newer release, it gives up
  without a rollback and the bad binary stays, under the old marker.
* `Updater`, `halfUndone`: the status write after the marker fails, the rollback
  cannot stop the service, restores the binary, and is killed or fails before it
  restores the marker. The running version then matches the marker, so the next
  update is accepted and saves the older binary under the newer version's name.
* `Updater`: a rollback in which only stopping the service failed reports that it
  is complete although the service still runs the new version.

## 6. Proofs

`FolderSync_proofs`, for all values of the constants that satisfy
`ConstantsAssumption`:

* `TypeCorrect`: `Spec => []TypeOK`. Inductive invariant `TypeInv`: `TypeOK` and,
  for a job past SELECT, `selV # 0` (otherwise `cpValidity` could be set to 0
  while a generation is selected).
* `NoRecentMailSkipped`: under `StableMailbox`, `Spec => []RecentMailNotSkipped`.
* `LiveRowsAreKept`: under `StableMailbox`, `Spec => LiveRowsKept`.
* `LastUIDMonotone`: `Spec => LastUIDNeverRewinds`, without assumptions on the
  server.
* `LateMailIsAwaited`: `Spec => LateMailNotSkipped`, in any number of generations and
  with messages that show late. `LateInv` says that what a session of the present
  generation has found lies below every UID not shown yet. The two together are
  `CheckpointStaysSound`: `Spec => CheckpointIsSound`.
* `HistoryIsOwed`: under `StableMailbox` and `PatientReconciles`,
  `Spec => []HistoryNotForgotten`.

`StableMailbox` says that there is one UIDVALIDITY generation and that a message
is visible when its UID is assigned. It is needed: run `folder_rebuild` refutes
the first theorem's property without the first half, and late exposure refutes
it without the second. The inductive invariant `SkipInv` says what each running
job knows: every recent message at or below the `last_uid` the job will write is
stored or still in the job's `todo`; what a reconcile's snapshot lacks and the
mailbox shows has a UID at or above the job's SELECT-time UIDNEXT (so `KeepRow`
keeps it). `RecentMailNotSkipped` alone is not inductive, since it says nothing
of what a job about to write its checkpoint has seen. The lemma `SearchCovers`
is the heart: the SEARCH of a job, with what is stored already, covers all
recent mail up to the checkpoint it will write.

`PatientReconciles` says that reconciles wait for the first sync
(`EarlyReconcile = FALSE`); `folder_first_sync_race` refutes `HistoryNotForgotten`
without it. `HistInv` adds to the property that nothing runs or waits in the
background, and the mark stands, while a first sync is under way (`OrderInv`), and
what a job that has searched covers (`Covers`): a backfill all mail up to the
checkpoint, so that it may clear the mark; a probe everything between the
checkpoint it read and the one it will write, so that old-dated mail it passes is
stored.

`SyncQueue_proofs`, for any jobs and accounts, any finite sets of workers and
callers, any capacity and bounds: every safety property that run `queue` checks.
The inductive invariant `QueueInv` is built in layers, each of which needs the
ones before it.

* `SlotsExclusive`: `Spec => []SlotsAreExclusive`. `SlotInv` adds that the slot of
  each running job is locked (so a successful TryLock finds nobody running) and
  that workers past the idle states hold a job. `WorkerLeaves` is the lemma for
  every step of a worker that does not run afterwards.
* `OneToken`: `Spec => []OneTokenPerPendingJob`. The number of tokens of a job is a
  sum of cardinalities: callers, places in a channel, dispatchers, places in a parked
  list, and the two fields of a worker. `RestTyped` says that a channel carries only
  jobs of its tier and a parked list only jobs of its slot, so that nothing escapes
  the count, and `IdleHoldsNothing` that a worker frees a field before it takes
  another job. The lemmas on counting (`CountOne` for two sets that agree but for one element,
  `OccurrencesAfterAppend` and `OccurrencesAfterTail` for a channel or a list) are
  stated once, and each action is a transfer of one token from one kind to another.
* `QueueTypes`: `Spec => []TypeOK`. The bound on retry timers is not inductive:
  `TimersBounded` adds the timers that failed runs have not started yet.
* `ParkedAreWoken`: `Spec => []ParkedJobsAreWoken`. The invariant says who the waker of
  a slot with parked jobs is: a job of that slot in a channel or with a dispatcher, or a
  worker that carries one to the slot, runs it, or has unlocked and not yet looked
  (`ParkedHaveAWaker`). A worker that parks has found the slot locked, so somebody runs in
  it (`SlotIsHeld`). A caller is no waker, as it may give up.
* `AcceptedAreHeld`: `Spec => []AcceptedRequestsAreHeld`, and `FailingAreRetried`:
  `Spec => []FailingJobsAreRetried`, both except for `abandoned` jobs (finding 3). A job
  that is owed a run has one token; the token has not begun to run, or the entry is
  marked for another run. For retries, `WaitingRetryIsKept` says that a caller who may
  give up is never the only hope of a failing job: its timer is still running.

`Outbox_proofs`, for any drafts, accounts, uploads and clients, under
`OutboxAssumption`: everything that run `outbox_delivery` checks except liveness.

* `OutboxTypeCorrect`: `Spec => []TypeOK`. `Typed` adds that a client that records or
  deletes names a draft.
* `DeliveredOnce`: `Spec => []NeverDeliveredTwice`, and `OutcomesKnown`:
  `Spec => []OutcomesAreTrue`. Neither is inductive. `DeliveryInv` adds `OlderFailed`
  (while no row of a draft was deleted, all its rows but the newest have failed, so
  there is one delivery at a time) and `NotYet` (a draft all of whose rows wait, have
  failed, or are in the worker's hands and not yet with a mail server, was never
  accepted). `SendKeepsDelivery` is the one step at which a server accepts a message:
  by `OlderFailed` the hypothesis of `NotYet` holds there, so the count was 0.
  `InFlightRowKept`, a part of the invariant, needs the guard of `DeleteAccount`.
* `SentDraftsLeave`: `Spec => []UnmovedDraftsAreGone`. `DraftInv` adds that the worker's
  draft is where it was found unless a user deleted or moved it (`StillThere`), and
  that an ID is given once (`Known`).
* `DraftsKeptWhole`: `Spec => []DraftsAreWhole`. `FilesInv` says in whose hands a file is:
  one whose row is still to be inserted is in nobody else's (`NewFiles`), those about
  to be removed by a request have no row (`OldFiles`), those a delivery will remove
  belong to its draft (`SentFiles`).
* `OutboxFollowsLifecycle`: `Spec => FollowsLifecycle`, the refinement. The status of a
  draft is that of its last row; by `OlderDone` every older row has failed or is gone,
  so each row a worker or a restart changes is a last one (`UndecidedIsLast`), and the
  step is one of the lifecycle (`OneGoes`, `ManyGo`). That each draft has a last row is
  an invariant of its own (`LastFound`), since it cannot be had by induction here.

`Operations_proofs`, for any finite set of mails, any number of operations, passes,
changes by others, faults and UIDVALIDITY generations (at least one), with either rule for
a new row: all that run `operations_mails` checks, which takes the rule of the other
providers. `OperationsAreSound` is `Spec => []OperationsInv`, and the rest
follows from it.

* `OperationTypes`: `Spec => []TypeOK`. `TypeInv` adds that UIDs are below UIDNEXT and
  stand for one copy of their folder (`UniqueUIDs`), and what the worker and the pass hold
  at each program counter (`Busy`, `PassValid`): a group is of one folder and of the
  UIDVALIDITY the session selected, and all rows of the plan are of chosen messages.
* `RowsName`: `Spec => []RowsNameTheirMail`. Rows, the worker's plan, a pass's listing and
  the destination UIDs of a move not yet committed are four places that remember
  UIDs, and each feeds another: `NamesInv` says of all four that a UID of the present
  generation below UIDNEXT is of the mail that is there. One lemma, `NamesKept`, shows
  that the server keeps every such fact whatever anybody does to it.
* `TargetsOnly`: `Spec => []OnlyTargetsTouched`. Follows from the names: what a command
  selects by UID under the session's UIDVALIDITY is a copy of a chosen mail.
* `UnappliedUntouched`: `Spec => []UnappliedIsUntouched`. `NothingSent` is the strengthening:
  as long as the worker may still report a failure, or a success without a group, it has
  sent no command that changes a mailbox.
* `NothingIsLost`: `Spec => []MailIsNeverLost`. Between COPY and the removal of the
  originals each mail that will lose a copy has another one that is not selected, or
  another client removed it (`SafeCopies`).
* `SuccessIsComplete`: `Spec => []SucceededIsComplete`. `DoneInv` says of every row of
  the plan that is neither to do nor in the group that its place is empty or its
  mail was flagged.
* `OperationsFollowLifecycle`: `Spec => FollowsLifecycle`, the refinement. `WindowInv` is
  what it needs: only queued operations have an undo window, and what is in `ready` has
  none, so an operation that starts can no longer be undone.

`Services_proofs` has the three services that need no module of their own, and the
six put together.

The session pool, for any set of slots and any bounds:

* `SessionsAccounted`: `PoolSpec => []SessionsAreAccounted`. The property speaks of
  jobs at work and of open sessions; the inductive invariant `PoolInv` says more
  simply who may have a session: the pool, a job and the reaper never share one
  (`PooledOnce`, `HeldOnce`, `PooledOrHeld`), what they have is open, what is open
  somebody has (`Owned`), and a job holds one exactly while it probes or works with
  it. The numbers of dialled sessions have no gaps, so the next one is new. That
  `Close` leaves nothing open needs that it waits: by then no job and no reaper
  has anything. `PoolTypes` adds the bounds of the counters (`PoolBounds`).

The attachment cache, for any non-empty set of attachments, any of them big, any
requests, quota and bounds:

* `CacheStaysSound`: `CacheSpec => []CacheIsSound`, all four conjuncts of the property,
  and `CacheTypes`. The inductive invariant `CacheInv` has one part about the directory and
  one about the rows. The directory has each path once (`OnePath`, so that removing a
  file removes what its name stands for) and only right contents (`AllRight`), and
  `DownloadKnows` says what the mutex's holder has found so far: the file it writes
  still fits (`Fits`), its temporary file is the last one until it is renamed, and what
  it has fetched is the attachment. A rename counts every other file once: the total
  is a length and a cardinality, so that what an append or a removal does to it
  (`TotalOfAppend`) needs no induction. The rows' part: a row that names a file has it, the holder works for a
  row that names none, the row of the file about to be removed is cleared, and whoever
  is about to open a file finds it or is in `evicted`.
* `RestoredCacheServesRight`: `CacheRestoreSpec => [](CacheFits /\ ServedIsRight)`. The
  rows' part of `CacheInv` is stated only while nothing was restored (`Unrestored`); the
  directory's part survives a restore. So finding 5's run is the whole of what a
  restore without the cache breaks: rows that name files which are gone.

The event hub, for any pages, any finite set of topics, any positive capacities and
any numbers of changes, drops and starts:

* `PagesAreCurrent`: `HubSpec => []QuietPagesAreCurrent`, and `HubTypes`. The property
  speaks of pages whose stream is drained; the inductive invariant `HubInv` of every
  page at every moment. `RingInv`: the ring holds the events `Base + 1` to `sequence` of
  this boot, so an id that is not found is of another boot or older than the ring.
  `StreamInv`: replay and channel hold events of this boot in rising order, the channel
  only later ones than the replay, and a closed stream with a replay left has a channel
  that is not empty.
  `ViewInv` says of a topic of which the page shows an old version and that it will not
  refetch by itself (`IsBehind`): an open stream still brings an event of it or a resync
  (`Told`), and in any case a new stream from the page's last id would (`Regained`); a
  page whose EventSource was rebuilt has no id and refetches everything when it opens. A
  closed stream still tells it, or the id of the last event in the channel regains it.
  These are the two halves of the argument why a lost stream loses nothing: what
  `Publish` could not put into a full channel is later than all that is in it, so the
  id with which the page comes back is earlier than what it missed. An id is regained
  also when it is not in the ring, as that leads to `resync_required`.

The six together: `Together` is the conjunction of the six specifications, each
service taking its own steps on state that no other has, in any order, as `serve()`
(`main.go:81-165`) starts them. `ServicesAreTogether` shows that what run `services`
explores, one service at a time, is of that kind.

* `ServicesTypes`: `ServicesSpec => []ServicesTypeOK`.
* `ServicesAreSafe`: `Together` implies all eight safety invariants and both action
  properties of the six.

`Updater_proofs`, for any number of releases, any of them bad, any administrators
and bounds:

* `UpdateTypeCorrect`: `UpdateSpec => []UpdateTypeOK`, which includes that a helper at
  work moves to a newer version than the one it found.
* `UpdateCanBeUndone`: `UpdateSpec => []RollbackIsPossible`: the marker names a
  version that has been ready, and what is saved under a version's name is that
  version, unless `halfUndone`. The inductive invariant has three parts. `Stages`
  says what a helper at each program counter has done: the file is the target once
  verified, the binary is the target until it is undone, the marker is written after
  the version was ready. `RequestIsHeld` ties the helper to the request file, which
  lets a helper that starts over be told from one that works on something else.
  `Saved` carries `MarkedIsSafe`: the marked version is installed, or it is saved,
  or else (a rollback was cut short between binary and marker) the request is not
  for the marked version and the service does not run it, so that nobody can make a
  backup under its name before the marker is put right. Without that third case the
  invariant is not inductive, and `halfUndone` is exactly the step that breaks it.
* `StatusIsRight`: `UpdateSpec => []StatusIsTrue`. `StatusInv` says how far the status and
  the files are at each step: the status names the helper's own update and shows it as
  under way until its end (`Progress`), the service runs the target from the readiness
  check on (`Installed`), and a rollback that has skipped no step has put back marker and
  binary before it starts the service (`PutBack`).
* `RequestStays`: `UpdateSpec => RequestIsNotReplaced`, an action property: whoever asks
  again, and whatever is killed, a pending request is only ever removed.

`Auth_proofs`, for any finite set of visitors and any numbers of tokens, enrolments,
challenges, codes, processes and restarts. `AuthIsSound` is `AuthSpec => []AuthInv`,
`AuthTypes` its types.

* `SetupLeavesNoWayBack`: `AuthSpec => []SetupIsSound`. The property does not say what a
  request on its way knows. `RequestsAreValid` adds it: the token it read exists, the
  enrolment it read is whole, and a request that removes the file finds an administrator.
  `SetupInv` adds that only the newest token can be live and that a start issues one only
  while there is no administrator; so the second of two requests that complete a setup
  finds its token used.
* `GuessersAreBounded`: `AuthSpec => []GuessesAreBounded`. The bound is not inductive, since
  a request that was let in may still fail. `GuessesInFlight` counts it in advance: wrong
  answers so far and requests between the check and the counter together are at most
  the limit plus the number of visitors less one.
* `SecretsAreUsedOnce`: `AuthSpec => SecretsWorkOnce`. An unused challenge has granted
  nothing and its row counts its wrong codes (`ChallengesCount`); a code that is not used
  was not applied (`CodesCount`).

`Credentials_proofs`, for any callers, callbacks, grants and rotations; the only
assumption beyond the bounds is that `Nobody` is not a caller. `CredentialsAreTrue` is
`CredSpec => []CredInv`, `CredentialTypes` its types.

* `CredentialsStaySound`: `CredSpec => []CredentialsAreSound`. Three facts make it
  inductive: the lock is held exactly while a token is refreshed and written
  (`LockIsRight`), so there is one such caller; unless a refresh overlapped an
  authorisation, the rotation the provider takes is the stored one or in the hands of
  the caller that is about to write it (`GrantInv`); and a state that was not brought
  back, or whose callback is not done, stands for a grant nobody has a token of
  (`StatesInv`), so that storing it makes no token of another caller look current.

Only model-checked is all liveness, which is out of the prover's reach:
`MailEventuallyStored` and `DeadRowsPurged` of folders, `RequestsAreServed`,
`QueuedIsDecided`, `PagesCatchUp`, and that a requested update comes to an end
(`RequestsAreHonoured`, whose other half is the theorem `RequestStays`).

There is no other property of a passing run without a theorem. The properties that a
run refutes (section 5) are checked by TLC alone: a counterexample needs no proof.

## 7. Not modelled

* Conversations, threading and their counters: each join or refresh is one
  transaction over the messages of one ingest; what is hard in them is the
  algorithm on headers, not an order of steps. Planned.
* The web client except its event stream: the autosave of a draft is planned,
  forms and rendering are not.
* Wire formats, MIME, search indexing, encryption, password hashing, TOTP windows,
  CSRF comparison, configuration: pure functions without a protocol of their own.
  Their outcomes are nondeterministic choices in the modules that use them.
* `accounts.OAuthStateStore`, which nothing uses; the GitHub client's cache; file
  permissions.
* A failing removal of the bootstrap token's file: the handler logs it and the file
  stays until the next start of a configured service (`RemoveTokenFile` succeeds).
* A failing removal of an attachment that could not be recorded (`Record`).
* The account status `disabled`, which only keeps jobs from starting.
* In `Operations`: two passes side by side, STORE `\Deleted` and UID EXPUNGE as two
  steps, and servers that number copies in another order than their sources
  (section 3).
* The order in which `serve()` shuts the parts down; each module has its own stop.
* The vendored IMAP library.

Clock changes are not modelled: where the code orders rows by time, the models use
the order of insertion, and where it compares ages, getting old is an action.

## 8. Running

    tlc -config FolderSync_safety.cfg FolderSync.tla
    tlc -config SyncQueue_served.cfg SyncQueueMC.tla
    tlc -config Services_safe.cfg Services.tla
    tlapm FolderSync_proofs.tla
    tlapm Operations_proofs.tla
    tlapm Services_proofs.tla

A configuration file is named after the module it belongs to; `SyncQueue_*.cfg`
belong to `SyncQueueMC`. The longest runs, `outbox_delivery` (977,884 states),
`operations_mails` (3.1 million), `folder_purged` (1.4 million, three minutes)
and `services` (about a million), take two to three and a half minutes each with
two workers; the others less than one. The proofs of `Operations` take about six
minutes, those of `SyncQueue` two or three, those of `Services` three to five,
those of the other modules less than two.
