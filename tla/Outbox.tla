------------------------------- MODULE Outbox -------------------------------
(***************************************************************************)
(* Drafts and their delivery: the HTTP handlers that change drafts, their   *)
(* attachments and the outbox (internal/httpapi/draft_handlers.go,          *)
(* internal/repository/drafts.go), the outbox worker                        *)
(* (internal/mailruntime/outbox.go), the deletion of an account, and a      *)
(* restart of the process.                                                  *)
(*                                                                          *)
(* One step is one transaction of the store, one change of the blob         *)
(* directory or one SMTP transaction.  The worker reads the draft, its      *)
(* attachment records and their files in separate steps, and handlers       *)
(* interleave between them.                                                 *)
(***************************************************************************)
EXTENDS Integers, Sequences, FiniteSets

CONSTANTS
  Drafts,          \* draft IDs
  Accounts,        \* accounts a draft may belong to
  Blobs,           \* uploads: each is one attachment with its own file
  Clients,         \* HTTP requests in progress at once
  Nobody,          \* "no draft" or "no account"
  Movable,         \* bound: drafts a user moves to another account
  MaxRows,         \* bound: outbox rows ever inserted
  MaxFaults        \* bound: failed transactions and restarts

ASSUME OutboxAssumption ==
  /\ Nobody \notin Drafts \cup Accounts /\ Accounts # {} /\ Movable \subseteq Drafts
  /\ MaxRows \in Nat /\ MaxFaults \in Nat

VARIABLES
  account,         \* drafts: account_id of each row, Nobody if there is none
  created,         \* IDs given to drafts so far
  records,         \* draft_attachments: the draft of each, Nobody if no row
  files,           \* blobs in the draft blob directory
  uploaded,        \* blobs received so far, under a temporary name at first
  outbox,          \* the outbox table, in order of creation
  worker,          \* the outbox worker
  client,          \* per client: the rest of the request it is serving
  delivered,       \* history: how often a mail server accepted each draft
  discarded,       \* history: drafts a user deleted, alone or with an account
  moved,           \* history: drafts moved to another account while being sent
  faults           \* faults so far (bounded)

tables == <<account, created, records, outbox>>
disk == <<files, uploaded>>
history == <<delivered, discarded, moved>>
vars == <<tables, disk, worker, client, history, faults>>

(* The database sets a row's draft_id to NULL when the draft is deleted: a  *)
(* row has a draft_id exactly when its draft exists.  A row deleted with    *)
(* its account is "gone".                                                   *)
Row(d, a) == [draft |-> d, account |-> a, state |-> "queued"]
RowStates == {"queued", "sending", "sent", "failed", "unknown", "gone"}

IdleWorker == [pc |-> "idle", row |-> 0, attachments |-> {}]
IdleClient == [pc |-> "idle", draft |-> Nobody, blobs |-> {}]

Exists(d) == account[d] # Nobody
AttachmentsOf(d) == {b \in Blobs : records[b] = d}
WithoutRecordsOf(d) == [b \in Blobs |-> IF records[b] = d THEN Nobody ELSE records[b]]

RowsOf(d) == {i \in DOMAIN outbox : outbox[i].draft = d /\ outbox[i].state # "gone"}
(* The newest row of a draft, by created_at: the clock does not go back.    *)
IsNewestRow(i, d) == i \in RowsOf(d) /\ \A k \in RowsOf(d) : k <= i

Init ==
  /\ account = [d \in Drafts |-> Nobody] /\ created = {}
  /\ records = [b \in Blobs |-> Nobody] /\ files = {} /\ uploaded = {}
  /\ outbox = <<>>
  /\ worker = IdleWorker /\ client = [c \in Clients |-> IdleClient]
  /\ delivered = [d \in Drafts |-> 0] /\ discarded = {} /\ moved = {}
  /\ faults = 0

-----------------------------------------------------------------------------
(* Requests.  CreateDraft, UpdateDraft (which may move the draft to another *)
(* account, and does not look at the outbox).                               *)
CreateDraft(d, a) ==
  /\ d \notin created /\ created' = created \cup {d}
  /\ account' = [account EXCEPT ![d] = a]
  /\ UNCHANGED <<records, outbox, disk, worker, client, history, faults>>

UpdateDraft(d, a) ==
  /\ Exists(d) /\ account[d] # a /\ d \in Movable
  /\ account' = [account EXCEPT ![d] = a]
  /\ moved' = IF worker.pc \in {"loaded", "listed", "built", "accepted"}
                 /\ outbox[worker.row].draft = d THEN moved \cup {d} ELSE moved
  /\ UNCHANGED <<created, records, outbox, disk, worker, client, delivered, discarded, faults>>

(* addDraftAttachment: what was received is under a temporary name while    *)
(* the draft is looked up; the file is renamed into place before the row is *)
(* inserted, and removed again if the draft has gone.                       *)
CheckUpload(c, d, b) ==
  /\ client[c].pc = "idle" /\ Exists(d) /\ b \notin uploaded
  /\ uploaded' = uploaded \cup {b}
  /\ client' = [client EXCEPT ![c] = [pc |-> "checked", draft |-> d, blobs |-> {b}]]
  /\ UNCHANGED <<tables, files, worker, history, faults>>

UploadFile(c) ==
  /\ client[c].pc = "checked"
  /\ files' = files \cup client[c].blobs
  /\ client' = [client EXCEPT ![c].pc = "record"]
  /\ UNCHANGED <<tables, uploaded, worker, history, faults>>

AddDraftAttachment(c) ==
  /\ client[c].pc = "record"
  /\ IF Exists(client[c].draft)
     THEN /\ records' = [b \in Blobs |-> IF b \in client[c].blobs THEN client[c].draft
                                         ELSE records[b]]
          /\ client' = [client EXCEPT ![c] = IdleClient]
     ELSE /\ client' = [client EXCEPT ![c].pc = "unlink"]
          /\ UNCHANGED records
  /\ UNCHANGED <<account, created, outbox, disk, worker, history, faults>>

(* deleteDraftAttachment: the row first, then the file.  Seeded fault: the  *)
(* file only.                                                               *)
DeleteAttachmentFileFirst(c, d, b) ==
  /\ client[c].pc = "idle" /\ records[b] = d
  /\ files' = files \ {b}
  /\ client' = [client EXCEPT ![c] = [pc |-> "unlink", draft |-> d, blobs |-> {b}]]
  /\ UNCHANGED <<tables, uploaded, worker, history, faults>>

DeleteDraftAttachment(c, d, b) ==
  /\ client[c].pc = "idle" /\ records[b] = d
  /\ records' = [records EXCEPT ![b] = Nobody]
  /\ client' = [client EXCEPT ![c] = [pc |-> "unlink", draft |-> d, blobs |-> {b}]]
  /\ UNCHANGED <<account, created, outbox, disk, worker, history, faults>>

(* deleteDraft: list the attachments, delete the draft (its attachment rows *)
(* go with it), remove the listed files.                                    *)
ListForDelete(c, d) ==
  /\ client[c].pc = "idle" /\ Exists(d)
  /\ client' = [client EXCEPT ![c] =
       [pc |-> "delete", draft |-> d, blobs |-> AttachmentsOf(d)]]
  /\ UNCHANGED <<tables, disk, worker, history, faults>>

DeleteDraft(c) ==
  LET d == client[c].draft IN
  /\ client[c].pc = "delete"
  /\ IF Exists(d)
     THEN /\ account' = [account EXCEPT ![d] = Nobody]
          /\ records' = WithoutRecordsOf(d)
          /\ discarded' = discarded \cup {d}
          /\ client' = [client EXCEPT ![c].pc = "unlink"]
     ELSE /\ client' = [client EXCEPT ![c] = IdleClient]
          /\ UNCHANGED <<account, records, discarded>>
  /\ UNCHANGED <<created, outbox, disk, worker, delivered, moved, faults>>

RemoveFiles(c) ==
  /\ client[c].pc = "unlink"
  /\ files' = files \ client[c].blobs
  /\ client' = [client EXCEPT ![c] = IdleClient]
  /\ UNCHANGED <<tables, uploaded, worker, history, faults>>

(* QueueDraft: the newest row of the draft decides.  A queued one is        *)
(* answered with its own ID; a failed one is followed by a new row.         *)
(* Seeded fault: an uncertain delivery may be queued again.                 *)
MayQueueUncertain(d) ==
  \A i \in RowsOf(d) : IsNewestRow(i, d) => outbox[i].state \in {"failed", "unknown"}
MayQueue(d) ==
  \A i \in RowsOf(d) : IsNewestRow(i, d) => outbox[i].state = "failed"

QueueDraft(d) ==
  /\ Exists(d) /\ MayQueue(d) /\ Len(outbox) < MaxRows
  /\ outbox' = Append(outbox, Row(d, account[d]))
  /\ UNCHANGED <<account, created, records, disk, worker, client, history, faults>>

(* DeleteAccount: refused while one of the account's messages is being      *)
(* sent; its drafts, their attachment rows and its outbox rows go with it.  *)
AccountBusyNever(a) == FALSE        \* seeded fault: the check is missing
AccountBusy(a) ==
  \E i \in DOMAIN outbox : outbox[i].account = a /\ outbox[i].state = "sending"

DeleteAccount(a) ==
  LET lost == {d \in Drafts : account[d] = a} IN
  /\ ~AccountBusy(a)
  /\ lost # {} \/ \E i \in DOMAIN outbox : outbox[i].account = a /\ outbox[i].state # "gone"
  /\ account' = [d \in Drafts |-> IF d \in lost THEN Nobody ELSE account[d]]
  /\ records' = [b \in Blobs |-> IF records[b] \in lost THEN Nobody ELSE records[b]]
  /\ outbox' = [i \in DOMAIN outbox |->
       IF outbox[i].account = a THEN [outbox[i] EXCEPT !.state = "gone"] ELSE outbox[i]]
  /\ discarded' = discarded \cup lost
  /\ UNCHANGED <<created, disk, worker, client, delivered, moved, faults>>

-----------------------------------------------------------------------------
(* The worker.  claimOutbox: next_attempt_at and created_at are both the    *)
(* millisecond of a queued row's insertion, and of rows of one millisecond  *)
(* their random IDs decide which is first.  There is no clock here: any     *)
(* queued row may be the one.  A row whose draft has been deleted fails.    *)
ClaimableWithDraft(i) ==          \* seeded fault: a row without its draft is skipped
  outbox[i].state = "queued" /\ Exists(outbox[i].draft)
Claimable(i) == outbox[i].state = "queued"
Move(pc) == worker' = [worker EXCEPT !.pc = pc]
Draft == outbox[worker.row].draft

ClaimOutbox ==
  \E i \in DOMAIN outbox :
    /\ worker.pc = "idle" /\ Claimable(i)
    /\ outbox' = [outbox EXCEPT ![i].state = "sending"]
    /\ worker' = [IdleWorker EXCEPT !.row = i,
         !.pc = IF Exists(outbox[i].draft) THEN "claimed" ELSE "failed"]
    /\ UNCHANGED <<account, created, records, disk, client, history, faults>>

(* processOutbox: the draft must be there and still belong to the account   *)
(* it was queued for.                                                       *)
LoadDraft ==
  /\ worker.pc = "claimed"
  /\ Move(IF account[Draft] = outbox[worker.row].account THEN "loaded" ELSE "failed")
  /\ UNCHANGED <<tables, disk, client, history, faults>>

ReadAttachments ==
  /\ worker.pc = "loaded"
  /\ worker' = [worker EXCEPT !.pc = "listed", !.attachments = AttachmentsOf(Draft)]
  /\ UNCHANGED <<tables, disk, client, history, faults>>

(* buildEnvelope reads the files; it, the identity and the account's        *)
(* credentials may also fail for reasons of their own.                      *)
BuildMessage ==
  /\ worker.pc = "listed"
  /\ \/ worker.attachments \subseteq files /\ Move("built")
     \/ Move("failed")
  /\ UNCHANGED <<tables, disk, client, history, faults>>

(* Seeded fault: a broken connection after DATA counts as a failure.        *)
SendReportsFailure ==
  /\ worker.pc = "built"
  /\ \E accepted \in BOOLEAN :
       /\ delivered' = IF accepted THEN [delivered EXCEPT ![Draft] = @ + 1] ELSE delivered
       /\ Move("failed") \/ (accepted /\ Move("accepted"))
  /\ UNCHANGED <<tables, disk, client, discarded, moved, faults>>

(* The SMTP transaction.  The server accepts the message and says so; it    *)
(* refuses it and says so; or the connection breaks after DATA and the      *)
(* message may have been accepted or not.                                   *)
SendMessage ==
  /\ worker.pc = "built"
  /\ \E accepted \in BOOLEAN :
       /\ delivered' = IF accepted THEN [delivered EXCEPT ![Draft] = @ + 1] ELSE delivered
       /\ \/ Move(IF accepted THEN "accepted" ELSE "failed")
          \/ Move("unknown")
  /\ UNCHANGED <<tables, disk, client, discarded, moved, faults>>

Fault == faults < MaxFaults /\ faults' = faults + 1

(* markOutboxSent: the row is sent and the draft is deleted, if it still    *)
(* belongs to the row's account, in one transaction.                        *)
MarkSentOnly ==                   \* seeded fault: the draft is left behind
  /\ worker.pc = "accepted" /\ outbox[worker.row].state = "sending"
  /\ outbox' = [outbox EXCEPT ![worker.row].state = "sent"]
  /\ Move("sent")
  /\ UNCHANGED <<account, created, records, disk, client, history, faults>>
MarkOutboxSent ==
  /\ worker.pc = "accepted" /\ outbox[worker.row].state = "sending"
  /\ outbox' = [outbox EXCEPT ![worker.row].state = "sent"]
  /\ IF account[Draft] = outbox[worker.row].account
     THEN account' = [account EXCEPT ![Draft] = Nobody] /\ records' = WithoutRecordsOf(Draft)
     ELSE UNCHANGED <<account, records>>
  /\ Move("sent")
  /\ UNCHANGED <<created, disk, client, history, faults>>

MarkFails ==
  /\ worker.pc = "accepted" /\ Fault
  /\ Move("unknown")
  /\ UNCHANGED <<tables, disk, client, history>>

(* The files of a sent draft are removed; then a copy is appended to the    *)
(* Sent folder, or a warning noted on the row.                              *)
RemoveBlobs ==
  /\ worker.pc = "sent"
  /\ files' = files \ worker.attachments
  /\ worker' = IdleWorker
  /\ UNCHANGED <<tables, uploaded, client, history, faults>>

(* finishOutbox.  If its transaction fails the row stays as it is.          *)
FinishOutboxAndDraft ==           \* seeded fault: any outcome deletes the draft
  /\ worker.pc \in {"failed", "unknown"} /\ outbox[worker.row].state = "sending"
  /\ outbox' = [outbox EXCEPT ![worker.row].state = worker.pc]
  /\ account' = [account EXCEPT ![Draft] = Nobody] /\ records' = WithoutRecordsOf(Draft)
  /\ worker' = IdleWorker
  /\ UNCHANGED <<created, disk, client, history, faults>>
FinishOutbox ==
  /\ worker.pc \in {"failed", "unknown"}
  /\ \/ /\ outbox[worker.row].state = "sending" /\ UNCHANGED faults
        /\ outbox' = [outbox EXCEPT ![worker.row].state = worker.pc]
     \/ Fault /\ UNCHANGED outbox
  /\ worker' = IdleWorker
  /\ UNCHANGED <<account, created, records, disk, client, history>>

(* Restart.  recoverInFlight: what was being sent is unknown.  Seeded       *)
(* fault: it is queued again.                                               *)
RecoveredToQueue == "queued"
RecoveredToInterrupted == "interrupted"    \* seeded fault: not a state of the table
Recovered == "unknown"
Restart ==
  /\ Fault
  /\ worker' = IdleWorker /\ client' = [c \in Clients |-> IdleClient]
  /\ outbox' = [i \in DOMAIN outbox |->
       IF outbox[i].state = "sending" THEN [outbox[i] EXCEPT !.state = Recovered] ELSE outbox[i]]
  /\ UNCHANGED <<account, created, records, disk, history>>

-----------------------------------------------------------------------------
WorkerStep ==
  \/ ClaimOutbox \/ LoadDraft \/ ReadAttachments \/ BuildMessage \/ SendMessage
  \/ MarkOutboxSent \/ MarkFails \/ RemoveBlobs \/ FinishOutbox

Next ==
  \/ \E d \in Drafts : QueueDraft(d) \/ \E a \in Accounts : CreateDraft(d, a) \/ UpdateDraft(d, a)
  \/ \E c \in Clients, d \in Drafts :
       ListForDelete(c, d) \/ \E b \in Blobs : CheckUpload(c, d, b) \/ DeleteDraftAttachment(c, d, b)
  \/ \E c \in Clients : UploadFile(c) \/ AddDraftAttachment(c) \/ DeleteDraft(c) \/ RemoveFiles(c)
  \/ \E a \in Accounts : DeleteAccount(a)
  \/ WorkerStep \/ Restart

Spec == Init /\ [][Next]_vars

(* The worker polls every queuePollInterval and its calls return; users     *)
(* need not do anything.                                                    *)
FairSpec == Spec /\ WF_vars(WorkerStep)

-----------------------------------------------------------------------------
TypeOK ==
  /\ account \in [Drafts -> Accounts \cup {Nobody}] /\ created \subseteq Drafts
  /\ records \in [Blobs -> Drafts \cup {Nobody}]
  /\ files \subseteq uploaded /\ uploaded \subseteq Blobs
  /\ outbox \in Seq([draft : Drafts, account : Accounts, state : RowStates])
  /\ Len(outbox) <= MaxRows
  /\ worker \in [pc : {"idle", "claimed", "loaded", "listed", "built", "accepted", "sent",
                       "failed", "unknown"},
                 row : 0..MaxRows, attachments : SUBSET Blobs]
  /\ worker.pc # "idle" => worker.row \in DOMAIN outbox
  /\ client \in [Clients -> [pc : {"idle", "checked", "record", "unlink", "delete"},
                             draft : Drafts \cup {Nobody}, blobs : SUBSET Blobs]]
  /\ delivered \in [Drafts -> Nat] /\ {discarded, moved} \subseteq SUBSET Drafts
  /\ faults \in 0..MaxFaults

(* A draft that was moved outlives the account it was sent from, whose      *)
(* deletion takes the record of the delivery with it.                       *)
Recorded(d) == \A i \in DOMAIN outbox : outbox[i].draft = d => outbox[i].state # "gone"

(* TestOutboxUnknownCannotAutomaticallyRetry: whatever fails, restarts or   *)
(* is asked for again, a draft is never accepted by a mail server twice, as *)
(* long as the record of the first time is there.                           *)
NeverDeliveredTwice == \A d \in Drafts : Recorded(d) => delivered[d] <= 1

(* What the outbox says of a delivery that is over is true: a sent row was  *)
(* accepted, and no row of a draft is failed or queued once it was.         *)
OutcomeIsTrue ==
  \A i \in DOMAIN outbox :
    /\ outbox[i].state = "sent" => delivered[outbox[i].draft] > 0
    /\ Recorded(outbox[i].draft) /\ outbox[i].state \in {"queued", "failed"}
         /\ IsNewestRow(i, outbox[i].draft) => delivered[outbox[i].draft] = 0

(* TestDeleteAccountRejectsInFlightDelivery: from claim to outcome the row  *)
(* the worker holds stays in the table as sending, so the outcome can be    *)
(* recorded (finishOutbox and markOutboxSent change exactly one row).       *)
InFlightRowKept ==
  worker.pc \notin {"idle", "sent"} => outbox[worker.row].state = "sending"

(* The outbox can be told, and tells, what became of a message.             *)
OutcomesAreTrue == OutcomeIsTrue /\ InFlightRowKept

(* TestOutboxUnknownRetainsDraftAndAttachment: a draft goes away only when  *)
(* a user discards it or when it was delivered.                             *)
DraftsAreKept ==
  \A d \in created : Exists(d) \/ d \in discarded \/ delivered[d] > 0

(* Every attachment row has its file, so a draft that still exists can be   *)
(* sent with all its attachments; a draft moved while it was sent has lost  *)
(* them to its delivery.                                                    *)
AttachmentsHaveFiles ==
  \A b \in Blobs : records[b] # Nobody => b \in files \/ records[b] \in moved

(* What a user has written is kept, and kept whole.                         *)
DraftsAreWhole == DraftsAreKept /\ AttachmentsHaveFiles

(* outbox_sent_test.go:129-131: the draft of a sent message is gone.  The   *)
(* code holds this for all drafts but those moved while they were sent.     *)
Leaves(d) == \A i \in RowsOf(d) : outbox[i].state = "sent" => ~Exists(d)
SentDraftsAreGone == \A d \in Drafts : Leaves(d)
UnmovedDraftsAreGone == \A d \in Drafts \ moved : Leaves(d)

RowIs(i, states) == i \in DOMAIN outbox /\ outbox[i].state \in states

(* A queued message reaches an outcome, unless its account is deleted, or   *)
(* the outcome could not be written: then the next restart decides.         *)
QueuedIsDecided ==
  \A i \in 1..MaxRows :
    RowIs(i, {"queued"})
      ~> (\/ RowIs(i, {"sent", "failed", "unknown", "gone"})
          \/ RowIs(i, {"sending"}) /\ worker.pc = "idle" /\ faults > 0)

(* Each draft's last row follows the lifecycle of mailstore/outbox.go.      *)
Status(d) ==
  LET rows == {i \in DOMAIN outbox : outbox[i].draft = d}
      last == CHOOSE i \in rows : \A k \in rows : k <= i
  IN  IF rows = {} \/ outbox[last].state = "gone" THEN "none" ELSE outbox[last].state

Lifecycle == INSTANCE OutboxLifecycle WITH Items <- Drafts, status <- [d \in Drafts |-> Status(d)]
FollowsLifecycle == Lifecycle!Spec
=============================================================================
