---------------------------- MODULE Outbox_proofs ----------------------------
(***************************************************************************)
(* No draft is delivered twice, what the outbox says of a delivery is true, *)
(* drafts are lost only by delivery or by their user and keep their files,  *)
(* and deliveries follow the lifecycle of mailstore/outbox.go: for any      *)
(* drafts, accounts, uploads and clients, any number of rows, failures and  *)
(* restarts.                                                                *)
(***************************************************************************)
EXTENDS Outbox, SequenceTheorems, TLAPS

(* The sets of TypeOK by name.                                              *)
Owners == Accounts \cup {Nobody}
Holders == Drafts \cup {Nobody}
RowType == [draft : Drafts, account : Accounts, state : RowStates]
WorkerPCs ==
  {"idle", "claimed", "loaded", "listed", "built", "accepted", "sent", "failed", "unknown"}
WorkerType == [pc : WorkerPCs, row : 0..MaxRows, attachments : SUBSET Blobs]
ClientType ==
  [pc : {"idle", "checked", "record", "unlink", "delete"}, draft : Holders, blobs : SUBSET Blobs]
OutboxType == outbox \in Seq(RowType) /\ Len(outbox) <= MaxRows
WorkerTypeOK == worker \in WorkerType /\ (worker.pc # "idle" => worker.row \in DOMAIN outbox)
DraftTypes ==
  /\ account \in [Drafts -> Owners] /\ created \subseteq Drafts
  /\ records \in [Blobs -> Holders]
FileTypes == files \subseteq uploaded /\ uploaded \subseteq Blobs
HistoryTypes ==
  /\ delivered \in [Drafts -> Nat] /\ discarded \subseteq Drafts /\ moved \subseteq Drafts
  /\ faults \in 0..MaxFaults
ClientTypes ==
  /\ client \in [Clients -> ClientType]
  /\ \A c \in Clients :
       /\ client[c].pc \in {"checked", "record", "delete"} => client[c].draft \in Drafts
       /\ client[c].pc = "checked" => client[c].blobs \subseteq uploaded
Typed == OutboxType /\ WorkerTypeOK /\ DraftTypes /\ FileTypes /\ HistoryTypes /\ ClientTypes

LEMMA TypedIsTypeOK == Typed => TypeOK
BY DEF Typed, TypeOK, OutboxType, WorkerTypeOK, DraftTypes, FileTypes, HistoryTypes, ClientTypes,
   Owners, Holders, RowType, WorkerPCs, WorkerType, ClientType

-----------------------------------------------------------------------------
(* What a step may do to the table of the outbox.                           *)

(* The rows keep what they are for.                                         *)
SameRows ==
  /\ DOMAIN outbox' = DOMAIN outbox /\ OutboxType'
  /\ \A k \in DOMAIN outbox :
       outbox'[k].draft = outbox[k].draft /\ outbox'[k].account = outbox[k].account

LEMMA RowsAreTyped ==
  ASSUME Typed
  PROVE  /\ Len(outbox) \in Nat /\ DOMAIN outbox = 1..Len(outbox)
         /\ \A k \in DOMAIN outbox : outbox[k] \in RowType
<1>1. outbox \in Seq(RowType)
  BY DEF Typed, OutboxType
<1> QED
  BY <1>1, LenProperties, ElementOfSeq

(* One row changes its state.                                               *)
LEMMA RowSet ==
  ASSUME Typed, NEW i \in DOMAIN outbox, NEW s \in RowStates,
         outbox' = [outbox EXCEPT ![i].state = s]
  PROVE  /\ SameRows /\ outbox'[i].state = s
         /\ \A k \in DOMAIN outbox : k # i => outbox'[k].state = outbox[k].state
<1> DEFINE row == [draft |-> outbox[i].draft, account |-> outbox[i].account, state |-> s]
<1>1. outbox \in Seq(RowType) /\ i \in 1..Len(outbox) /\ outbox[i] \in RowType
  BY RowsAreTyped DEF Typed, OutboxType
<1>2. row \in RowType /\ outbox' = [outbox EXCEPT ![i] = row]
  <2>1. row \in RowType
    BY <1>1 DEF RowType
  <2>2. [outbox[i] EXCEPT !.state = s] = row
    BY <1>1 DEF RowType
  <2>3. outbox' = [outbox EXCEPT ![i] = [outbox[i] EXCEPT !.state = s]]
    OBVIOUS
  <2> QED
    BY <2>1, <2>2, <2>3
<1>3. /\ outbox' \in Seq(RowType) /\ Len(outbox') = Len(outbox)
      /\ \A k \in 1..Len(outbox) : outbox'[k] = IF k = i THEN row ELSE outbox[k]
  <2> HIDE DEF row
  <2> QED
    BY <1>1, <1>2, ExceptSeq
<1>4. DOMAIN outbox' = DOMAIN outbox
  BY <1>1, <1>3, LenProperties
<1> QED
  BY <1>1, <1>3, <1>4, RowsAreTyped DEF SameRows, Typed, OutboxType

(* Several rows change their state, all to the same one.                    *)
LEMMA RowsSet ==
  ASSUME Typed, NEW S \in SUBSET (DOMAIN outbox), NEW s \in RowStates,
         outbox' = [i \in DOMAIN outbox |->
                      IF i \in S THEN [outbox[i] EXCEPT !.state = s] ELSE outbox[i]]
  PROVE  /\ SameRows
         /\ \A k \in DOMAIN outbox : outbox'[k].state = IF k \in S THEN s ELSE outbox[k].state
<1>1. /\ Len(outbox) \in Nat /\ DOMAIN outbox = 1..Len(outbox)
      /\ \A k \in DOMAIN outbox : outbox[k] \in RowType
  BY RowsAreTyped
<1>2. \A k \in DOMAIN outbox :
        outbox'[k] = [draft |-> outbox[k].draft, account |-> outbox[k].account,
                      state |-> IF k \in S THEN s ELSE outbox[k].state]
  BY <1>1 DEF RowType
<1>3. \A k \in DOMAIN outbox : outbox'[k] \in RowType
  BY <1>1, <1>2 DEF RowType
<1>4. outbox' \in [1..Len(outbox) -> RowType]
  BY <1>1, <1>3
<1>5. outbox' \in Seq(RowType) /\ Len(outbox') = Len(outbox)
  BY <1>1, <1>4
<1> QED
  BY <1>1, <1>2, <1>5 DEF SameRows, Typed, OutboxType

(* A row is added.                                                          *)
LEMMA RowAdded ==
  ASSUME Typed, NEW d \in Drafts, NEW a \in Accounts, Len(outbox) < MaxRows,
         outbox' = Append(outbox, Row(d, a))
  PROVE  /\ OutboxType' /\ Len(outbox') = Len(outbox) + 1
         /\ DOMAIN outbox' = DOMAIN outbox \cup {Len(outbox) + 1}
         /\ \A k \in DOMAIN outbox : outbox'[k] = outbox[k]
         /\ outbox'[Len(outbox) + 1] = Row(d, a)
<1>1. Row(d, a) \in RowType
  BY DEF Row, RowType, RowStates
<1>2. outbox \in Seq(RowType) /\ Len(outbox) \in Nat /\ DOMAIN outbox = 1..Len(outbox)
  BY RowsAreTyped DEF Typed, OutboxType
<1>3. /\ outbox' \in Seq(RowType) /\ Len(outbox') = Len(outbox) + 1
      /\ \A k \in 1..Len(outbox) : outbox'[k] = outbox[k]
      /\ outbox'[Len(outbox) + 1] = Row(d, a)
  BY <1>1, <1>2
<1>4. DOMAIN outbox' = 1..(Len(outbox) + 1)
  BY <1>3, LenProperties
<1> QED
  BY <1>2, <1>3, <1>4, OutboxAssumption DEF OutboxType

(* The two steps that change several rows.                                  *)
LEMMA DeletedRows ==
  ASSUME Typed, NEW a \in Accounts, DeleteAccount(a)
  PROVE  /\ SameRows
         /\ \A k \in DOMAIN outbox :
              outbox'[k].state = IF outbox[k].account = a THEN "gone" ELSE outbox[k].state
<1> DEFINE S == {k \in DOMAIN outbox : outbox[k].account = a}
<1>1. outbox' = [i \in DOMAIN outbox |->
                   IF i \in S THEN [outbox[i] EXCEPT !.state = "gone"] ELSE outbox[i]]
  BY DEF DeleteAccount
<1>2. S \in SUBSET (DOMAIN outbox) /\ "gone" \in RowStates
  BY DEF RowStates
<1>3. /\ SameRows
      /\ \A k \in DOMAIN outbox : outbox'[k].state = IF k \in S THEN "gone" ELSE outbox[k].state
  <2> HIDE DEF S
  <2> QED
    BY <1>1, <1>2, RowsSet
<1> QED
  BY <1>3

LEMMA RecoveredRows ==
  ASSUME Typed, Restart
  PROVE  /\ SameRows
         /\ \A k \in DOMAIN outbox :
              outbox'[k].state = IF outbox[k].state = "sending" THEN "unknown" ELSE outbox[k].state
<1> DEFINE S == {k \in DOMAIN outbox : outbox[k].state = "sending"}
<1>1. outbox' = [i \in DOMAIN outbox |->
                   IF i \in S THEN [outbox[i] EXCEPT !.state = "unknown"] ELSE outbox[i]]
  BY DEF Restart, Recovered
<1>2. S \in SUBSET (DOMAIN outbox) /\ "unknown" \in RowStates
  BY DEF RowStates
<1>3. /\ SameRows
      /\ \A k \in DOMAIN outbox : outbox'[k].state = IF k \in S THEN "unknown" ELSE outbox[k].state
  <2> HIDE DEF S
  <2> QED
    BY <1>1, <1>2, RowsSet
<1> QED
  BY <1>3

-----------------------------------------------------------------------------
(* The requests that leave outbox and worker alone.                         *)
Request ==
  \/ \E d \in Drafts, a \in Accounts : CreateDraft(d, a) \/ UpdateDraft(d, a)
  \/ \E c \in Clients, d \in Drafts :
       ListForDelete(c, d) \/ \E b \in Blobs : CheckUpload(c, d, b) \/ DeleteDraftAttachment(c, d, b)
  \/ \E c \in Clients :
       UploadFile(c) \/ AddDraftAttachment(c) \/ DeleteDraft(c) \/ RemoveFiles(c)

LEMMA RequestsAreQuiet ==
  ASSUME Request PROVE UNCHANGED <<outbox, worker, delivered, faults>>
BY DEF Request, CreateDraft, UpdateDraft, ListForDelete, CheckUpload, UploadFile,
   DeleteDraftAttachment, AddDraftAttachment, DeleteDraft, RemoveFiles, tables, disk, history

LEMMA Steps ==
  ASSUME Next
  PROVE  \/ Request \/ (\E d \in Drafts : QueueDraft(d)) \/ (\E a \in Accounts : DeleteAccount(a))
         \/ WorkerStep \/ Restart
BY DEF Next, Request

LEMMA TypedStarts == Init => Typed
<1> SUFFICES ASSUME Init PROVE Typed
  OBVIOUS
<1>1. OutboxType
  BY OutboxAssumption, EmptySeq DEF Init, OutboxType
<1>2. WorkerTypeOK /\ ClientTypes
  BY OutboxAssumption DEF Init, WorkerTypeOK, ClientTypes, IdleWorker, IdleClient, WorkerType,
     WorkerPCs, ClientType, Holders
<1>3. DraftTypes /\ FileTypes /\ HistoryTypes
  BY OutboxAssumption DEF Init, DraftTypes, FileTypes, HistoryTypes, Owners, Holders
<1> QED
  BY <1>1, <1>2, <1>3 DEF Typed

LEMMA RequestTyped == ASSUME Typed, Request PROVE Typed'
<1>0. OutboxType' /\ WorkerTypeOK' /\ UNCHANGED <<delivered, faults>>
  BY RequestsAreQuiet DEF Typed, OutboxType, WorkerTypeOK
<1> USE DEF Typed, DraftTypes, FileTypes, HistoryTypes, ClientTypes, Owners, Holders
<1>1. ASSUME NEW d \in Drafts, NEW a \in Accounts, CreateDraft(d, a) \/ UpdateDraft(d, a)
      PROVE  Typed'
  BY <1>0, <1>1 DEF CreateDraft, UpdateDraft, disk, history
<1>2. ASSUME NEW c \in Clients, NEW d \in Drafts, ListForDelete(c, d) PROVE Typed'
  BY <1>0, <1>2 DEF ListForDelete, AttachmentsOf, ClientType, tables, disk, history
<1>3. ASSUME NEW c \in Clients, NEW d \in Drafts, NEW b \in Blobs, CheckUpload(c, d, b)
      PROVE  Typed'
  BY <1>0, <1>3 DEF CheckUpload, ClientType, tables, history
<1>4. ASSUME NEW c \in Clients, NEW d \in Drafts, NEW b \in Blobs, DeleteDraftAttachment(c, d, b)
      PROVE  Typed'
  BY <1>0, <1>4 DEF DeleteDraftAttachment, ClientType, disk, history
<1>5. ASSUME NEW c \in Clients, AddDraftAttachment(c) PROVE Typed'
  <2>1. records' \in [Blobs -> Holders]
    BY <1>5 DEF AddDraftAttachment, ClientType
  <2>2. ClientTypes'
    BY <1>5 DEF AddDraftAttachment, IdleClient, ClientType, disk
  <2> QED
    BY <1>0, <1>5, <2>1, <2>2 DEF AddDraftAttachment, disk, history
<1>6. ASSUME NEW c \in Clients, DeleteDraft(c) PROVE Typed'
  <2>1. records' \in [Blobs -> Holders] /\ account' \in [Drafts -> Owners]
    BY <1>6 DEF DeleteDraft, WithoutRecordsOf
  <2>2. ClientTypes'
    BY <1>6 DEF DeleteDraft, IdleClient, ClientType, disk
  <2>3. client[c].draft \in Drafts
    BY <1>6 DEF DeleteDraft
  <2> QED
    BY <1>0, <1>6, <2>1, <2>2, <2>3 DEF DeleteDraft, disk
<1>7. ASSUME NEW c \in Clients, RemoveFiles(c) PROVE Typed'
  BY <1>0, <1>7 DEF RemoveFiles, IdleClient, ClientType, tables, history
<1>8. ASSUME NEW c \in Clients, UploadFile(c) PROVE Typed'
  BY <1>0, <1>8 DEF UploadFile, ClientType, tables, history
<1> QED
  BY <1>1, <1>2, <1>3, <1>4, <1>5, <1>6, <1>7, <1>8 DEF Request

(* The worker moves; where it goes it keeps its row.                        *)
LEMMA WorkerMoves ==
  ASSUME Typed, worker.pc # "idle", NEW pc \in WorkerPCs, Move(pc), DOMAIN outbox' = DOMAIN outbox
  PROVE  /\ WorkerTypeOK' /\ worker'.pc = pc /\ worker'.row = worker.row
         /\ worker'.attachments = worker.attachments /\ worker.row \in DOMAIN outbox
<1>1. worker' = [pc |-> pc, row |-> worker.row, attachments |-> worker.attachments]
  BY DEF Move, Typed, WorkerTypeOK, WorkerType
<1> QED
  BY <1>1 DEF Typed, WorkerTypeOK, WorkerType

LEMMA WorkerRests ==
  ASSUME worker' = IdleWorker
  PROVE  WorkerTypeOK' /\ worker'.pc = "idle" /\ worker'.row = 0 /\ worker'.attachments = {}
BY OutboxAssumption DEF IdleWorker, WorkerTypeOK, WorkerType, WorkerPCs

LEMMA FaultTyped ==
  ASSUME faults \in 0..MaxFaults, Fault \/ UNCHANGED faults PROVE faults' \in 0..MaxFaults
BY OutboxAssumption DEF Fault

(* What each step of the worker does to the outbox and to the worker.       *)
SameOutbox == UNCHANGED outbox /\ SameRows
LEMMA OutboxUnchanged == ASSUME Typed, UNCHANGED outbox PROVE SameOutbox
BY DEF SameOutbox, SameRows, Typed, OutboxType

OnlyRow(i, s) ==
  /\ SameRows /\ outbox'[i].state = s
  /\ \A k \in DOMAIN outbox : k # i => outbox'[k].state = outbox[k].state
KeepsItsRow(pc) ==
  /\ WorkerTypeOK' /\ worker'.pc = pc /\ worker'.row = worker.row /\ worker.row \in DOMAIN outbox
Rests == WorkerTypeOK' /\ worker'.pc = "idle" /\ worker'.row = 0 /\ worker'.attachments = {}

LEMMA ClaimDoes ==
  ASSUME Typed, ClaimOutbox
  PROVE  \E i \in DOMAIN outbox :
           /\ worker.pc = "idle" /\ outbox[i].state = "queued" /\ OnlyRow(i, "sending")
           /\ WorkerTypeOK' /\ worker'.row = i /\ worker'.pc \in {"claimed", "failed"}
           /\ worker'.attachments = {}
           /\ UNCHANGED <<account, created, records, files, uploaded, client, delivered, discarded,
                          moved, faults>>
<1>1. PICK i \in DOMAIN outbox :
        /\ worker.pc = "idle" /\ Claimable(i) /\ outbox' = [outbox EXCEPT ![i].state = "sending"]
        /\ worker' = [IdleWorker EXCEPT !.row = i,
             !.pc = IF Exists(outbox[i].draft) THEN "claimed" ELSE "failed"]
        /\ UNCHANGED <<account, created, records, disk, client, history, faults>>
  BY DEF ClaimOutbox
<1>2. OnlyRow(i, "sending")
  BY <1>1, RowSet DEF OnlyRow, RowStates
<1>3. i \in 0..MaxRows
  BY RowsAreTyped, OutboxAssumption DEF Typed, OutboxType
<1>4. worker' = [pc |-> IF Exists(outbox[i].draft) THEN "claimed" ELSE "failed", row |-> i,
                 attachments |-> {}]
  BY <1>1 DEF IdleWorker
<1>5. /\ WorkerTypeOK' /\ worker'.row = i /\ worker'.pc \in {"claimed", "failed"}
      /\ worker'.attachments = {}
  BY <1>2, <1>3, <1>4 DEF WorkerTypeOK, WorkerType, WorkerPCs, OnlyRow, SameRows
<1> QED
  BY <1>1, <1>2, <1>5 DEF Claimable, disk, history

(* Reading the draft and its attachments, and building the message.         *)
Prepare == LoadDraft \/ ReadAttachments \/ BuildMessage
LEMMA PrepareDoes ==
  ASSUME Typed, Prepare
  PROVE  /\ worker.pc \in {"claimed", "loaded", "listed"} /\ SameOutbox
         /\ \E pc \in {"loaded", "listed", "built", "failed"} : KeepsItsRow(pc)
         /\ UNCHANGED <<account, created, records, files, uploaded, client, delivered, discarded,
                        moved, faults>>
<1>1. /\ worker.pc \in {"claimed", "loaded", "listed"}
      /\ UNCHANGED <<account, created, records, files, uploaded, client, delivered, discarded,
                     moved, faults, outbox>>
  BY DEF Prepare, LoadDraft, ReadAttachments, BuildMessage, tables, disk, history
<1>2. \E pc \in {"loaded", "listed", "built", "failed"} : KeepsItsRow(pc)
  <2>1. CASE \E pc \in {"loaded", "built", "failed"} : Move(pc)
    BY <1>1, <2>1, WorkerMoves DEF KeepsItsRow, WorkerPCs
  <2>2. CASE ReadAttachments
    <3>1. worker' = [pc |-> "listed", row |-> worker.row, attachments |-> AttachmentsOf(Draft)]
      BY <2>2 DEF ReadAttachments, Typed, WorkerTypeOK, WorkerType
    <3> QED
      BY <1>1, <3>1 DEF KeepsItsRow, Typed, WorkerTypeOK, WorkerType, WorkerPCs, AttachmentsOf
  <2>3. CASE LoadDraft \/ BuildMessage
    BY <2>1, <2>3 DEF LoadDraft, BuildMessage
  <2> QED
    BY <2>2, <2>3 DEF Prepare
<1> QED
  BY <1>1, <1>2, OutboxUnchanged

LEMMA SendDoes ==
  ASSUME Typed, SendMessage
  PROVE  /\ worker.pc = "built" /\ SameOutbox /\ Draft \in Drafts
         /\ \/ /\ \E pc \in {"accepted", "unknown"} : KeepsItsRow(pc)
               /\ delivered' = [delivered EXCEPT ![Draft] = @ + 1]
            \/ /\ \E pc \in {"failed", "unknown"} : KeepsItsRow(pc)
               /\ UNCHANGED delivered
         /\ worker'.attachments = worker.attachments
         /\ UNCHANGED <<account, created, records, files, uploaded, client, discarded, moved, faults>>
<1>1. /\ worker.pc = "built" /\ SameOutbox
      /\ UNCHANGED <<account, created, records, files, uploaded, client, discarded, moved, faults>>
  BY OutboxUnchanged DEF SendMessage, tables, disk
<1>2. PICK accepted \in BOOLEAN :
        /\ delivered' = IF accepted THEN [delivered EXCEPT ![Draft] = @ + 1] ELSE delivered
        /\ Move(IF accepted THEN "accepted" ELSE "failed") \/ Move("unknown")
  BY DEF SendMessage
<1>3. \A pc \in WorkerPCs : Move(pc) =>
        KeepsItsRow(pc) /\ worker'.attachments = worker.attachments
  BY <1>1, WorkerMoves DEF KeepsItsRow, SameOutbox
<1>4. Draft \in Drafts
  BY <1>1, RowsAreTyped DEF Typed, WorkerTypeOK, Draft, RowType
<1> QED
  BY <1>1, <1>2, <1>3, <1>4 DEF WorkerPCs

LEMMA MarkSentDoes ==
  ASSUME Typed, MarkOutboxSent
  PROVE  /\ worker.pc = "accepted" /\ OnlyRow(worker.row, "sent") /\ KeepsItsRow("sent")
         /\ worker'.attachments = worker.attachments /\ outbox[worker.row].state = "sending"
         /\ UNCHANGED <<created, files, uploaded, client, delivered, discarded, moved, faults>>
<1>1. /\ worker.pc = "accepted" /\ outbox[worker.row].state = "sending" /\ Move("sent")
      /\ outbox' = [outbox EXCEPT ![worker.row].state = "sent"]
      /\ UNCHANGED <<created, files, uploaded, client, delivered, discarded, moved, faults>>
  BY DEF MarkOutboxSent, disk, history
<1>2. worker.row \in DOMAIN outbox
  BY <1>1 DEF Typed, WorkerTypeOK
<1>3. OnlyRow(worker.row, "sent")
  BY <1>1, <1>2, RowSet DEF OnlyRow, RowStates
<1> QED
  BY <1>1, <1>3, WorkerMoves DEF KeepsItsRow, OnlyRow, SameRows, WorkerPCs

LEMMA MarkFailsDoes ==
  ASSUME Typed, MarkFails
  PROVE  /\ worker.pc = "accepted" /\ SameOutbox /\ KeepsItsRow("unknown")
         /\ worker'.attachments = worker.attachments /\ faults' \in 0..MaxFaults
         /\ UNCHANGED <<account, created, records, files, uploaded, client, delivered, discarded,
                        moved>>
<1>1. /\ worker.pc = "accepted" /\ SameOutbox /\ Move("unknown") /\ Fault
      /\ UNCHANGED <<account, created, records, files, uploaded, client, delivered, discarded, moved>>
  BY OutboxUnchanged DEF MarkFails, tables, disk, history
<1> QED
  BY <1>1, WorkerMoves, FaultTyped DEF KeepsItsRow, SameOutbox, WorkerPCs, Typed, HistoryTypes

LEMMA RemoveBlobsDoes ==
  ASSUME Typed, RemoveBlobs
  PROVE  /\ worker.pc = "sent" /\ SameOutbox /\ Rests /\ files' = files \ worker.attachments
         /\ UNCHANGED <<account, created, records, uploaded, client, delivered, discarded, moved,
                        faults>>
BY OutboxUnchanged, WorkerRests DEF RemoveBlobs, Rests, tables, history

LEMMA FinishDoes ==
  ASSUME Typed, FinishOutbox
  PROVE  /\ worker.pc \in {"failed", "unknown"} /\ Rests /\ faults' \in 0..MaxFaults
         /\ SameOutbox \/ (outbox[worker.row].state = "sending" /\ OnlyRow(worker.row, worker.pc))
         /\ UNCHANGED <<account, created, records, files, uploaded, client, delivered, discarded,
                        moved>>
<1>1. /\ worker.pc \in {"failed", "unknown"} /\ worker' = IdleWorker
      /\ UNCHANGED <<account, created, records, files, uploaded, client, delivered, discarded, moved>>
      /\ Fault \/ UNCHANGED faults
      /\ \/ UNCHANGED outbox
         \/ /\ outbox[worker.row].state = "sending"
            /\ outbox' = [outbox EXCEPT ![worker.row].state = worker.pc]
  BY DEF FinishOutbox, disk, history
<1>2. worker.row \in DOMAIN outbox /\ worker.pc \in RowStates
  BY <1>1 DEF Typed, WorkerTypeOK, RowStates
<1>3. outbox' = [outbox EXCEPT ![worker.row].state = worker.pc] => OnlyRow(worker.row, worker.pc)
  BY <1>2, RowSet DEF OnlyRow
<1> QED
  BY <1>1, <1>3, OutboxUnchanged, WorkerRests, FaultTyped DEF Rests, Typed, HistoryTypes

LEMMA RestartDoes ==
  ASSUME Typed, Restart
  PROVE  /\ Rests /\ faults' \in 0..MaxFaults /\ client' = [c \in Clients |-> IdleClient]
         /\ UNCHANGED <<account, created, records, files, uploaded, delivered, discarded, moved>>
BY WorkerRests, FaultTyped DEF Restart, Rests, disk, history, Typed, HistoryTypes

LEMMA DeletedAccountTyped ==
  ASSUME Typed, NEW a \in Accounts, DeleteAccount(a) PROVE Typed'
<1>1. SameRows
  BY DeletedRows
<1>2. DraftTypes'
  BY DEF DeleteAccount, Typed, DraftTypes, Owners, Holders
<1>3. UNCHANGED <<files, uploaded, worker, client, delivered, moved, faults>>
  BY DEF DeleteAccount, disk
<1>4. discarded' \subseteq Drafts
  BY DEF DeleteAccount, Typed, HistoryTypes
<1> QED
  BY <1>1, <1>2, <1>3, <1>4 DEF Typed, SameRows, WorkerTypeOK, FileTypes, HistoryTypes, ClientTypes

LEMMA QueuedTyped ==
  ASSUME Typed, NEW d \in Drafts, QueueDraft(d)
  PROVE  /\ Typed' /\ Len(outbox) < MaxRows /\ Exists(d) /\ MayQueue(d)
         /\ account[d] \in Accounts /\ outbox' = Append(outbox, Row(d, account[d]))
         /\ UNCHANGED <<account, created, records, files, uploaded, worker, client, delivered,
                        discarded, moved, faults>>
<1>1. /\ Len(outbox) < MaxRows /\ Exists(d) /\ MayQueue(d) /\ account[d] \in Accounts
      /\ outbox' = Append(outbox, Row(d, account[d]))
      /\ UNCHANGED <<account, created, records, files, uploaded, worker, client, delivered, discarded,
                     moved, faults>>
  BY DEF QueueDraft, disk, history, Exists, Typed, DraftTypes, Owners
<1>2. OutboxType' /\ DOMAIN outbox \subseteq DOMAIN outbox'
  BY <1>1, RowAdded
<1> QED
  BY <1>1, <1>2 DEF Typed, WorkerTypeOK, DraftTypes, FileTypes, HistoryTypes, ClientTypes

LEMMA WorkerTyped == ASSUME Typed, WorkerStep \/ Restart PROVE Typed'
<1> USE DEF DraftTypes, FileTypes, HistoryTypes, ClientTypes
<1>1. CASE ClaimOutbox
  BY <1>1, ClaimDoes DEF Typed, OnlyRow, SameRows
<1>2. CASE Prepare
  BY <1>2, PrepareDoes DEF Typed, SameOutbox, SameRows, KeepsItsRow
<1>3. CASE SendMessage
  <2>1. delivered' \in [Drafts -> Nat]
    BY <1>3, SendDoes DEF Typed
  <2> QED
    BY <1>3, <2>1, SendDoes DEF Typed, SameOutbox, SameRows, KeepsItsRow
<1>4. CASE MarkOutboxSent
  <2>1. account' \in [Drafts -> Owners] /\ records' \in [Blobs -> Holders]
    BY <1>4 DEF MarkOutboxSent, WithoutRecordsOf, Typed, Owners, Holders
  <2> QED
    BY <1>4, <2>1, MarkSentDoes DEF Typed, OnlyRow, SameRows, KeepsItsRow
<1>5. CASE MarkFails
  BY <1>5, MarkFailsDoes DEF Typed, SameOutbox, SameRows, KeepsItsRow
<1>6. CASE RemoveBlobs
  BY <1>6, RemoveBlobsDoes DEF Typed, SameOutbox, SameRows, Rests
<1>7. CASE FinishOutbox
  BY <1>7, FinishDoes DEF Typed, SameOutbox, OnlyRow, SameRows, Rests
<1>8. CASE Restart
  <2>1. ClientTypes'
    BY <1>8, RestartDoes DEF IdleClient, ClientType, Holders
  <2> QED
    BY <1>8, <2>1, RestartDoes, RecoveredRows DEF Typed, SameRows, Rests
<1> QED
  BY <1>1, <1>2, <1>3, <1>4, <1>5, <1>6, <1>7, <1>8 DEF WorkerStep, Prepare

LEMMA TypedStep == ASSUME Typed, [Next]_vars PROVE Typed'
<1>1. CASE UNCHANGED vars
  BY <1>1 DEF vars, tables, disk, history, Typed, OutboxType, WorkerTypeOK, DraftTypes, FileTypes,
     HistoryTypes, ClientTypes
<1>2. CASE Next
  BY <1>2, Steps, RequestTyped, QueuedTyped, DeletedAccountTyped, WorkerTyped
<1> QED
  BY <1>1, <1>2

LEMMA AlwaysTyped == Spec => []Typed
BY TypedStarts, TypedStep, PTL DEF Spec

(* Every reachable state is well typed.                                     *)
THEOREM OutboxTypeCorrect == Spec => []TypeOK
BY AlwaysTyped, TypedIsTypeOK, PTL

-----------------------------------------------------------------------------
(* Deliveries.  A draft all of whose rows are waiting, have failed, or are  *)
(* in the worker's hands and not yet with a mail server, has never been     *)
(* accepted.  As long as no row was deleted all but the newest have failed, *)
(* so there is one delivery at a time.                                      *)
BeforeAcceptance == {"claimed", "loaded", "listed", "built", "failed"}
Undelivered(i) ==
  \/ outbox[i].state \in {"queued", "failed"}
  \/ i = worker.row /\ outbox[i].state = "sending" /\ worker.pc \in BeforeAcceptance
NotYet ==
  \A d \in Drafts :
    (\A i \in DOMAIN outbox : outbox[i].draft = d => Undelivered(i)) => delivered[d] = 0
OlderFailed ==
  \A i, k \in DOMAIN outbox :
    i < k /\ outbox[i].draft = outbox[k].draft /\ Recorded(outbox[i].draft) =>
      outbox[i].state = "failed"
Accepted ==
  /\ worker.pc = "accepted" => delivered[Draft] > 0
  /\ \A i \in DOMAIN outbox : outbox[i].state = "sent" => delivered[outbox[i].draft] > 0

DeliveryInv == InFlightRowKept /\ OlderFailed /\ NotYet /\ Accepted /\ NeverDeliveredTwice

LEMMA DeliveryStarts == Init => DeliveryInv
BY DEF Init, DeliveryInv, InFlightRowKept, OlderFailed, NotYet, Accepted, NeverDeliveredTwice,
   IdleWorker

(* A step that accepts nothing and neither revives a row nor makes one      *)
(* that has failed anything else than gone.                                 *)
LEMMA NothingAccepted ==
  ASSUME Typed, DeliveryInv, SameRows, UNCHANGED delivered,
         \A k \in DOMAIN outbox :
           /\ outbox[k].state = "gone" => outbox'[k].state = "gone"
           /\ outbox[k].state = "failed" => outbox'[k].state \in {"failed", "gone"}
           /\ Undelivered(k)' => Undelivered(k)
  PROVE  OlderFailed' /\ NotYet' /\ NeverDeliveredTwice'
<1>1. \A d \in Drafts : Recorded(d)' => Recorded(d)
  BY DEF Recorded, SameRows
<1>2. \A k \in DOMAIN outbox : outbox[k].draft \in Drafts
  BY RowsAreTyped DEF RowType
<1>3. OlderFailed'
  <2> SUFFICES ASSUME NEW i \in DOMAIN outbox, NEW k \in DOMAIN outbox, i < k,
                      outbox[i].draft = outbox[k].draft, Recorded(outbox[i].draft)'
               PROVE  outbox'[i].state = "failed"
    BY DEF OlderFailed, SameRows
  <2>1. outbox'[i].draft = outbox[i].draft
    BY DEF SameRows
  <2>2. Recorded(outbox[i].draft)
    BY <1>2, <2>1 DEF Recorded, SameRows
  <2>3. outbox[i].state = "failed"
    BY <2>2 DEF DeliveryInv, OlderFailed
  <2>4. outbox'[i].state # "gone"
    BY <2>1 DEF Recorded, SameRows
  <2> QED
    BY <2>3, <2>4
<1>4. NotYet'
  BY DEF NotYet, DeliveryInv, SameRows
<1>5. NeverDeliveredTwice'
  BY <1>1 DEF NeverDeliveredTwice, DeliveryInv
<1> QED
  BY <1>3, <1>4, <1>5

(* A new row of a draft none of whose rows may still be delivered.          *)
LEMMA QueueKeepsDelivery ==
  ASSUME Typed, DeliveryInv, NEW d \in Drafts, QueueDraft(d) PROVE DeliveryInv'
<1> DEFINE n == Len(outbox) + 1
<1>1. /\ Len(outbox) \in Nat /\ DOMAIN outbox = 1..Len(outbox)
      /\ \A k \in DOMAIN outbox : outbox[k] \in RowType
  BY RowsAreTyped
<1>2. /\ MayQueue(d) /\ UNCHANGED <<worker, delivered>>
      /\ DOMAIN outbox' = DOMAIN outbox \cup {n}
      /\ \A k \in DOMAIN outbox : outbox'[k] = outbox[k]
      /\ outbox'[n].draft = d /\ outbox'[n].state = "queued"
  <2>1. /\ MayQueue(d) /\ UNCHANGED <<worker, delivered>> /\ account[d] \in Accounts
        /\ Len(outbox) < MaxRows /\ outbox' = Append(outbox, Row(d, account[d]))
    BY QueuedTyped
  <2>2. /\ DOMAIN outbox' = DOMAIN outbox \cup {n}
        /\ \A k \in DOMAIN outbox : outbox'[k] = outbox[k]
        /\ outbox'[n] = Row(d, account[d])
    BY <2>1, RowAdded
  <2> QED
    BY <2>1, <2>2 DEF Row
<1>3. worker.pc # "idle" => worker.row \in DOMAIN outbox
  BY DEF Typed, WorkerTypeOK
<1>4. \A e \in Drafts : Recorded(e)' <=> Recorded(e)
  BY <1>2 DEF Recorded
<1>5. Recorded(d) => \A i \in DOMAIN outbox : outbox[i].draft = d => outbox[i].state = "failed"
  <2> SUFFICES ASSUME Recorded(d), NEW i \in DOMAIN outbox, outbox[i].draft = d
               PROVE  outbox[i].state = "failed"
    OBVIOUS
  <2>1. i \in RowsOf(d)
    BY DEF Recorded, RowsOf
  <2>2. CASE IsNewestRow(i, d)
    BY <2>1, <2>2, <1>2 DEF MayQueue
  <2>3. CASE ~IsNewestRow(i, d)
    <3>1. PICK k \in RowsOf(d) : ~(k <= i)
      BY <2>1, <2>3 DEF IsNewestRow
    <3>2. k \in DOMAIN outbox /\ i < k /\ outbox[k].draft = d
      BY <1>1, <3>1 DEF RowsOf
    <3> QED
      BY <3>2 DEF DeliveryInv, OlderFailed
  <2> QED
    BY <2>2, <2>3
<1> HIDE DEF n
<1>6. n \in Nat /\ n \notin DOMAIN outbox /\ \A k \in DOMAIN outbox : k < n /\ k \in Nat
  BY <1>1 DEF n
<1>7. OlderFailed'
  <2> SUFFICES ASSUME NEW i \in DOMAIN outbox', NEW k \in DOMAIN outbox', i < k,
                      outbox'[i].draft = outbox'[k].draft, Recorded(outbox[i].draft)'
               PROVE  outbox'[i].state = "failed"
    BY DEF OlderFailed
  <2>0. i \in DOMAIN outbox
    <3>1. CASE i = n
      <4>1. (k < n \/ k = n) /\ k \in Nat
        BY <1>2, <1>6
      <4> QED
        BY <1>6, <3>1, <4>1
    <3> QED
      BY <1>2, <3>1
  <2>1. i \in DOMAIN outbox /\ outbox'[i] = outbox[i] /\ outbox[i].draft \in Drafts
    BY <1>1, <1>2, <2>0 DEF RowType
  <2>2. Recorded(outbox[i].draft)
    BY <1>2, <2>1 DEF Recorded
  <2>3. CASE k = n
    BY <1>2, <1>5, <2>1, <2>2, <2>3
  <2>4. CASE k # n
    BY <1>2, <2>1, <2>2, <2>4 DEF DeliveryInv, OlderFailed
  <2> QED
    BY <2>3, <2>4
<1>8. NotYet'
  BY <1>2 DEF NotYet, DeliveryInv, Undelivered
<1>9. InFlightRowKept'
  BY <1>2, <1>3 DEF DeliveryInv, InFlightRowKept
<1>10. Accepted' /\ NeverDeliveredTwice'
  BY <1>2, <1>3, <1>4 DEF DeliveryInv, Accepted, NeverDeliveredTwice, Draft
<1> QED
  BY <1>7, <1>8, <1>9, <1>10 DEF DeliveryInv

(* The one step at which a mail server accepts a message: nothing of the    *)
(* draft can have been accepted before.                                     *)
LEMMA SendKeepsDelivery == ASSUME Typed, DeliveryInv, SendMessage PROVE DeliveryInv'
<1>1. /\ worker.pc = "built" /\ SameOutbox /\ Draft \in Drafts
      /\ worker.row \in DOMAIN outbox /\ worker'.row = worker.row /\ Draft' = Draft
  BY SendDoes DEF KeepsItsRow, Draft, SameOutbox
<1>2. /\ Len(outbox) \in Nat /\ DOMAIN outbox = 1..Len(outbox)
      /\ \A k \in DOMAIN outbox : outbox[k] \in RowType
  BY RowsAreTyped
<1>3. outbox[worker.row].state = "sending" /\ InFlightRowKept'
  BY <1>1, SendDoes DEF DeliveryInv, InFlightRowKept, SameOutbox
<1>4. CASE UNCHANGED delivered /\ worker'.pc \in {"failed", "unknown"}
  <2>1. \A k \in DOMAIN outbox : Undelivered(k)' => Undelivered(k)
    BY <1>1, <1>3, <1>4 DEF Undelivered, BeforeAcceptance, SameOutbox
  <2>2. OlderFailed' /\ NotYet' /\ NeverDeliveredTwice'
    BY <1>1, <1>4, <2>1, NothingAccepted DEF SameOutbox
  <2>3. Accepted'
    BY <1>1, <1>4 DEF DeliveryInv, Accepted, SameOutbox
  <2> QED
    BY <1>3, <2>2, <2>3 DEF DeliveryInv
<1>5. CASE /\ worker'.pc \in {"accepted", "unknown"}
           /\ delivered' = [delivered EXCEPT ![Draft] = @ + 1]
  <2>1. /\ delivered'[Draft] = delivered[Draft] + 1 /\ delivered[Draft] \in Nat
        /\ \A d \in Drafts : d # Draft => delivered'[d] = delivered[d]
        /\ \A d \in Drafts : delivered[d] \in Nat /\ delivered'[d] >= delivered[d]
    BY <1>1, <1>5 DEF Typed, HistoryTypes
  <2>2. Recorded(Draft) => delivered[Draft] = 0
    <3> SUFFICES ASSUME Recorded(Draft), NEW i \in DOMAIN outbox, outbox[i].draft = Draft
                 PROVE  Undelivered(i)
      BY <1>1 DEF DeliveryInv, NotYet
    <3>1. CASE i = worker.row
      BY <1>1, <1>3, <3>1 DEF Undelivered, BeforeAcceptance
    <3>2. CASE i < worker.row
      BY <1>1, <3>2 DEF DeliveryInv, OlderFailed, Undelivered, Draft
    <3>3. CASE worker.row < i
      <4>1. outbox[worker.row].state = "failed"
        BY <1>1, <3>3 DEF DeliveryInv, OlderFailed, Draft
      <4> QED
        BY <1>3, <4>1
    <3> QED
      BY <1>1, <1>2, <3>1, <3>2, <3>3
  <2>3. \A d \in Drafts : Recorded(d)' <=> Recorded(d)
    BY <1>1 DEF Recorded, SameOutbox
  <2>4. NeverDeliveredTwice'
    BY <1>1, <2>1, <2>2, <2>3 DEF DeliveryInv, NeverDeliveredTwice
  <2>5. OlderFailed'
    BY <1>1 DEF DeliveryInv, OlderFailed, Recorded, SameOutbox
  <2>6. NotYet'
    <3> SUFFICES ASSUME NEW d \in Drafts,
                        \A i \in DOMAIN outbox : outbox[i].draft = d => Undelivered(i)'
                 PROVE  delivered'[d] = 0
      BY <1>1 DEF NotYet, SameOutbox
    <3>1. ~Undelivered(worker.row)'
      BY <1>1, <1>3, <1>5 DEF Undelivered, BeforeAcceptance, SameOutbox
    <3>2. d # Draft
      BY <1>1, <3>1 DEF Draft
    <3>3. \A i \in DOMAIN outbox : outbox[i].draft = d => Undelivered(i)
      BY <1>1, <3>1 DEF Undelivered, SameOutbox
    <3> QED
      BY <2>1, <3>2, <3>3 DEF DeliveryInv, NotYet
  <2>7. Accepted'
    BY <1>1, <1>2, <2>1 DEF DeliveryInv, Accepted, SameOutbox, RowType
  <2> QED
    BY <1>3, <2>4, <2>5, <2>6, <2>7 DEF DeliveryInv
<1> QED
  BY <1>4, <1>5, SendDoes DEF KeepsItsRow

LEMMA WorkerKeepsDelivery ==
  ASSUME Typed, DeliveryInv, WorkerStep \/ Restart PROVE DeliveryInv'
<1> USE DEF InFlightRowKept, Accepted, Undelivered, BeforeAcceptance, SameRows
<1>0. /\ InFlightRowKept /\ Accepted
      /\ \A k \in DOMAIN outbox : outbox[k].draft \in Drafts
  BY RowsAreTyped DEF DeliveryInv, RowType
<1> SUFFICES \/ OlderFailed' /\ NotYet' /\ NeverDeliveredTwice' /\ InFlightRowKept' /\ Accepted'
             \/ SendMessage
  BY SendKeepsDelivery DEF DeliveryInv
<1>1. CASE ClaimOutbox
  BY <1>0, <1>1, ClaimDoes, NothingAccepted DEF OnlyRow
<1>2. CASE Prepare
  BY <1>0, <1>2, PrepareDoes, NothingAccepted DEF SameOutbox, KeepsItsRow
<1>3. CASE MarkOutboxSent
  <2>1. delivered[outbox[worker.row].draft] > 0
    BY <1>0, <1>3, MarkSentDoes DEF Draft
  <2> QED
    BY <1>0, <1>3, <2>1, MarkSentDoes, NothingAccepted DEF OnlyRow, KeepsItsRow
<1>4. CASE MarkFails
  BY <1>0, <1>4, MarkFailsDoes, NothingAccepted DEF SameOutbox, KeepsItsRow
<1>5. CASE RemoveBlobs
  BY <1>0, <1>5, RemoveBlobsDoes, NothingAccepted DEF SameOutbox, Rests
<1>6. CASE FinishOutbox
  <2>1. worker.row \in DOMAIN outbox
    BY <1>6, FinishDoes DEF Typed, WorkerTypeOK
  <2>2. CASE SameOutbox
    BY <1>0, <1>6, <2>2, FinishDoes, NothingAccepted DEF SameOutbox, Rests
  <2>3. CASE outbox[worker.row].state = "sending" /\ OnlyRow(worker.row, worker.pc)
    BY <1>0, <1>6, <2>1, <2>3, FinishDoes, NothingAccepted DEF OnlyRow, Rests
  <2> QED
    BY <1>6, <2>2, <2>3, FinishDoes
<1>7. CASE Restart
  BY <1>0, <1>7, RestartDoes, RecoveredRows, NothingAccepted DEF Rests
<1> QED
  BY <1>1, <1>2, <1>3, <1>4, <1>5, <1>6, <1>7 DEF WorkerStep, Prepare

LEMMA DeliveryStep == ASSUME Typed, DeliveryInv, [Next]_vars PROVE DeliveryInv'
<1>1. CASE UNCHANGED <<outbox, worker, delivered>>
  BY <1>1 DEF DeliveryInv, InFlightRowKept, OlderFailed, NotYet, Accepted, NeverDeliveredTwice,
     Recorded, Undelivered, Draft
<1>2. CASE \E a \in Accounts : DeleteAccount(a)
  <2>1. PICK a \in Accounts : DeleteAccount(a)
    BY <1>2
  <2>2. /\ SameRows /\ UNCHANGED <<worker, delivered>>
        /\ \A k \in DOMAIN outbox :
             /\ outbox'[k].state = IF outbox[k].account = a THEN "gone" ELSE outbox[k].state
             /\ outbox[k].state = "sending" => outbox[k].account # a
    BY <2>1, DeletedRows DEF DeleteAccount, AccountBusy
  <2>3. OlderFailed' /\ NotYet' /\ NeverDeliveredTwice'
    BY <2>2, NothingAccepted DEF Undelivered
  <2>4. worker.pc # "idle" => worker.row \in DOMAIN outbox
    BY DEF Typed, WorkerTypeOK
  <2>5. InFlightRowKept' /\ Accepted'
    BY <2>2, <2>4 DEF DeliveryInv, InFlightRowKept, Accepted, Draft, SameRows
  <2> QED
    BY <2>3, <2>5 DEF DeliveryInv
<1>3. CASE Next
  BY <1>1, <1>2, <1>3, Steps, RequestsAreQuiet, QueueKeepsDelivery, WorkerKeepsDelivery
<1> QED
  BY <1>1, <1>3 DEF vars, tables, history

LEMMA DeliveryHolds == Spec => [](Typed /\ DeliveryInv)
<1>1. Init => Typed /\ DeliveryInv
  BY TypedStarts, DeliveryStarts
<1>2. Typed /\ DeliveryInv /\ [Next]_vars => (Typed /\ DeliveryInv)'
  BY TypedStep, DeliveryStep
<1> QED
  BY <1>1, <1>2, PTL DEF Spec

(* Whatever fails, is restarted, moved or asked for again: no mail server   *)
(* accepts a draft twice while the record of the first time is there.       *)
THEOREM DeliveredOnce == Spec => []NeverDeliveredTwice
<1>1. Typed /\ DeliveryInv => NeverDeliveredTwice
  BY DEF DeliveryInv
<1> QED
  BY <1>1, DeliveryHolds, PTL

(* What the outbox says became of a message is so, and from claim to        *)
(* outcome there is a row to say it.                                        *)
THEOREM OutcomesKnown == Spec => []OutcomesAreTrue
<1>1. ASSUME Typed, DeliveryInv PROVE OutcomesAreTrue
  <2>1. /\ Len(outbox) \in Nat /\ DOMAIN outbox = 1..Len(outbox)
        /\ \A k \in DOMAIN outbox : outbox[k].draft \in Drafts
    BY <1>1, RowsAreTyped DEF RowType
  <2>2. ASSUME NEW i \in DOMAIN outbox, Recorded(outbox[i].draft),
               outbox[i].state \in {"queued", "failed"}, IsNewestRow(i, outbox[i].draft)
        PROVE  delivered[outbox[i].draft] = 0
    <3> SUFFICES ASSUME NEW k \in DOMAIN outbox, outbox[k].draft = outbox[i].draft
                 PROVE  Undelivered(k)
      BY <1>1, <2>1 DEF DeliveryInv, NotYet
    <3>1. k \in RowsOf(outbox[i].draft)
      BY <2>2 DEF RowsOf, Recorded
    <3>2. k = i \/ k < i
      BY <2>1, <2>2, <3>1 DEF IsNewestRow
    <3> QED
      BY <1>1, <2>2, <3>2 DEF DeliveryInv, OlderFailed, Undelivered
  <2> QED
    BY <1>1, <2>2 DEF OutcomesAreTrue, OutcomeIsTrue, DeliveryInv, Accepted
<1> QED
  BY <1>1, DeliveryHolds, PTL

-----------------------------------------------------------------------------
(* Drafts.  The worker's draft is still where it was found, or a user has   *)
(* deleted or moved it; so a delivery that leaves its draft behind is that  *)
(* of a draft that was moved.  An ID is given once.                         *)
InDelivery == {"loaded", "listed", "built", "accepted"}
Known ==
  /\ \A d \in Drafts : Exists(d) => d \in created
  /\ \A k \in DOMAIN outbox : outbox[k].draft \in created
StillThere ==
  worker.pc \in InDelivery =>
    account[Draft] \in {Nobody, outbox[worker.row].account} \/ Draft \in moved

DraftInv == Known /\ StillThere /\ DraftsAreKept /\ UnmovedDraftsAreGone

LEMMA DraftsStart == Init => DraftInv
BY DEF Init, DraftInv, Known, StillThere, DraftsAreKept, UnmovedDraftsAreGone, Leaves, RowsOf,
   Exists, IdleWorker, InDelivery

(* A step that loses drafts only to users and deliveries, and the drafts of *)
(* sent rows unless they were moved.                                        *)
LEMMA DraftsLost ==
  ASSUME Typed, DraftInv, SameRows, UNCHANGED <<created, moved>>, discarded \subseteq discarded',
         \A d \in Drafts :
           /\ delivered[d] > 0 => delivered'[d] > 0
           /\ account'[d] = account[d] \/ (account'[d] = Nobody /\ (d \in discarded' \/ delivered'[d] > 0)),
         \A k \in DOMAIN outbox :
           outbox'[k].state = "sent" =>
             outbox[k].state = "sent" \/ account'[outbox[k].draft] = Nobody \/ outbox[k].draft \in moved,
         worker'.pc \in InDelivery =>
           /\ worker'.row = worker.row /\ worker.row \in DOMAIN outbox
           /\ worker.pc \in InDelivery \/ account[Draft] = outbox[worker.row].account
  PROVE  DraftInv'
<1>1. \A k \in DOMAIN outbox : outbox[k].draft \in Drafts
  BY RowsAreTyped DEF RowType
<1>2. created \subseteq Drafts
  BY DEF Typed, DraftTypes
<1>3. Known'
  BY DEF DraftInv, Known, Exists, SameRows
<1>4. StillThere'
  BY <1>1 DEF DraftInv, StillThere, SameRows, Draft
<1>5. DraftsAreKept'
  BY <1>2 DEF DraftInv, DraftsAreKept, Exists
<1>6. UnmovedDraftsAreGone'
  <2> SUFFICES ASSUME NEW d \in Drafts \ moved, NEW i \in DOMAIN outbox, outbox[i].draft = d,
                      outbox'[i].state = "sent"
               PROVE  account'[d] = Nobody
    BY DEF UnmovedDraftsAreGone, Leaves, RowsOf, Exists, SameRows
  <2>1. outbox[i].state = "sent" => account[d] = Nobody
    BY DEF DraftInv, UnmovedDraftsAreGone, Leaves, RowsOf, Exists
  <2> QED
    BY <2>1
<1> QED
  BY <1>3, <1>4, <1>5, <1>6 DEF DraftInv

LEMMA CreateKeepsDrafts ==
  ASSUME Typed, DraftInv, NEW d \in Drafts, NEW a \in Accounts, CreateDraft(d, a) PROVE DraftInv'
<1>1. /\ d \notin created /\ created' = created \cup {d} /\ a # Nobody
      /\ account'[d] = a /\ \A e \in Drafts : e # d => account'[e] = account[e]
      /\ UNCHANGED <<outbox, worker, delivered, discarded, moved>>
  BY OutboxAssumption DEF CreateDraft, history, Typed, DraftTypes
<1>2. \A k \in DOMAIN outbox : outbox[k].draft \in Drafts /\ outbox[k].draft # d
  BY <1>1, RowsAreTyped DEF RowType, DraftInv, Known
<1>3. worker.pc # "idle" => worker.row \in DOMAIN outbox
  BY DEF Typed, WorkerTypeOK
<1>4. created \subseteq Drafts
  BY DEF Typed, DraftTypes
<1>5. Known' /\ DraftsAreKept'
  BY <1>1, <1>4 DEF DraftInv, Known, DraftsAreKept, Exists
<1>6. StillThere'
  BY <1>1, <1>2, <1>3 DEF DraftInv, StillThere, InDelivery, Draft
<1>7. UnmovedDraftsAreGone'
  BY <1>1, <1>2 DEF DraftInv, UnmovedDraftsAreGone, Leaves, RowsOf, Exists
<1> QED
  BY <1>5, <1>6, <1>7 DEF DraftInv

LEMMA UpdateKeepsDrafts ==
  ASSUME Typed, DraftInv, NEW d \in Drafts, NEW a \in Accounts, UpdateDraft(d, a) PROVE DraftInv'
<1>1. /\ Exists(d) /\ a # Nobody
      /\ account'[d] = a /\ \A e \in Drafts : e # d => account'[e] = account[e]
      /\ moved' = IF worker.pc \in InDelivery /\ outbox[worker.row].draft = d
                  THEN moved \cup {d} ELSE moved
      /\ UNCHANGED <<created, outbox, worker, delivered, discarded>>
  BY OutboxAssumption DEF UpdateDraft, InDelivery, Typed, DraftTypes
<1>2. \A k \in DOMAIN outbox : outbox[k].draft \in Drafts
  BY RowsAreTyped DEF RowType
<1>3. worker.pc # "idle" => worker.row \in DOMAIN outbox
  BY DEF Typed, WorkerTypeOK
<1>4. created \subseteq Drafts
  BY DEF Typed, DraftTypes
<1>5. Known' /\ DraftsAreKept'
  BY <1>1, <1>4 DEF DraftInv, Known, DraftsAreKept, Exists
<1>6. StillThere'
  BY <1>1, <1>2, <1>3 DEF DraftInv, StillThere, InDelivery, Draft
<1>7. UnmovedDraftsAreGone'
  BY <1>1, <1>2 DEF DraftInv, UnmovedDraftsAreGone, Leaves, RowsOf, Exists
<1> QED
  BY <1>5, <1>6, <1>7 DEF DraftInv

LEMMA QueueKeepsDrafts ==
  ASSUME Typed, DraftInv, NEW d \in Drafts, QueueDraft(d) PROVE DraftInv'
<1> DEFINE n == Len(outbox) + 1
<1>1. /\ UNCHANGED <<account, created, worker, delivered, discarded, moved>> /\ Exists(d)
      /\ DOMAIN outbox' = DOMAIN outbox \cup {n}
      /\ \A k \in DOMAIN outbox : outbox'[k] = outbox[k]
      /\ outbox'[n].draft = d /\ outbox'[n].state = "queued"
  <2>1. /\ UNCHANGED <<account, created, worker, delivered, discarded, moved>> /\ Exists(d)
        /\ account[d] \in Accounts /\ Len(outbox) < MaxRows
        /\ outbox' = Append(outbox, Row(d, account[d]))
    BY QueuedTyped
  <2>2. /\ DOMAIN outbox' = DOMAIN outbox \cup {n}
        /\ \A k \in DOMAIN outbox : outbox'[k] = outbox[k]
        /\ outbox'[n] = Row(d, account[d])
    BY <2>1, RowAdded
  <2> QED
    BY <2>1, <2>2 DEF Row
<1>2. worker.pc # "idle" => worker.row \in DOMAIN outbox
  BY DEF Typed, WorkerTypeOK
<1> HIDE DEF n
<1>3. Known' /\ DraftsAreKept'
  BY <1>1 DEF DraftInv, Known, DraftsAreKept, Exists
<1>4. StillThere'
  BY <1>1, <1>2 DEF DraftInv, StillThere, InDelivery, Draft
<1>5. UnmovedDraftsAreGone'
  BY <1>1 DEF DraftInv, UnmovedDraftsAreGone, Leaves, RowsOf, Exists
<1> QED
  BY <1>3, <1>4, <1>5 DEF DraftInv

LEMMA RequestKeepsDrafts == ASSUME Typed, DraftInv, Request PROVE DraftInv'
<1>1. UNCHANGED <<outbox, worker, delivered>> /\ SameRows
  BY RequestsAreQuiet, OutboxUnchanged DEF SameOutbox
<1>2. worker.pc # "idle" => worker.row \in DOMAIN outbox
  BY DEF Typed, WorkerTypeOK
<1>3. ASSUME NEW c \in Clients, DeleteDraft(c) PROVE DraftInv'
  <2>1. client[c].draft \in Drafts
    BY <1>3 DEF DeleteDraft, Typed, ClientTypes
  <2>2. /\ UNCHANGED <<created, moved>> /\ discarded \subseteq discarded'
        /\ \A d \in Drafts :
             account'[d] = account[d] \/ (account'[d] = Nobody /\ d \in discarded')
    BY <1>3, <2>1 DEF DeleteDraft, Typed, DraftTypes
  <2> QED
    BY <1>1, <1>2, <2>2, DraftsLost DEF InDelivery
<1>4. CASE /\ ~\E c \in Clients : DeleteDraft(c)
           /\ ~\E d \in Drafts, a \in Accounts : CreateDraft(d, a) \/ UpdateDraft(d, a)
  <2>1. UNCHANGED <<account, created, discarded, moved>>
    BY <1>4 DEF Request, ListForDelete, CheckUpload, UploadFile, DeleteDraftAttachment,
       AddDraftAttachment, RemoveFiles, tables, history
  <2> QED
    BY <1>1, <1>2, <2>1, DraftsLost DEF InDelivery
<1> QED
  BY <1>3, <1>4, CreateKeepsDrafts, UpdateKeepsDrafts DEF Request

LEMMA DeletedAccountKeepsDrafts ==
  ASSUME Typed, DraftInv, NEW a \in Accounts, DeleteAccount(a) PROVE DraftInv'
<1>1. /\ UNCHANGED <<created, moved, delivered, worker>> /\ discarded \subseteq discarded'
      /\ \A d \in Drafts : account'[d] = account[d] \/ (account'[d] = Nobody /\ d \in discarded')
  BY DEF DeleteAccount
<1>2. worker.pc # "idle" => worker.row \in DOMAIN outbox
  BY DEF Typed, WorkerTypeOK
<1> QED
  BY <1>1, <1>2, DeletedRows, DraftsLost DEF InDelivery

LEMMA MarkSentKeepsDrafts ==
  ASSUME Typed, DeliveryInv, DraftInv, MarkOutboxSent PROVE DraftInv'
<1>1. /\ worker.pc = "accepted" /\ OnlyRow(worker.row, "sent") /\ KeepsItsRow("sent")
      /\ UNCHANGED <<created, delivered, discarded, moved>>
  BY MarkSentDoes
<1>2. delivered[Draft] > 0 /\ Draft \in Drafts
  BY <1>1, RowsAreTyped DEF DeliveryInv, Accepted, KeepsItsRow, Draft, RowType
<1>3. IF account[Draft] = outbox[worker.row].account
      THEN account' = [account EXCEPT ![Draft] = Nobody] ELSE UNCHANGED account
  BY DEF MarkOutboxSent
<1>4. \A d \in Drafts : account'[d] = account[d] \/ (account'[d] = Nobody /\ d = Draft)
  BY <1>3 DEF Typed, DraftTypes
<1>5. account'[Draft] = Nobody \/ Draft \in moved
  BY <1>1, <1>2, <1>3 DEF DraftInv, StillThere, InDelivery, Typed, DraftTypes
<1> QED
  BY <1>1, <1>2, <1>4, <1>5, DraftsLost DEF OnlyRow, KeepsItsRow, Draft, InDelivery

LEMMA WorkerKeepsDrafts ==
  ASSUME Typed, DeliveryInv, DraftInv, WorkerStep \/ Restart PROVE DraftInv'
<1> USE DEF InDelivery
<1>1. CASE ClaimOutbox
  BY <1>1, ClaimDoes, DraftsLost DEF OnlyRow
<1>2. CASE Prepare
  <2>1. worker.pc \in InDelivery \/ account[Draft] = outbox[worker.row].account
        \/ worker'.pc = "failed"
    <3>1. CASE LoadDraft
      BY <3>1 DEF LoadDraft, Move, Typed, WorkerTypeOK, WorkerType
    <3> QED
      BY <1>2, <3>1 DEF Prepare, ReadAttachments, BuildMessage
  <2> QED
    BY <1>2, <2>1, PrepareDoes, DraftsLost DEF SameOutbox, KeepsItsRow
<1>3. CASE SendMessage
  <2>1. \A d \in Drafts : delivered[d] > 0 => delivered'[d] > 0
    BY <1>3, SendDoes DEF Typed, HistoryTypes
  <2> QED
    BY <1>3, <2>1, SendDoes, DraftsLost DEF SameOutbox, KeepsItsRow
<1>4. CASE MarkFails
  BY <1>4, MarkFailsDoes, DraftsLost DEF SameOutbox, KeepsItsRow
<1>5. CASE RemoveBlobs
  BY <1>5, RemoveBlobsDoes, DraftsLost DEF SameOutbox, Rests
<1>6. CASE FinishOutbox
  <2>1. worker.row \in DOMAIN outbox
    BY <1>6, FinishDoes DEF Typed, WorkerTypeOK
  <2>2. SameRows /\ \A k \in DOMAIN outbox : outbox'[k].state = "sent" => outbox[k].state = "sent"
    BY <1>6, <2>1, FinishDoes DEF SameOutbox, OnlyRow
  <2> QED
    BY <1>6, <2>2, FinishDoes, DraftsLost DEF Rests
<1>7. CASE Restart
  BY <1>7, RestartDoes, RecoveredRows, DraftsLost DEF Rests
<1> QED
  BY <1>1, <1>2, <1>3, <1>4, <1>5, <1>6, <1>7, MarkSentKeepsDrafts DEF WorkerStep, Prepare

LEMMA DraftStep == ASSUME Typed, DeliveryInv, DraftInv, [Next]_vars PROVE DraftInv'
<1>1. CASE UNCHANGED vars
  BY <1>1 DEF vars, tables, history, DraftInv, Known, StillThere, DraftsAreKept,
     UnmovedDraftsAreGone, Leaves, RowsOf, Exists, Draft
<1>2. CASE Next
  BY <1>2, Steps, RequestKeepsDrafts, QueueKeepsDrafts, DeletedAccountKeepsDrafts, WorkerKeepsDrafts
<1> QED
  BY <1>1, <1>2

LEMMA DraftsHold == Spec => [](Typed /\ DeliveryInv /\ DraftInv)
<1>1. Init => Typed /\ DeliveryInv /\ DraftInv
  BY TypedStarts, DeliveryStarts, DraftsStart
<1>2. Typed /\ DeliveryInv /\ DraftInv /\ [Next]_vars => (Typed /\ DeliveryInv /\ DraftInv)'
  BY TypedStep, DeliveryStep, DraftStep
<1> QED
  BY <1>1, <1>2, PTL DEF Spec

(* The draft of a sent message is gone, unless a user moved it while it was *)
(* being sent.                                                              *)
THEOREM SentDraftsLeave == Spec => []UnmovedDraftsAreGone
<1>1. Typed /\ DeliveryInv /\ DraftInv => UnmovedDraftsAreGone
  BY DEF DraftInv
<1> QED
  BY <1>1, DraftsHold, PTL

-----------------------------------------------------------------------------
(* Files.  A file whose row is still to be inserted is in nobody else's     *)
(* hands; the files about to be removed are those of no row, and those a    *)
(* delivery will remove are those of its draft.                             *)
UploadsKnown ==
  /\ \A b \in Blobs : records[b] # Nobody => b \in uploaded /\ Exists(records[b])
  /\ worker.attachments \subseteq uploaded
  /\ \A c \in Clients : client[c].blobs \subseteq uploaded
Uploads == {"checked", "record"}
NewFiles ==
  \A c \in Clients : client[c].pc \in Uploads =>
    \A b \in client[c].blobs :
      /\ client[c].pc = "record" => b \in files
      /\ records[b] = Nobody /\ b \notin worker.attachments
      /\ \A e \in Clients : e # c => b \notin client[e].blobs
OldFiles ==
  \A c \in Clients :
    /\ client[c].pc = "unlink" => \A b \in client[c].blobs : records[b] = Nobody
    /\ client[c].pc = "delete" =>
         \A b \in client[c].blobs : records[b] \in {client[c].draft, Nobody}
SentFiles ==
  /\ worker.pc \in {"listed", "built", "accepted"} =>
       \A b \in worker.attachments : records[b] \in {Draft, Nobody}
  /\ worker.pc = "sent" =>
       \A b \in worker.attachments : records[b] = Nobody \/ records[b] \in moved

FilesInv == UploadsKnown /\ NewFiles /\ OldFiles /\ SentFiles /\ AttachmentsHaveFiles

LEMMA FilesStart == Init => FilesInv
BY DEF Init, FilesInv, UploadsKnown, NewFiles, Uploads, OldFiles, SentFiles, AttachmentsHaveFiles,
   IdleWorker, IdleClient

(* A step that leaves the files alone and at most removes rows.  What the   *)
(* clients and the worker take in hand comes from rows.                     *)
Attached == {b \in Blobs : records[b] # Nobody}
RowsRemoved == \A b \in Blobs : records'[b] \in {records[b], Nobody}

LEMMA RowsRemovedKeepsFiles ==
  ASSUME Typed, FilesInv, RowsRemoved, UNCHANGED <<files, uploaded>>, moved \subseteq moved',
         \A b \in Blobs : records'[b] # Nobody => Exists(records[b])',
         worker'.attachments \subseteq worker.attachments \cup Attached,
         \A c \in Clients :
           \/ client'[c] = client[c]
           \/ /\ client'[c].pc \notin Uploads
              /\ \A b \in client'[c].blobs :
                   b \in Attached \/ (b \in client[c].blobs /\ client[c].pc \notin Uploads),
         OldFiles', SentFiles'
  PROVE  FilesInv'
<1>1. UploadsKnown'
  <2>1. \A b \in Blobs : records'[b] # Nobody => b \in uploaded /\ Exists(records[b])'
    BY DEF FilesInv, UploadsKnown, RowsRemoved
  <2>2. Attached \subseteq uploaded
    BY DEF Attached, FilesInv, UploadsKnown
  <2> QED
    BY <2>1, <2>2 DEF FilesInv, UploadsKnown
<1>2. NewFiles'
  <2> SUFFICES ASSUME NEW c \in Clients, client'[c].pc \in Uploads, NEW b \in client'[c].blobs
               PROVE  /\ client'[c].pc = "record" => b \in files
                      /\ records'[b] = Nobody /\ b \notin worker'.attachments
                      /\ \A e \in Clients : e # c => b \notin client'[e].blobs
    BY DEF NewFiles, Uploads
  <2>1. client'[c] = client[c]
    OBVIOUS
  <2>2. /\ client[c].pc = "record" => b \in files
        /\ records[b] = Nobody /\ b \notin worker.attachments
        /\ \A e \in Clients : e # c => b \notin client[e].blobs
    BY <2>1 DEF FilesInv, NewFiles, Uploads
  <2>3. b \in Blobs /\ b \notin Attached
    BY <2>1, <2>2 DEF Attached, Typed, ClientTypes, ClientType
  <2> QED
    BY <2>2, <2>3 DEF RowsRemoved
<1>3. AttachmentsHaveFiles'
  BY DEF FilesInv, AttachmentsHaveFiles, RowsRemoved
<1> QED
  BY <1>1, <1>2, <1>3 DEF FilesInv

(* The parts about clients and worker, when they stay as they are.          *)
LEMMA ClientsRest ==
  ASSUME Typed, FilesInv, RowsRemoved, UNCHANGED client PROVE OldFiles'
BY DEF FilesInv, OldFiles, RowsRemoved, Typed, ClientTypes, ClientType

LEMMA WorkerStays ==
  ASSUME Typed, FilesInv, RowsRemoved, UNCHANGED worker, moved \subseteq moved',
         \A k \in DOMAIN outbox : outbox'[k].draft = outbox[k].draft
  PROVE  SentFiles'
<1>1. worker.pc # "idle" => worker.row \in DOMAIN outbox
  BY DEF Typed, WorkerTypeOK
<1>2. worker.attachments \subseteq Blobs
  BY DEF Typed, WorkerTypeOK, WorkerType
<1> QED
  BY <1>1, <1>2 DEF FilesInv, SentFiles, RowsRemoved, Draft

LEMMA CheckedUploadKeepsFiles ==
  ASSUME Typed, FilesInv, NEW c \in Clients, NEW d \in Drafts, NEW b \in Blobs, CheckUpload(c, d, b)
  PROVE  FilesInv'
<1>1. /\ b \notin uploaded /\ uploaded' = uploaded \cup {b} /\ files' = files
      /\ client'[c].pc = "checked" /\ client'[c].blobs = {b}
      /\ \A e \in Clients : e # c => client'[e] = client[e]
      /\ UNCHANGED <<records, worker, account, moved, outbox>>
  BY DEF CheckUpload, tables, history, Typed, ClientTypes
<1>2. records[b] = Nobody /\ b \notin worker.attachments
      /\ \A e \in Clients : b \notin client[e].blobs
  BY <1>1 DEF FilesInv, UploadsKnown
<1>3. UploadsKnown'
  BY <1>1 DEF FilesInv, UploadsKnown, Exists
<1>4. NewFiles'
  BY <1>1, <1>2 DEF FilesInv, NewFiles, Uploads
<1>5. OldFiles' /\ SentFiles' /\ AttachmentsHaveFiles'
  BY <1>1 DEF FilesInv, OldFiles, SentFiles, AttachmentsHaveFiles, Draft
<1> QED
  BY <1>3, <1>4, <1>5 DEF FilesInv

LEMMA UploadKeepsFiles ==
  ASSUME Typed, FilesInv, NEW c \in Clients, UploadFile(c) PROVE FilesInv'
<1>1. /\ files' = files \cup client[c].blobs /\ client[c].pc \in Uploads
      /\ client'[c].pc = "record" /\ client'[c].blobs = client[c].blobs
      /\ \A e \in Clients : e # c => client'[e] = client[e]
      /\ UNCHANGED <<records, uploaded, worker, account, moved, outbox>>
  BY DEF UploadFile, Uploads, tables, history, Typed, ClientTypes, ClientType
<1>2. UploadsKnown' /\ NewFiles'
  BY <1>1 DEF FilesInv, UploadsKnown, NewFiles, Uploads, Exists
<1>3. OldFiles' /\ SentFiles' /\ AttachmentsHaveFiles'
  BY <1>1 DEF FilesInv, OldFiles, SentFiles, AttachmentsHaveFiles, Draft
<1> QED
  BY <1>2, <1>3 DEF FilesInv

LEMMA AddKeepsFiles ==
  ASSUME Typed, FilesInv, NEW c \in Clients, AddDraftAttachment(c) PROVE FilesInv'
<1> DEFINE d == client[c].draft  B == client[c].blobs
<1>1. /\ client[c].pc = "record" /\ \A e \in Clients : e # c => client'[e] = client[e]
      /\ UNCHANGED <<files, uploaded, worker, account, moved, outbox>>
  BY DEF AddDraftAttachment, disk, history, Typed, ClientTypes
<1>2. \A b \in B : /\ records[b] = Nobody /\ b \in files /\ b \notin worker.attachments
                   /\ \A e \in Clients : e # c => b \notin client[e].blobs
  BY <1>1 DEF FilesInv, NewFiles, Uploads
<1>3. B \subseteq Blobs /\ B \subseteq uploaded
  BY DEF Typed, ClientTypes, ClientType, FilesInv, UploadsKnown
<1>4. CASE Exists(d)
  <2>1. /\ \A b \in Blobs : records'[b] = IF b \in B THEN d ELSE records[b]
        /\ client'[c] = IdleClient
    BY <1>4 DEF AddDraftAttachment, Typed, ClientTypes
  <2>2. client'[c].pc = "idle" /\ client'[c].blobs = {}
    BY <2>1 DEF IdleClient
  <2> HIDE DEF d, B
  <2>3. \A e \in Clients : client'[e].blobs \subseteq Blobs /\ (e # c => client[e].blobs \cap B = {})
    BY <1>1, <1>2, <2>2 DEF Typed, ClientTypes, ClientType
  <2>4. worker.attachments \subseteq Blobs /\ worker.attachments \cap B = {}
    BY <1>2 DEF Typed, WorkerTypeOK, WorkerType
  <2>5. UploadsKnown'
    BY <1>1, <1>3, <1>4, <2>1, <2>2 DEF FilesInv, UploadsKnown, Exists
  <2>6. NewFiles'
    BY <1>1, <2>1, <2>2, <2>3 DEF FilesInv, NewFiles, Uploads
  <2>7. OldFiles'
    BY <1>1, <2>1, <2>2, <2>3 DEF FilesInv, OldFiles
  <2>8. SentFiles'
    BY <1>1, <2>1, <2>4 DEF FilesInv, SentFiles, Draft
  <2>9. AttachmentsHaveFiles'
    BY <1>1, <1>2, <2>1 DEF FilesInv, AttachmentsHaveFiles
  <2> QED
    BY <2>5, <2>6, <2>7, <2>8, <2>9 DEF FilesInv
<1>5. CASE ~Exists(d)
  <2>1. UNCHANGED records /\ client'[c].pc = "unlink" /\ client'[c].blobs = B
    BY <1>5 DEF AddDraftAttachment, Typed, ClientTypes, ClientType
  <2> HIDE DEF d
  <2>2. UploadsKnown' /\ SentFiles' /\ AttachmentsHaveFiles'
    BY <1>1, <2>1 DEF FilesInv, UploadsKnown, SentFiles, AttachmentsHaveFiles, Exists, Draft
  <2>3. NewFiles' /\ OldFiles'
    BY <1>1, <1>2, <2>1 DEF FilesInv, NewFiles, Uploads, OldFiles
  <2> QED
    BY <2>2, <2>3 DEF FilesInv
<1> QED
  BY <1>4, <1>5

(* Requests that take a draft's rows away, now or in their next step.       *)
LEMMA DeletingKeepsFiles ==
  ASSUME Typed, FilesInv, NEW c \in Clients,
         \/ \E d \in Drafts : ListForDelete(c, d) \/ \E b \in Blobs : DeleteDraftAttachment(c, d, b)
         \/ DeleteDraft(c)
  PROVE  FilesInv'
<1> DEFINE Released ==
      /\ RowsRemoved
      /\ \A b \in client'[c].blobs : b \in Attached \/ b \in client[c].blobs
      /\ client'[c].pc \notin Uploads
      /\ client'[c].pc = "unlink" => \A b \in client'[c].blobs : records'[b] = Nobody
      /\ client'[c].pc = "delete" =>
           \A b \in client'[c].blobs : records'[b] \in {client'[c].draft, Nobody}
      /\ \A b \in Blobs : records'[b] # Nobody => Exists(records[b])'
<1>1. /\ client[c].pc \notin Uploads /\ \A e \in Clients : e # c => client'[e] = client[e]
      /\ UNCHANGED <<files, uploaded, worker, moved, outbox>>
  BY DEF ListForDelete, DeleteDraftAttachment, DeleteDraft, Uploads, tables, disk, history, Typed,
     ClientTypes
<1>2. Released
  <2>1. ASSUME NEW d \in Drafts, ListForDelete(c, d) PROVE Released
    BY <2>1, OutboxAssumption DEF ListForDelete, AttachmentsOf, Attached, RowsRemoved, tables, Typed,
       ClientTypes, FilesInv, UploadsKnown, Exists, Uploads
  <2>2. ASSUME NEW d \in Drafts, NEW b \in Blobs, DeleteDraftAttachment(c, d, b) PROVE Released
    BY <2>2, OutboxAssumption DEF DeleteDraftAttachment, Attached, RowsRemoved, Typed, ClientTypes,
       DraftTypes, FilesInv, UploadsKnown, Exists, Uploads
  <2>3. CASE DeleteDraft(c)
    <3>1. /\ client[c].pc = "delete" /\ client[c].draft \in Drafts /\ client[c].blobs \subseteq Blobs
          /\ \A b \in client[c].blobs : records[b] \in {client[c].draft, Nobody}
      BY <2>3 DEF DeleteDraft, Typed, ClientTypes, ClientType, FilesInv, OldFiles
    <3>2. CASE Exists(client[c].draft)
      <4>1. /\ \A b \in Blobs :
                 records'[b] = IF records[b] = client[c].draft THEN Nobody ELSE records[b]
            /\ \A d \in Drafts :
                 account'[d] = IF d = client[c].draft THEN Nobody ELSE account[d]
            /\ client'[c].pc = "unlink" /\ client'[c].blobs = client[c].blobs
        BY <2>3, <3>1, <3>2 DEF DeleteDraft, WithoutRecordsOf, Typed, ClientTypes, ClientType,
           DraftTypes
      <4>2. \A b \in Blobs : records[b] \in Drafts \cup {Nobody}
        BY DEF Typed, DraftTypes, Holders
      <4> QED
        BY <3>1, <4>1, <4>2 DEF RowsRemoved, FilesInv, UploadsKnown, Exists, Uploads
    <3>3. CASE ~Exists(client[c].draft)
      <4>1. UNCHANGED <<records, account>> /\ client'[c].pc = "idle" /\ client'[c].blobs = {}
        BY <2>3, <3>3 DEF DeleteDraft, IdleClient, Typed, ClientTypes
      <4> QED
        BY <4>1 DEF RowsRemoved, FilesInv, UploadsKnown, Exists, Uploads
    <3> QED
      BY <3>2, <3>3
  <2> QED
    BY <2>1, <2>2, <2>3
<1>3. OldFiles'
  BY <1>1, <1>2 DEF FilesInv, OldFiles, RowsRemoved, Typed, ClientTypes, ClientType
<1>4. SentFiles'
  BY <1>1, <1>2, WorkerStays
<1> QED
  BY <1>1, <1>2, <1>3, <1>4, RowsRemovedKeepsFiles

(* The files a request removes have no row and await none.                  *)
LEMMA RemoveKeepsFiles ==
  ASSUME Typed, FilesInv, NEW c \in Clients, RemoveFiles(c) PROVE FilesInv'
<1>1. /\ client[c].pc = "unlink" /\ \A e \in Clients : e # c => client'[e] = client[e]
      /\ client'[c].pc = "idle" /\ client'[c].blobs = {} /\ files' = files \ client[c].blobs
      /\ UNCHANGED <<records, uploaded, worker, account, moved, outbox>>
  BY DEF RemoveFiles, IdleClient, tables, history, Typed, ClientTypes
<1>2. \A b \in client[c].blobs : records[b] = Nobody
  BY <1>1 DEF FilesInv, OldFiles
<1>3. UploadsKnown' /\ OldFiles' /\ SentFiles' /\ AttachmentsHaveFiles'
  BY <1>1, <1>2 DEF FilesInv, UploadsKnown, OldFiles, SentFiles, AttachmentsHaveFiles, Exists, Draft
<1>4. NewFiles'
  BY <1>1 DEF FilesInv, NewFiles, Uploads
<1> QED
  BY <1>3, <1>4 DEF FilesInv

LEMMA RequestKeepsFiles == ASSUME Typed, FilesInv, Request PROVE FilesInv'
<1>1. ASSUME NEW d \in Drafts, NEW a \in Accounts, CreateDraft(d, a) \/ UpdateDraft(d, a)
      PROVE  FilesInv'
  <2>1. /\ UNCHANGED <<records, files, uploaded, worker, client, outbox>> /\ moved \subseteq moved'
        /\ \A e \in Drafts : Exists(e) => Exists(e)'
    BY <1>1, OutboxAssumption DEF CreateDraft, UpdateDraft, disk, history, Exists, Typed, DraftTypes
  <2>2. RowsRemoved /\ OldFiles' /\ SentFiles'
    BY <2>1, ClientsRest, WorkerStays DEF RowsRemoved
  <2>3. \A b \in Blobs : records'[b] # Nobody => Exists(records[b])'
    BY <2>1 DEF FilesInv, UploadsKnown, Typed, DraftTypes, Holders
  <2> QED
    BY <2>1, <2>2, <2>3, RowsRemovedKeepsFiles
<1> QED
  BY <1>1, CheckedUploadKeepsFiles, UploadKeepsFiles, AddKeepsFiles, DeletingKeepsFiles,
     RemoveKeepsFiles
  DEF Request

LEMMA QueueKeepsFiles ==
  ASSUME Typed, FilesInv, NEW d \in Drafts, QueueDraft(d) PROVE FilesInv'
<1>1. /\ UNCHANGED <<account, records, files, uploaded, worker, client, moved>>
      /\ \A k \in DOMAIN outbox : outbox'[k] = outbox[k]
  BY QueuedTyped, RowAdded
<1>2. RowsRemoved /\ OldFiles' /\ SentFiles'
  BY <1>1, ClientsRest, WorkerStays DEF RowsRemoved
<1> QED
  BY <1>1, <1>2, RowsRemovedKeepsFiles DEF FilesInv, UploadsKnown, Exists

LEMMA DeletedAccountKeepsFiles ==
  ASSUME Typed, FilesInv, NEW a \in Accounts, DeleteAccount(a) PROVE FilesInv'
<1> DEFINE lost == {d \in Drafts : account[d] = a}
<1>1. /\ account' = [d \in Drafts |-> IF d \in lost THEN Nobody ELSE account[d]]
      /\ records' = [b \in Blobs |-> IF records[b] \in lost THEN Nobody ELSE records[b]]
      /\ UNCHANGED <<files, uploaded, worker, client, moved>>
  BY DEF DeleteAccount, disk
<1>2. \A b \in Blobs : records[b] \in Drafts \cup {Nobody}
  BY DEF Typed, DraftTypes, Holders
<1> HIDE DEF lost
<1>3. RowsRemoved /\ OldFiles' /\ SentFiles'
  BY <1>1, DeletedRows, ClientsRest, WorkerStays DEF RowsRemoved, SameRows
<1>4. \A b \in Blobs : records'[b] # Nobody => Exists(records[b])'
  BY <1>1, <1>2 DEF FilesInv, UploadsKnown, Exists
<1> QED
  BY <1>1, <1>3, <1>4, RowsRemovedKeepsFiles

(* The steps of the worker that remove no file: none takes more in hand     *)
(* than the rows of its draft.                                              *)
LEMMA QuietWorkerKeepsFiles ==
  ASSUME Typed, FilesInv, UNCHANGED <<account, records, files, uploaded, client, moved>>,
         worker'.attachments \subseteq worker.attachments \cup Attached, SentFiles'
  PROVE  FilesInv'
<1>1. RowsRemoved /\ OldFiles'
  BY ClientsRest DEF RowsRemoved
<1> QED
  BY <1>1, RowsRemovedKeepsFiles DEF FilesInv, UploadsKnown, Exists

LEMMA PrepareKeepsFiles == ASSUME Typed, FilesInv, Prepare PROVE FilesInv'
<1>1. SameOutbox /\ UNCHANGED <<account, records, files, uploaded, client, moved>>
  BY PrepareDoes
<1>2. CASE ReadAttachments
  <2>1. worker'.pc = "listed" /\ worker'.attachments = AttachmentsOf(Draft) /\ Draft' = Draft
        /\ Draft \in Drafts
    BY <1>1, <1>2, RowsAreTyped DEF ReadAttachments, Draft, SameOutbox, Typed, WorkerTypeOK,
       WorkerType, RowType
  <2>2. worker'.attachments \subseteq Attached
    BY <2>1, OutboxAssumption DEF AttachmentsOf, Attached
  <2>3. SentFiles'
    BY <1>1, <2>1 DEF SentFiles, AttachmentsOf
  <2> QED
    BY <1>1, <2>2, <2>3, QuietWorkerKeepsFiles
<1>3. CASE LoadDraft \/ BuildMessage
  <2>1. worker.pc # "idle" /\ \E pc \in {"loaded", "built", "failed"} :
          Move(pc) /\ (pc = "built" => worker.pc = "listed")
    BY <1>3 DEF LoadDraft, BuildMessage
  <2>2. /\ worker'.attachments = worker.attachments /\ worker'.row = worker.row
        /\ worker'.pc \in {"loaded", "built", "failed"} /\ (worker'.pc = "built" => worker.pc = "listed")
    BY <1>1, <2>1, WorkerMoves DEF WorkerPCs, SameOutbox
  <2>3. SentFiles'
    BY <1>1, <2>2 DEF FilesInv, SentFiles, Draft, SameOutbox
  <2> QED
    BY <1>1, <2>2, <2>3, QuietWorkerKeepsFiles
<1> QED
  BY <1>2, <1>3 DEF Prepare

(* The rows of a sent draft go with it, unless it was moved: then its rows  *)
(* stay, and lose the files.                                                *)
LEMMA MarkSentKeepsFiles ==
  ASSUME Typed, DraftInv, FilesInv, MarkOutboxSent PROVE FilesInv'
<1>1. /\ worker.pc = "accepted" /\ SameRows /\ worker'.pc = "sent"
      /\ worker'.attachments = worker.attachments /\ worker.attachments \subseteq Blobs
      /\ UNCHANGED <<files, uploaded, client, moved>>
  BY MarkSentDoes DEF OnlyRow, KeepsItsRow, Typed, WorkerTypeOK, WorkerType
<1>2. Draft \in Drafts
  BY <1>1, RowsAreTyped DEF Typed, WorkerTypeOK, Draft, RowType
<1>3. \A b \in worker.attachments : records[b] \in {Draft, Nobody}
  BY <1>1 DEF FilesInv, SentFiles
<1>4. \A b \in Blobs : records[b] \in Drafts \cup {Nobody}
  BY DEF Typed, DraftTypes, Holders
<1>5. CASE account[Draft] = outbox[worker.row].account
  <2>1. /\ \A b \in Blobs : records'[b] = IF records[b] = Draft THEN Nobody ELSE records[b]
        /\ \A d \in Drafts : account'[d] = IF d = Draft THEN Nobody ELSE account[d]
    BY <1>2, <1>5 DEF MarkOutboxSent, WithoutRecordsOf, Typed, DraftTypes
  <2>2. RowsRemoved /\ OldFiles'
    BY <1>1, <2>1, ClientsRest DEF RowsRemoved
  <2>3. SentFiles'
    BY <1>1, <1>3, <2>1 DEF SentFiles
  <2>4. \A b \in Blobs : records'[b] # Nobody => Exists(records[b])'
    BY <1>4, <2>1 DEF FilesInv, UploadsKnown, Exists
  <2> QED
    BY <1>1, <2>2, <2>3, <2>4, RowsRemovedKeepsFiles
<1>6. CASE account[Draft] # outbox[worker.row].account
  <2>1. UNCHANGED <<account, records>>
    BY <1>6 DEF MarkOutboxSent
  <2>2. ~Exists(Draft) \/ Draft \in moved
    BY <1>1, <1>6 DEF DraftInv, StillThere, InDelivery, Exists
  <2>3. SentFiles'
    BY <1>1, <1>3, <2>1, <2>2 DEF SentFiles, FilesInv, UploadsKnown
  <2> QED
    BY <1>1, <2>1, <2>3, QuietWorkerKeepsFiles
<1> QED
  BY <1>5, <1>6

LEMMA RemoveBlobsKeepsFiles ==
  ASSUME Typed, FilesInv, RemoveBlobs PROVE FilesInv'
<1>1. /\ worker.pc = "sent" /\ files' = files \ worker.attachments
      /\ worker'.pc = "idle" /\ worker'.attachments = {}
      /\ UNCHANGED <<account, records, uploaded, client, moved>>
  BY RemoveBlobsDoes DEF Rests
<1>2. UploadsKnown' /\ NewFiles' /\ OldFiles' /\ SentFiles'
  BY <1>1 DEF FilesInv, UploadsKnown, NewFiles, Uploads, OldFiles, SentFiles, Exists
<1>3. AttachmentsHaveFiles'
  BY <1>1 DEF FilesInv, SentFiles, AttachmentsHaveFiles
<1> QED
  BY <1>2, <1>3 DEF FilesInv

LEMMA WorkerKeepsFiles ==
  ASSUME Typed, DraftInv, FilesInv, WorkerStep \/ Restart PROVE FilesInv'
<1>1. CASE ClaimOutbox
  BY <1>1, ClaimDoes, QuietWorkerKeepsFiles DEF SentFiles
<1>2. CASE SendMessage \/ MarkFails
  <2>1. /\ UNCHANGED <<account, records, files, uploaded, client, moved>> /\ SameOutbox
        /\ worker'.attachments = worker.attachments /\ worker'.row = worker.row
        /\ worker'.pc \in {"accepted", "failed", "unknown"}
        /\ worker'.pc = "accepted" => worker.pc = "built"
    BY <1>2, SendDoes, MarkFailsDoes DEF KeepsItsRow
  <2>2. SentFiles'
    BY <2>1 DEF FilesInv, SentFiles, Draft, SameOutbox
  <2> QED
    BY <2>1, <2>2, QuietWorkerKeepsFiles
<1>3. CASE FinishOutbox
  BY <1>3, FinishDoes, QuietWorkerKeepsFiles DEF Rests, SentFiles
<1>4. CASE Restart
  <2>1. /\ UNCHANGED <<account, records, files, uploaded, moved>> /\ Rests
        /\ \A c \in Clients : client'[c].pc = "idle" /\ client'[c].blobs = {}
    BY <1>4, RestartDoes DEF IdleClient
  <2>2. RowsRemoved /\ OldFiles' /\ SentFiles'
    BY <2>1 DEF RowsRemoved, OldFiles, SentFiles, Rests
  <2> QED
    BY <2>1, <2>2, RowsRemovedKeepsFiles DEF Rests, FilesInv, UploadsKnown, Exists, Uploads
<1> QED
  BY <1>1, <1>2, <1>3, <1>4, PrepareKeepsFiles, MarkSentKeepsFiles, RemoveBlobsKeepsFiles
     DEF WorkerStep, Prepare

LEMMA FilesStep == ASSUME Typed, DraftInv, FilesInv, [Next]_vars PROVE FilesInv'
<1>1. CASE UNCHANGED vars
  BY <1>1 DEF vars, tables, disk, history, FilesInv, UploadsKnown, NewFiles, Uploads, OldFiles, SentFiles,
     AttachmentsHaveFiles, Exists, Draft
<1>2. CASE Next
  BY <1>2, Steps, RequestKeepsFiles, QueueKeepsFiles, DeletedAccountKeepsFiles, WorkerKeepsFiles
<1> QED
  BY <1>1, <1>2

(* A draft goes away only when it is delivered or discarded, and while it   *)
(* is there each of its attachments has its file, whoever else uploads,     *)
(* deletes or sends meanwhile and wherever the process stops.               *)
THEOREM DraftsKeptWhole == Spec => []DraftsAreWhole
<1>1. Init => FilesInv
  BY FilesStart
<1>2. Typed /\ DeliveryInv /\ DraftInv /\ FilesInv /\ [Next]_vars => FilesInv'
  BY FilesStep
<1>3. DraftInv /\ FilesInv => DraftsAreWhole
  BY DEF DraftInv, FilesInv, DraftsAreWhole
<1> QED
  BY <1>1, <1>2, <1>3, DraftsHold, PTL DEF Spec

-----------------------------------------------------------------------------
(* The refinement.  The status of a draft is that of its last row: every    *)
(* older row has failed or is gone, so each row that a step of the worker   *)
(* or a restart changes is the last of its draft.                           *)
IsLast(rows, d, i) ==
  /\ i \in DOMAIN rows /\ rows[i].draft = d
  /\ \A k \in DOMAIN rows : rows[k].draft = d => k <= i
NoRows(rows, d) == \A i \in DOMAIN rows : rows[i].draft # d
StatusOf(row) == IF row.state = "gone" THEN "none" ELSE row.state

LastFound == \A d \in Drafts : NoRows(outbox, d) \/ \E i \in DOMAIN outbox : IsLast(outbox, d, i)
OlderDone ==
  \A i, k \in DOMAIN outbox :
    i < k /\ outbox[i].draft = outbox[k].draft => outbox[i].state \in {"failed", "gone"}
LifeInv == LastFound /\ OlderDone

(* The status that a sequence of rows gives a draft.                         *)
LastStatus(rows, d) ==
  LET own == {i \in DOMAIN rows : rows[i].draft = d}
      last == CHOOSE i \in own : \A k \in own : k <= i
  IN  IF own = {} \/ rows[last].state = "gone" THEN "none" ELSE rows[last].state

LEMMA StatusIsLast ==
  ASSUME NEW d
  PROVE  Status(d) = LastStatus(outbox, d) /\ Status(d)' = LastStatus(outbox', d)
BY DEF Status, LastStatus

LEMMA LastRowDecides ==
  ASSUME NEW rows, NEW d, NEW i, IsLast(rows, d, i), DOMAIN rows \subseteq Nat
  PROVE  LastStatus(rows, d) = StatusOf(rows[i])
<1> DEFINE own == {k \in DOMAIN rows : rows[k].draft = d}
           last == CHOOSE k \in own : \A e \in own : e <= k
<1>1. i \in own /\ \A e \in own : e <= i
  BY DEF IsLast
<1>2. last \in own /\ \A e \in own : e <= last
  BY <1>1
<1>3. last = i
  <2>1. last \in Nat /\ i \in Nat /\ last <= i /\ i <= last
    BY <1>1, <1>2
  <2> HIDE DEF last
  <2> QED
    BY <2>1
<1>4. own # {}
  BY <1>1
<1>5. LastStatus(rows, d) = IF own = {} \/ rows[last].state = "gone" THEN "none" ELSE rows[last].state
  BY DEF LastStatus
<1> HIDE DEF own, last
<1> QED
  BY <1>3, <1>4, <1>5 DEF StatusOf

LEMMA NoRowDecides == ASSUME NEW rows, NEW d, NoRows(rows, d) PROVE LastStatus(rows, d) = "none"
<1>1. {k \in DOMAIN rows : rows[k].draft = d} = {}
  BY DEF NoRows
<1> QED
  BY <1>1 DEF LastStatus

(* When rows only change their state, the last ones stay the last.          *)
LEMMA StatusChanges ==
  ASSUME Typed, LifeInv, SameRows, NEW d \in Drafts
  PROVE  \/ NoRows(outbox, d) /\ Status(d) = "none" /\ Status(d)' = "none"
         \/ \E i \in DOMAIN outbox :
              /\ IsLast(outbox, d, i)
              /\ Status(d) = StatusOf(outbox[i]) /\ Status(d)' = StatusOf(outbox'[i])
<1>1. DOMAIN outbox \subseteq Nat /\ DOMAIN outbox' = DOMAIN outbox
  BY RowsAreTyped DEF SameRows
<1>2. CASE NoRows(outbox, d)
  <2>1. NoRows(outbox', d)
    BY <1>2 DEF NoRows, SameRows
  <2> QED
    BY <1>2, <2>1, NoRowDecides, StatusIsLast
<1>3. ASSUME NEW i \in DOMAIN outbox, IsLast(outbox, d, i)
      PROVE  Status(d) = StatusOf(outbox[i]) /\ Status(d)' = StatusOf(outbox'[i])
  <2>1. IsLast(outbox', d, i)
    BY <1>3 DEF IsLast, SameRows
  <2> QED
    BY <1>1, <1>3, <2>1, LastRowDecides, StatusIsLast
<1> QED
  BY <1>2, <1>3 DEF LifeInv, LastFound

(* A row that is still to be decided is its draft's last.                   *)
LEMMA UndecidedIsLast ==
  ASSUME Typed, LifeInv, NEW i \in DOMAIN outbox, outbox[i].state \in {"queued", "sending"}
  PROVE  IsLast(outbox, outbox[i].draft, i)
<1> SUFFICES ASSUME NEW k \in DOMAIN outbox, outbox[k].draft = outbox[i].draft PROVE k <= i
  BY DEF IsLast
<1>1. i \in Nat /\ k \in Nat /\ ~(i < k)
  BY RowsAreTyped DEF LifeInv, OlderDone
<1> QED
  BY <1>1

(* LifeInv survives a step that at most takes rows further.                 *)
LEMMA LifeInvKept ==
  ASSUME Typed, LifeInv, SameRows,
         \A k \in DOMAIN outbox :
           outbox[k].state \in {"failed", "gone"} => outbox'[k].state \in {"failed", "gone"}
  PROVE  LifeInv'
<1>1. LastFound'
  BY DEF LifeInv, LastFound, NoRows, IsLast, SameRows
<1>2. OlderDone'
  BY DEF LifeInv, OlderDone, SameRows
<1> QED
  BY <1>1, <1>2 DEF LifeInv

LEMMA QueueKeepsLife ==
  ASSUME Typed, LifeInv, NEW d \in Drafts, QueueDraft(d)
  PROVE  /\ LifeInv'
         /\ Status(d) \in {"none", "failed"} /\ Status(d)' = "queued"
         /\ \A e \in Drafts : e # d => Status(e)' = Status(e)
<1> DEFINE n == Len(outbox) + 1
<1>1. /\ MayQueue(d) /\ DOMAIN outbox' = DOMAIN outbox \cup {n}
      /\ \A k \in DOMAIN outbox : outbox'[k] = outbox[k]
      /\ outbox'[n].draft = d /\ outbox'[n].state = "queued"
  <2>1. /\ MayQueue(d) /\ account[d] \in Accounts /\ Len(outbox) < MaxRows
        /\ outbox' = Append(outbox, Row(d, account[d]))
    BY QueuedTyped
  <2>2. /\ DOMAIN outbox' = DOMAIN outbox \cup {n}
        /\ \A k \in DOMAIN outbox : outbox'[k] = outbox[k]
        /\ outbox'[n] = Row(d, account[d])
    BY <2>1, RowAdded
  <2> QED
    BY <2>1, <2>2 DEF Row
<1>2. /\ n \in Nat /\ n \notin DOMAIN outbox /\ DOMAIN outbox \subseteq Nat
      /\ \A k \in DOMAIN outbox : k < n
  BY RowsAreTyped
<1> HIDE DEF n
<1>3. IsLast(outbox', d, n)
  BY <1>1, <1>2 DEF IsLast
<1>4. ASSUME NEW e \in Drafts, e # d, NoRows(outbox, e)
      PROVE  NoRows(outbox', e) /\ Status(e)' = Status(e)
  <2>1. NoRows(outbox', e)
    BY <1>1, <1>4 DEF NoRows
  <2> QED
    BY <1>4, <2>1, NoRowDecides, StatusIsLast
<1>5. ASSUME NEW e \in Drafts, e # d, NEW i \in DOMAIN outbox, IsLast(outbox, e, i)
      PROVE  IsLast(outbox', e, i) /\ Status(e)' = Status(e)
  <2>1. IsLast(outbox', e, i) /\ DOMAIN outbox' \subseteq Nat
    BY <1>1, <1>2, <1>5 DEF IsLast
  <2> QED
    BY <1>1, <1>2, <1>5, <2>1, LastRowDecides, StatusIsLast
<1>6. LastFound' /\ \A e \in Drafts : e # d => Status(e)' = Status(e)
  BY <1>1, <1>3, <1>4, <1>5 DEF LifeInv, LastFound
<1>7. ASSUME NEW i \in DOMAIN outbox, outbox[i].draft = d
      PROVE  outbox[i].state \in {"failed", "gone"}
  <2>1. CASE outbox[i].state # "gone" /\ IsNewestRow(i, d)
    BY <1>1, <1>7, <2>1 DEF MayQueue, IsNewestRow
  <2>2. CASE outbox[i].state # "gone" /\ ~IsNewestRow(i, d)
    <3>1. PICK k \in RowsOf(d) : ~(k <= i)
      BY <1>7, <2>2 DEF IsNewestRow, RowsOf
    <3>2. k \in DOMAIN outbox /\ i < k /\ outbox[k].draft = d
      BY <1>2, <3>1 DEF RowsOf
    <3> QED
      BY <1>7, <3>2 DEF LifeInv, OlderDone
  <2> QED
    BY <2>1, <2>2
<1>8. OlderDone'
  <2> SUFFICES ASSUME NEW i \in DOMAIN outbox', NEW k \in DOMAIN outbox', i < k,
                      outbox'[i].draft = outbox'[k].draft
               PROVE  outbox'[i].state \in {"failed", "gone"}
    BY DEF OlderDone
  <2>1. i \in DOMAIN outbox
    BY <1>1, <1>2
  <2>2. CASE k = n
    BY <1>1, <1>7, <2>1, <2>2
  <2>3. CASE k # n
    BY <1>1, <2>1, <2>3 DEF LifeInv, OlderDone
  <2> QED
    BY <2>2, <2>3
<1>9. Status(d) \in {"none", "failed"}
  <2>1. ASSUME NEW i \in DOMAIN outbox, IsLast(outbox, d, i) PROVE Status(d) \in {"none", "failed"}
    <3>1. outbox[i].state \in {"failed", "gone"}
      BY <1>7, <2>1 DEF IsLast
    <3> QED
      BY <1>2, <2>1, <3>1, LastRowDecides, StatusIsLast DEF StatusOf
  <2> QED
    BY <2>1, NoRowDecides, StatusIsLast DEF LifeInv, LastFound
<1>10. Status(d)' = "queued"
  <2>1. DOMAIN outbox' \subseteq Nat
    BY <1>1, <1>2
  <2> QED
    BY <1>1, <1>3, <2>1, LastRowDecides, StatusIsLast DEF StatusOf
<1> QED
  BY <1>6, <1>8, <1>9, <1>10 DEF LifeInv

(* Steps of the lifecycle: the drafts S, all in a state of `from', go to    *)
(* `to', and the others stay.                                               *)
Goes(S, from, to) ==
  /\ \A d \in S : Status(d) \in from
  /\ \A d \in Drafts : Status(d)' = IF d \in S THEN to ELSE Status(d)
LifeStep ==
  \/ \E d \in Drafts :
       \/ Goes({d}, {"none"}, "queued") \/ Goes({d}, {"queued"}, "sending")
       \/ Goes({d}, {"sending"}, "sent") \/ Goes({d}, {"sending"}, "failed")
       \/ Goes({d}, {"failed"}, "queued")
  \/ \E S \in SUBSET Drafts :
       \/ Goes(S, {"sending"}, "unknown")
       \/ Goes(S, {"none", "queued", "sent", "failed", "unknown"}, "none")
SameStatus == \A d \in Drafts : Status(d)' = Status(d)

LEMMA LifeStepIsAllowed == LifeStep \/ SameStatus => [Lifecycle!Next]_[d \in Drafts |-> Status(d)]
<1> DEFINE st == [d \in Drafts |-> Status(d)]
<1>1. ASSUME NEW S \in SUBSET Drafts, NEW from, NEW to, Goes(S, from, to)
      PROVE  Lifecycle!Move(S, from, to)
  BY <1>1 DEF Goes, Lifecycle!Move
<1>2. LifeStep => Lifecycle!Next
  <2>1. ASSUME NEW d \in Drafts, Goes({d}, {"none"}, "queued") PROVE Lifecycle!Next
    BY <1>1, <2>1 DEF Lifecycle!Next, Lifecycle!NewOutboxItem
  <2>2. ASSUME NEW d \in Drafts, Goes({d}, {"queued"}, "sending") PROVE Lifecycle!Next
    BY <1>1, <2>2 DEF Lifecycle!Next, Lifecycle!Start
  <2>3. ASSUME NEW d \in Drafts, Goes({d}, {"sending"}, "sent") PROVE Lifecycle!Next
    <3>1. Goes({d}, {"sending", "unknown"}, "sent")
      BY <2>3 DEF Goes
    <3> QED
      BY <1>1, <3>1 DEF Lifecycle!Next, Lifecycle!MarkSent
  <2>4. ASSUME NEW d \in Drafts, Goes({d}, {"sending"}, "failed") PROVE Lifecycle!Next
    <3>1. Goes({d}, {"sending", "unknown"}, "failed")
      BY <2>4 DEF Goes
    <3> QED
      BY <1>1, <3>1 DEF Lifecycle!Next, Lifecycle!MarkFailed
  <2>5. ASSUME NEW d \in Drafts, Goes({d}, {"failed"}, "queued") PROVE Lifecycle!Next
    BY <1>1, <2>5 DEF Lifecycle!Next, Lifecycle!Retry
  <2>6. ASSUME NEW S \in SUBSET Drafts, Goes(S, {"sending"}, "unknown") PROVE Lifecycle!Next
    BY <1>1, <2>6 DEF Lifecycle!Next, Lifecycle!MarkUnknown
  <2>7. ASSUME NEW S \in SUBSET Drafts,
               Goes(S, {"none", "queued", "sent", "failed", "unknown"}, "none")
        PROVE  Lifecycle!Next
    BY <1>1, <2>7 DEF Lifecycle!Next, Lifecycle!Discard
  <2> QED
    BY <2>1, <2>2, <2>3, <2>4, <2>5, <2>6, <2>7 DEF LifeStep
<1>3. SameStatus => UNCHANGED [d \in Drafts |-> Status(d)]
  BY DEF SameStatus
<1> QED
  BY <1>2, <1>3

(* A row still to be decided changes: its draft goes with it, alone.        *)
LEMMA OneGoes ==
  ASSUME Typed, LifeInv, NEW i \in DOMAIN outbox, NEW to \in RowStates \ {"gone"}, OnlyRow(i, to),
         outbox[i].state \in {"queued", "sending"}
  PROVE  LifeInv' /\ outbox[i].draft \in Drafts /\ Goes({outbox[i].draft}, {outbox[i].state}, to)
<1> DEFINE d == outbox[i].draft
<1>1. d \in Drafts /\ IsLast(outbox, d, i) /\ DOMAIN outbox \subseteq Nat
  BY RowsAreTyped, UndecidedIsLast DEF RowType
<1>2. LifeInv'
  BY LifeInvKept DEF OnlyRow
<1>3. SameRows /\ outbox'[i].state = to /\ to # "gone" /\ outbox[i].state # "gone"
      /\ \A k \in DOMAIN outbox : k # i => outbox'[k].state = outbox[k].state
  BY DEF OnlyRow
<1>4. ASSUME NEW e \in Drafts
      PROVE  /\ Status(e)' = IF e = d THEN to ELSE Status(e)
             /\ e = d => Status(e) = outbox[i].state
  <2>1. CASE NoRows(outbox, e)
    BY <1>3, <1>4, <2>1, StatusChanges DEF NoRows, IsLast
  <2>2. CASE ~NoRows(outbox, e)
    <3>1. PICK k \in DOMAIN outbox :
            /\ IsLast(outbox, e, k)
            /\ Status(e) = StatusOf(outbox[k]) /\ Status(e)' = StatusOf(outbox'[k])
      BY <1>3, <1>4, <2>2, StatusChanges
    <3>2. k = i <=> e = d
      BY <1>1, <3>1 DEF IsLast
    <3> QED
      BY <1>3, <3>1, <3>2 DEF StatusOf
  <2> QED
    BY <2>1, <2>2
<1> QED
  BY <1>1, <1>2, <1>4 DEF Goes

(* Several rows go to one state at once.                                    *)
LEMMA ManyGo ==
  ASSUME Typed, LifeInv, SameRows, NEW R \in SUBSET (DOMAIN outbox), NEW from, NEW to,
         \A k \in DOMAIN outbox :
           /\ k \notin R => outbox'[k].state = outbox[k].state
           /\ k \in R => StatusOf(outbox[k]) \in from /\ StatusOf(outbox'[k]) = to
  PROVE  \E S \in SUBSET Drafts : Goes(S, from, to)
<1> DEFINE S == {d \in Drafts : \E k \in R : IsLast(outbox, d, k)}
<1>1. ASSUME NEW d \in Drafts
      PROVE  /\ d \in S => Status(d) \in from
             /\ Status(d)' = IF d \in S THEN to ELSE Status(d)
  <2>1. CASE NoRows(outbox, d)
    BY <1>1, <2>1, StatusChanges DEF NoRows, IsLast
  <2>2. CASE ~NoRows(outbox, d)
    <3>1. PICK k \in DOMAIN outbox :
            /\ IsLast(outbox, d, k)
            /\ Status(d) = StatusOf(outbox[k]) /\ Status(d)' = StatusOf(outbox'[k])
      BY <1>1, <2>2, StatusChanges
    <3>2. \A e \in DOMAIN outbox : IsLast(outbox, d, e) => e = k
      BY <3>1, RowsAreTyped DEF IsLast
    <3>3. d \in S <=> k \in R
      BY <1>1, <3>1, <3>2
    <3> HIDE DEF S
    <3> QED
      BY <3>1, <3>3 DEF StatusOf
  <2> QED
    BY <2>1, <2>2
<1> QED
  BY <1>1 DEF Goes

LEMMA SameOutboxSameStatus == ASSUME LifeInv, UNCHANGED outbox PROVE LifeInv' /\ SameStatus
BY DEF LifeInv, LastFound, NoRows, IsLast, OlderDone, SameStatus, Status

LEMMA WorkerFollows ==
  ASSUME Typed, DeliveryInv, LifeInv, WorkerStep
  PROVE  LifeInv' /\ (LifeStep \/ SameStatus)
<1>1. CASE ClaimOutbox
  <2>1. PICK i \in DOMAIN outbox : outbox[i].state = "queued" /\ OnlyRow(i, "sending")
    BY <1>1, ClaimDoes
  <2>2. "sending" \in RowStates \ {"gone"}
    BY DEF RowStates
  <2>3. LifeInv' /\ outbox[i].draft \in Drafts /\ Goes({outbox[i].draft}, {"queued"}, "sending")
    BY <2>1, <2>2, OneGoes
  <2> QED
    BY <2>3 DEF LifeStep
<1>2. CASE MarkOutboxSent
  <2>1. worker.row \in DOMAIN outbox /\ outbox[worker.row].state = "sending" /\ OnlyRow(worker.row, "sent")
    BY <1>2, MarkSentDoes DEF KeepsItsRow
  <2>2. "sent" \in RowStates \ {"gone"}
    BY DEF RowStates
  <2>3. LifeInv' /\ Draft \in Drafts /\ Goes({Draft}, {"sending"}, "sent")
    BY <2>1, <2>2, OneGoes DEF Draft
  <2> QED
    BY <2>3 DEF LifeStep
<1>3. CASE FinishOutbox
  <2>1. CASE UNCHANGED outbox
    BY <2>1, SameOutboxSameStatus
  <2>2. CASE outbox[worker.row].state = "sending" /\ OnlyRow(worker.row, worker.pc)
    <3>1. worker.pc \in {"failed", "unknown"} /\ worker.row \in DOMAIN outbox
      BY <1>3, FinishDoes DEF Typed, WorkerTypeOK
    <3>2. worker.pc \in RowStates \ {"gone"}
      BY <3>1 DEF RowStates
    <3>3. LifeInv' /\ Draft \in Drafts /\ Goes({Draft}, {"sending"}, worker.pc)
      BY <2>2, <3>1, <3>2, OneGoes DEF Draft
    <3>4. {Draft} \in SUBSET Drafts
      BY <3>3
    <3> QED
      BY <3>1, <3>3, <3>4 DEF LifeStep
  <2> QED
    BY <1>3, <2>1, <2>2, FinishDoes DEF SameOutbox
<1>4. CASE Prepare \/ SendMessage \/ MarkFails \/ RemoveBlobs
  <2>1. UNCHANGED outbox
    BY <1>4, PrepareDoes, SendDoes, MarkFailsDoes, RemoveBlobsDoes DEF SameOutbox
  <2> QED
    BY <2>1, SameOutboxSameStatus
<1> QED
  BY <1>1, <1>2, <1>3, <1>4 DEF WorkerStep, Prepare

LEMMA RestartFollows ==
  ASSUME Typed, LifeInv, Restart PROVE LifeInv' /\ LifeStep
<1> DEFINE R == {k \in DOMAIN outbox : outbox[k].state = "sending"}
<1>1. /\ SameRows
      /\ \A k \in DOMAIN outbox :
           outbox'[k].state = IF outbox[k].state = "sending" THEN "unknown" ELSE outbox[k].state
  BY RecoveredRows
<1>2. LifeInv'
  BY <1>1, LifeInvKept
<1>3. R \in SUBSET (DOMAIN outbox)
      /\ \A k \in DOMAIN outbox :
           /\ k \notin R => outbox'[k].state = outbox[k].state
           /\ k \in R => StatusOf(outbox[k]) \in {"sending"} /\ StatusOf(outbox'[k]) = "unknown"
  BY <1>1 DEF StatusOf
<1> HIDE DEF R
<1>4. \E S \in SUBSET Drafts : Goes(S, {"sending"}, "unknown")
  BY <1>1, <1>3, ManyGo
<1> QED
  BY <1>2, <1>4 DEF LifeStep

LEMMA DeletedAccountFollows ==
  ASSUME Typed, LifeInv, NEW a \in Accounts, DeleteAccount(a) PROVE LifeInv' /\ LifeStep
<1> DEFINE R == {k \in DOMAIN outbox : outbox[k].account = a}
           from == {"none", "queued", "sent", "failed", "unknown"}
<1>1. /\ SameRows
      /\ \A k \in DOMAIN outbox :
           outbox'[k].state = IF outbox[k].account = a THEN "gone" ELSE outbox[k].state
  BY DeletedRows
<1>2. LifeInv'
  BY <1>1, LifeInvKept
<1>3. \A k \in R : outbox[k].state \in RowStates /\ outbox[k].state # "sending"
  BY RowsAreTyped DEF DeleteAccount, AccountBusy, RowType
<1>4. R \in SUBSET (DOMAIN outbox)
      /\ \A k \in DOMAIN outbox :
           /\ k \notin R => outbox'[k].state = outbox[k].state
           /\ k \in R => StatusOf(outbox[k]) \in from /\ StatusOf(outbox'[k]) = "none"
  BY <1>1, <1>3 DEF StatusOf, RowStates
<1> HIDE DEF R
<1>5. \E S \in SUBSET Drafts : Goes(S, from, "none")
  <2> HIDE DEF from
  <2> QED
    BY <1>1, <1>4, ManyGo
<1> QED
  BY <1>2, <1>5 DEF LifeStep

LEMMA LifeFollows ==
  ASSUME Typed, DeliveryInv, LifeInv, [Next]_vars PROVE LifeInv' /\ (LifeStep \/ SameStatus)
<1>1. CASE UNCHANGED outbox
  BY <1>1, SameOutboxSameStatus
<1>2. ASSUME NEW d \in Drafts, QueueDraft(d) PROVE LifeInv' /\ LifeStep
  <2>1. /\ LifeInv' /\ Status(d) \in {"none", "failed"} /\ Status(d)' = "queued"
        /\ \A e \in Drafts : e # d => Status(e)' = Status(e)
    BY <1>2, QueueKeepsLife
  <2>2. Goes({d}, {"none"}, "queued") \/ Goes({d}, {"failed"}, "queued")
    BY <2>1 DEF Goes
  <2> QED
    BY <2>1, <2>2 DEF LifeStep
<1>3. CASE Next
  BY <1>1, <1>2, <1>3, Steps, RequestsAreQuiet, WorkerFollows, RestartFollows, DeletedAccountFollows
<1> QED
  BY <1>1, <1>3 DEF vars, tables

(* Whatever its users, its worker, failures and restarts do, the newest row *)
(* of each draft goes only through the transitions of mailstore/outbox.go.  *)
THEOREM OutboxFollowsLifecycle == Spec => FollowsLifecycle
<1>1. Init => LifeInv /\ Lifecycle!Init
  <2>1. ASSUME Init PROVE \A d \in Drafts : NoRows(outbox, d)
    BY <2>1 DEF Init, NoRows
  <2>2. ASSUME Init PROVE LifeInv
    BY <2>1, <2>2 DEF Init, LifeInv, LastFound, OlderDone
  <2>3. ASSUME Init PROVE Lifecycle!Init
    <3>1. \A d \in Drafts : Status(d) = "none"
      BY <2>1, <2>3, NoRowDecides, StatusIsLast
    <3> QED
      BY <3>1 DEF Lifecycle!Init
  <2> QED
    BY <2>2, <2>3
<1>2. Typed /\ DeliveryInv /\ LifeInv /\ [Next]_vars =>
        LifeInv' /\ [Lifecycle!Next]_[d \in Drafts |-> Status(d)]
  BY LifeFollows, LifeStepIsAllowed
<1> QED
  BY <1>1, <1>2, DeliveryHolds, PTL DEF Spec, FollowsLifecycle, Lifecycle!Spec
=============================================================================
