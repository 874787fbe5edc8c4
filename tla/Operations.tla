----------------------------- MODULE Operations -----------------------------
(***************************************************************************)
(* Mail operations (archive, move, trash, permanent delete, flags): how one *)
(* is created and undone (internal/repository/operations.go), applied to    *)
(* the mail server by the operation worker, and recorded                    *)
(* (internal/mailruntime/operations.go), while synchronisation passes and   *)
(* other mail clients change the same mailboxes.                            *)
(*                                                                          *)
(* One step is one transaction of the store or one IMAP command.  A pass of *)
(* a folder is only what the worker can see of it: the pending operations   *)
(* it read, its preparation, one listing, and the two transactions that     *)
(* apply it; FolderSync has its checkpoints.                                *)
(***************************************************************************)
EXTENDS Integers, Sequences, FiniteSets, Functions

CONSTANTS
  Mails,           \* messages on the server
  Kinds,           \* kinds of operation users ask for
  Strategies,      \* what PlanMove may find: "move", "copy" or "none"
  Gmail,           \* copies of a mail share one row of messages
  MaxOps,          \* bound: operations ever created
  MaxValidity,     \* bound: UIDVALIDITY generations of a folder
  MaxPasses,       \* bound: synchronisation passes
  MaxEvents,       \* bound: other clients' changes
  MaxFaults        \* bound: failed commits and restarts

Folders == {"inbox", "archive", "trash"}
Ops == 1..MaxOps

ASSUME OperationsAssumption ==
  /\ Kinds \subseteq {"flag", "archive", "move", "trash", "delete"}
  /\ Strategies \subseteq {"move", "copy", "none"} /\ Gmail \in BOOLEAN
  /\ IsFiniteSet(Mails) /\ MaxValidity \in Nat \ {0}
  /\ {MaxOps, MaxPasses, MaxEvents, MaxFaults} \subseteq Nat

VARIABLES
  remote,          \* the server's copies, each a mail with its UID in a folder
  validity,        \* per folder: its UIDVALIDITY
  nextUID,         \* per folder: its UIDNEXT
  checkpoint,      \* per folder: sync_checkpoints.uid_validity
  messages,        \* rows of messages, as <<mail, number>>
  locations,       \* rows of message_locations
  op,              \* the operations table
  ready,           \* operations in the order of their execute_after
  worker,          \* the operation worker
  pass,            \* the synchronisation pass of the account
  touched,         \* history: mails each operation changed on the server
  removed,         \* history: mails deleted in the trash or expunged elsewhere
  passes, events, faults  \* so far (bounded)

server == <<remote, validity, nextUID>>
mailTables == <<checkpoint, messages, locations>>
opTables == <<op, ready>>
history == <<touched, removed>>
bounds == <<passes, events, faults>>
vars == <<server, mailTables, opTables, worker, pass, history, bounds>>

NoOp == [status |-> "none", kind |-> "flag", targets |-> {}, to |-> "inbox", window |-> FALSE]
IdleWorker ==
  [pc |-> "idle", op |-> 0, chosen |-> {}, todo |-> {}, group |-> {}, session |-> 0,
   strategy |-> "none", moved |-> {}, committed |-> FALSE, outcome |-> "none"]
IdlePass == [pc |-> "idle", folder |-> "inbox", pending |-> {}, validity |-> 0, next |-> 0,
             listed |-> {}]

MailsOf(S) == {x.mail : x \in S}
MailOf(msg) == msg[1]
Located(m) == \E r \in locations : r.msg = m

(* cleanupOrphanMessages: rows of messages without a location go.  Seeded   *)
(* fault: only the folder at hand is asked for locations.                   *)
WithLocationHere(rows) == {m \in messages : \E r \in rows : r.msg = m /\ r.folder = pass.folder}
WithLocation(rows) == {m \in messages : \E r \in rows : r.msg = m}

-----------------------------------------------------------------------------
(* The account has been synchronised: every copy has its row.  The mails    *)
(* are alike, so the order of their UIDs may be fixed.                      *)
Init ==
  /\ \E place \in [Mails -> {"inbox", "trash"}] :
     LET number == CHOOSE n \in Injection(Mails, 1..Cardinality(Mails)) : TRUE IN
       /\ remote = {[folder |-> place[m], uid |-> number[m], mail |-> m] : m \in Mails}
       /\ locations = {[msg |-> <<m, 1>>, folder |-> place[m], validity |-> 1,
                        uid |-> number[m]] : m \in Mails}
  /\ validity = [f \in Folders |-> 1]
  /\ nextUID = [f \in Folders |-> Cardinality(Mails) + 1]
  /\ checkpoint = validity
  /\ messages = {<<m, 1>> : m \in Mails}
  /\ op = [o \in Ops |-> NoOp] /\ ready = <<>>
  /\ worker = IdleWorker /\ pass = IdlePass
  /\ touched = [o \in Ops |-> {}] /\ removed = {}
  /\ passes = 0 /\ events = 0 /\ faults = 0

(* CreateOperation: the targets exist, a permanent delete finds them in the *)
(* trash; archive and trash can be undone for five seconds.                 *)
CreateOperation(o, k, T, f) ==
  /\ op[o].status = "none" /\ \A p \in Ops : p < o => op[p].status # "none"
  /\ T # {} /\ T \subseteq messages
  /\ k = "delete" => \A m \in T : \E r \in locations : r.msg = m /\ r.folder = "trash"
  /\ f = CASE k = "archive" -> "archive" [] k = "trash" -> "trash" [] k = "move" -> f
           [] OTHER -> "inbox"
  /\ LET undoable == k \in {"archive", "trash"} IN
     /\ op' = [op EXCEPT ![o] = [status |-> "queued", kind |-> k, targets |-> T, to |-> f,
                                 window |-> undoable]]
     /\ ready' = IF undoable THEN ready ELSE Append(ready, o)
  /\ UNCHANGED <<server, mailTables, worker, pass, history, bounds>>

(* execute_after passes: the windows close in the order they were opened.   *)
WindowCloses(o) ==
  /\ op[o].window /\ \A p \in Ops : p < o => ~op[p].window
  /\ op' = [op EXCEPT ![o].window = FALSE]
  /\ ready' = IF op[o].status = "queued" THEN Append(ready, o) ELSE ready
  /\ UNCHANGED <<server, mailTables, worker, pass, history, bounds>>

UndoOperation(o) ==
  /\ op[o].status = "queued" /\ op[o].window
  /\ op' = [op EXCEPT ![o].status = "cancelled", ![o].window = FALSE]
  /\ UNCHANGED <<server, mailTables, ready, worker, pass, history, bounds>>

-----------------------------------------------------------------------------
Goto(pc) == worker' = [worker EXCEPT !.pc = pc]
Finish(outcome) == worker' = [worker EXCEPT !.pc = "finish", !.outcome = outcome]
Current == op[worker.op]
Moving == Current.kind \in {"archive", "move", "trash"}

(* partialOperationError: an error before the first commit failed, one      *)
(* after it leaves the operation in doubt.                                  *)
PartialAlwaysFailed == "failed"      \* seeded fault: the commit is forgotten
Partial == IF worker.committed THEN "unknown" ELSE "failed"

(* claimOperation: the queued operation with the smallest execute_after.    *)
ClaimOperation ==
  \E i \in DOMAIN ready :
    /\ worker.pc = "idle"
    /\ op[ready[i]].status = "queued"
    /\ \A k \in DOMAIN ready : k < i => op[ready[k]].status # "queued"
    /\ op' = [op EXCEPT ![ready[i]].status = "running"]
    /\ ready' = SubSeq(ready, i + 1, Len(ready))
    /\ worker' = [IdleWorker EXCEPT !.pc = "claimed", !.op = ready[i]]
    /\ UNCHANGED <<server, mailTables, pass, history, bounds>>

(* chooseMoveSources, and the locations a permanent delete or a flag is     *)
(* for.  Roles are preferred in the order of operationLocations; of a       *)
(* message's rows in one folder the random row IDs decide, so any may be    *)
(* the one.                                                                 *)
Role(f) == CASE f = "inbox" -> 0 [] f = "archive" -> 1 [] f = "trash" -> 2
TrashOnly(rows) == {r \in rows : r.folder = "trash"}
Preferred(r, rows) ==
  \A q \in rows :
    q.msg = r.msg => Role(r.folder) <= Role(q.folder)
OneOfEach(rows) ==
  {S \in SUBSET rows : \A r \in rows : \E s \in S :
     {t \in S : t.msg = r.msg} = {s}}
Choices(rows) ==
  LET elsewhere == {r \in rows : r.folder # Current.to} IN
  CASE Current.kind = "flag" -> {rows}
    [] Current.kind = "delete" -> {TrashOnly(rows)}
    [] Current.kind = "archive" -> {{r \in elsewhere : r.folder = "inbox"}}
    [] OTHER -> OneOfEach({r \in elsewhere : Preferred(r, elsewhere)})

(* applyOperation up to the first SELECT.  operationLocations reads the     *)
(* rows of the targets, each of which must still exist and be somewhere;    *)
(* what follows (account, connection, destination, capabilities) depends    *)
(* on nothing the other steps here change.  "none" is a server without      *)
(* MOVE and UIDPLUS, or for a delete without UIDPLUS.                       *)
LoadOperation ==
  /\ worker.pc = "claimed"
  /\ IF Current.targets \subseteq messages /\ \A m \in Current.targets : Located(m)
     THEN \/ Finish("failed")
          \/ Moving /\ Finish("needs_attention")
          \/ \E s \in Strategies,
                sources \in Choices({r \in locations : r.msg \in Current.targets}) :
               LET planned == [worker EXCEPT !.chosen = sources, !.todo = sources,
                                             !.strategy = s]
               IN worker' =
                    IF sources = {}
                    THEN [planned EXCEPT !.pc = "finish",
                            !.outcome = IF Moving THEN "succeeded" ELSE "needs_attention"]
                    ELSE IF s = "none" /\ Current.kind # "flag"
                    THEN [planned EXCEPT !.pc = "finish", !.outcome = "needs_attention"]
                    ELSE [planned EXCEPT !.pc = "select"]
     ELSE Finish("needs_attention")
  /\ UNCHANGED <<server, mailTables, opTables, pass, history, bounds>>

(* selectLocationGroup: one folder at a time, and its UIDVALIDITY must be   *)
(* the one the locations were stored under.                                 *)
GroupsOf(rows) ==
  {{q \in rows : q.folder = r.folder /\ q.validity = r.validity} : r \in rows}
SameValidityIgnored(r) == TRUE       \* seeded fault: SELECT's answer is not looked at
SameValidity(r) == r.validity = validity[r.folder]

SelectLocationGroup ==
  /\ worker.pc = "select" /\ worker.todo # {}
  /\ \/ \E group \in GroupsOf(worker.todo) : \E r \in group :
          IF SameValidity(r)
          THEN worker' = [worker EXCEPT !.pc = "selected", !.group = group, !.moved = {},
                            !.session = validity[r.folder], !.todo = @ \ group]
          ELSE Finish("needs_attention")
     \/ Finish(Partial)
  /\ UNCHANGED <<server, mailTables, opTables, pass, history, bounds>>

-----------------------------------------------------------------------------
(* The IMAP commands.  One that fails may have been carried out for none,   *)
(* some or all of its messages; in a mailbox that was re-created under the  *)
(* session it fails and does nothing.                                       *)
SessionIsGood == \A r \in worker.group : validity[r.folder] = worker.session
Selected ==
  {c \in remote : SessionIsGood /\ \E r \in worker.group : r.folder = c.folder /\ r.uid = c.uid}
AnswersAnyway(S) == SessionIsGood    \* seeded fault: NO and BAD are not looked at
Answers(S) == SessionIsGood /\ S = Selected
Touch(S) == touched' = [touched EXCEPT ![worker.op] = @ \cup MailsOf(S)]

(* The copies S appended to folder f.  The server is assumed to number them *)
(* in the order of their source UIDs; COPYUID tells the pairs either way.   *)
Rank(c, S) == Cardinality({d \in S : d.uid < c.uid})
Appended(S, f) == {[folder |-> f, uid |-> nextUID[f] + Rank(c, S), mail |-> c.mail] : c \in S}
(* mapUIDs: source and destination UID, or nothing if the server leaves     *)
(* COPYUID out.  Seeded fault: the two lists are paired in opposite orders. *)
UIDPairsReversed(S, f) ==
  {<<c.uid, nextUID[f] + Cardinality(S) - 1 - Rank(c, S)>> : c \in S}
UIDPairs(S, f) == {<<c.uid, nextUID[f] + Rank(c, S)>> : c \in S}

StoreFlags ==
  /\ worker.pc = "selected" /\ Current.kind = "flag"
  /\ \E S \in SUBSET Selected :
       /\ Touch(S)
       /\ Finish("unknown") \/ (Answers(S) /\ Goto("commit"))
  /\ UNCHANGED <<server, mailTables, opTables, pass, removed, bounds>>

(* MOVE, or COPY as the first half of copy-and-delete.                      *)
Transfer ==
  /\ worker.pc = "selected" /\ Moving
  /\ \E S \in SUBSET Selected :
       LET f == Current.to
           copying == worker.strategy = "copy"
       IN /\ remote' = (IF copying THEN remote ELSE remote \ S) \cup Appended(S, f)
          /\ nextUID' = [nextUID EXCEPT ![f] = @ + Cardinality(S)]
          /\ Touch(S)
          /\ \/ Finish("unknown")
             \/ /\ Answers(S)
                /\ \E pairs \in {{}, UIDPairs(S, f)} :
                     worker' = [worker EXCEPT !.pc = IF copying THEN "copied" ELSE "commit",
                       !.moved = {[uid |-> p[1], to |-> p[2], validity |-> validity[f]] : p \in pairs}]
  /\ UNCHANGED <<validity, mailTables, opTables, pass, removed, bounds>>

(* Delete: \Deleted and UID EXPUNGE of these UIDs only.                     *)
Expunge ==
  /\ worker.pc = "copied" \/ (worker.pc = "selected" /\ Current.kind = "delete")
  /\ \E S \in SUBSET Selected :
       /\ remote' = remote \ S
       /\ Touch(S)
       /\ removed' = removed \cup MailsOf({c \in S : Current.kind = "delete" /\ c.folder = "trash"})
       /\ Finish("unknown") \/ (Answers(S) /\ Goto("commit"))
  /\ UNCHANGED <<validity, nextUID, mailTables, opTables, pass, bounds>>

-----------------------------------------------------------------------------
Fault == faults < MaxFaults /\ faults' = faults + 1

(* commitMoveProgress and commitFlagProgress, one group at a time: the      *)
(* source rows go; where COPYUID was given the destination row is inserted, *)
(* or takes over the row a pass has stored for that UID already.  The       *)
(* insert fails when the message itself has been dropped meanwhile.         *)
Arrivals ==
  {[msg |-> x[1].msg, folder |-> Current.to, validity |-> x[2].validity, uid |-> x[2].to] :
     x \in {y \in worker.group \X worker.moved : y[1].uid = y[2].uid}}
SamePlace(q, r) == q.folder = r.folder /\ q.validity = r.validity /\ q.uid = r.uid
AfterMove ==
  {q \in locations \ worker.group : ~ \E r \in Arrivals : SamePlace(q, r)} \cup Arrivals

(* A permanent delete drops the targets that are nowhere any more.          *)
Remaining(rows) == {m \in messages : m \notin Current.targets \/ \E r \in rows : r.msg = m}

(* Seeded fault: the loop over the groups is left after the first.          *)
NextGroupIsLast ==
  worker' = [worker EXCEPT !.pc = "finish", !.outcome = "succeeded", !.committed = TRUE]
NextGroup == worker' = [worker EXCEPT !.pc = "select", !.committed = TRUE]

CommitProgress ==
  /\ worker.pc = "commit" /\ {r.msg : r \in Arrivals} \subseteq messages
  /\ locations' = IF Current.kind = "flag" THEN locations ELSE AfterMove
  /\ messages' = IF Current.kind = "delete" THEN Remaining(AfterMove) ELSE messages
  /\ NextGroup
  /\ UNCHANGED <<server, checkpoint, opTables, pass, history, bounds>>

CommitFails ==
  /\ worker.pc = "commit"
  /\ \/ ~ {r.msg : r \in Arrivals} \subseteq messages /\ UNCHANGED faults
     \/ Fault
  /\ Finish("unknown")
  /\ UNCHANGED <<server, mailTables, opTables, pass, history, passes, events>>

(* Every group is done.                                                     *)
AllGroupsDone ==
  /\ worker.pc = "select" /\ worker.todo = {}
  /\ Finish("succeeded")
  /\ UNCHANGED <<server, mailTables, opTables, pass, history, bounds>>

(* finishOperation and completeFlagOperation write the outcome of a running *)
(* operation; of one a rebuild took away they write nothing.  If a success  *)
(* cannot be written, processOperation tries to write the doubt.            *)
StillRunning(o) == op[o].status = "running"
FinishOperation ==
  /\ worker.pc = "finish"
  /\ op' = IF StillRunning(worker.op) THEN [op EXCEPT ![worker.op].status = worker.outcome] ELSE op
  /\ worker' = IdleWorker
  /\ UNCHANGED <<server, mailTables, ready, pass, history, bounds>>

FinishFails ==
  /\ worker.pc = "finish" /\ Fault
  /\ IF worker.outcome = "succeeded" THEN Finish(Partial) ELSE worker' = IdleWorker
  /\ UNCHANGED <<server, mailTables, opTables, pass, history, passes, events>>

(* Restart: recoverInFlight.                                                *)
RecoveredToQueue == "queued"         \* seeded fault: what was running is run again
Recovered == "unknown"
Restart ==
  /\ Fault
  /\ worker' = IdleWorker /\ pass' = IdlePass
  /\ op' = [o \in Ops |-> IF StillRunning(o) THEN [op[o] EXCEPT !.status = Recovered] ELSE op[o]]
  /\ UNCHANGED <<server, mailTables, ready, history, passes, events>>

-----------------------------------------------------------------------------
(* A synchronisation pass of a folder.  syncFolder reads the pending        *)
(* operations before it selects the folder.                                 *)
PendingOperationIDs(f) ==
  /\ pass.pc = "idle" /\ passes < MaxPasses /\ passes' = passes + 1
  /\ pass' = [IdlePass EXCEPT !.pc = "read", !.folder = f,
                !.pending = {o \in Ops : op[o].status \in {"queued", "running"}}]
  /\ UNCHANGED <<server, mailTables, opTables, worker, history, events, faults>>

SelectFolder ==
  /\ pass.pc = "read"
  /\ pass' = [pass EXCEPT !.pc = "selected", !.validity = validity[pass.folder],
                          !.next = nextUID[pass.folder]]
  /\ UNCHANGED <<server, mailTables, opTables, worker, history, bounds>>

(* PrepareFolder: a new UIDVALIDITY drops the folder's rows and hands the   *)
(* pending operations to the user.                                          *)
PrepareFolder ==
  LET f == pass.folder
      kept == {r \in locations : r.folder # f}
  IN
  /\ pass.pc = "selected"
  /\ IF checkpoint[f] # pass.validity
     THEN /\ locations' = kept /\ messages' = WithLocation(kept)
          /\ op' = [o \in Ops |->
               IF o \in pass.pending /\ op[o].status \in {"queued", "running"}
               THEN [op[o] EXCEPT !.status = "needs_attention", !.window = FALSE] ELSE op[o]]
     ELSE UNCHANGED <<locations, messages, op>>
  /\ checkpoint' = [checkpoint EXCEPT ![f] = pass.validity]
  /\ pass' = [pass EXCEPT !.pc = "prepared"]
  /\ UNCHANGED <<server, ready, worker, history, bounds>>

ListFolder ==
  /\ pass.pc = "prepared"
  /\ pass' = IF validity[pass.folder] = pass.validity
             THEN [pass EXCEPT !.pc = "listed", !.listed = {c \in remote : c.folder = pass.folder}]
             ELSE IdlePass
  /\ UNCHANGED <<server, mailTables, opTables, worker, history, bounds>>

(* StoreMessages: a copy without a row gets one: for Gmail under the        *)
(* message that stands for the mail already, elsewhere under a message that *)
(* has lost its place if Message-ID, date and size tell so, or a new one.   *)
HasRow(c) ==
  \E r \in locations : r.folder = c.folder /\ r.uid = c.uid /\ r.validity = pass.validity
(* A new row's ID is fresh: no row has it, and no operation names it.       *)
Named == messages \cup UNION {op[o].targets : o \in Ops}
NewMessage(c) ==
  CHOOSE m \in {<<c.mail, n>> : n \in 1..(Cardinality(Named) + 1)} : m \notin Named
MessagesFor(c) ==
  LET same == {m \in messages : MailOf(m) = c.mail} IN
  IF Gmail THEN IF same # {} THEN same ELSE {NewMessage(c)}
  ELSE {m \in same : ~Located(m)} \cup {NewMessage(c)}

StoreMessages ==
  /\ pass.pc = "listed"
  /\ \/ \E c \in pass.listed : \E m \in MessagesFor(c) :
          /\ ~HasRow(c)
          /\ locations' = locations \cup {[msg |-> m, folder |-> c.folder,
                                           validity |-> pass.validity, uid |-> c.uid]}
          /\ messages' = messages \cup {m}
          /\ UNCHANGED pass
     \/ /\ \A c \in pass.listed : HasRow(c)
        /\ pass' = [pass EXCEPT !.pc = "stored"]
        /\ UNCHANGED <<locations, messages>>
  /\ UNCHANGED <<server, checkpoint, opTables, worker, history, bounds>>

ReconcileFolder ==
  LET kept == {r \in locations :
        r.folder = pass.folder =>
          /\ r.validity = pass.validity
          /\ r.uid >= pass.next \/ \E c \in pass.listed : c.uid = r.uid}
  IN
  /\ pass.pc = "stored"
  /\ locations' = kept /\ messages' = WithLocation(kept)
  /\ pass' = IdlePass
  /\ UNCHANGED <<server, checkpoint, opTables, worker, history, bounds>>

-----------------------------------------------------------------------------
(* Other mail clients, and a mailbox that is re-created and renumbered.     *)
Event == events < MaxEvents /\ events' = events + 1

OtherClientExpunges(c) ==
  /\ Event
  /\ remote' = remote \ {c} /\ removed' = removed \cup {c.mail}
  /\ UNCHANGED <<validity, nextUID, mailTables, opTables, worker, pass, touched, passes, faults>>

OtherClientTransfers(c, f) ==
  /\ Event /\ f # c.folder
  /\ \E gone \in {{}, {c}} : remote' = (remote \ gone) \cup Appended({c}, f)
  /\ nextUID' = [nextUID EXCEPT ![f] = @ + 1]
  /\ UNCHANGED <<validity, mailTables, opTables, worker, pass, history, passes, faults>>

Recreate(f) ==
  LET here == {c \in remote : c.folder = f} IN
  /\ Event /\ validity[f] < MaxValidity
  /\ validity' = [validity EXCEPT ![f] = @ + 1]
  /\ \E number \in Injection(here, 1..Cardinality(here)) :
         remote' = (remote \ here) \cup {[c EXCEPT !.uid = number[c]] : c \in here}
  /\ nextUID' = [nextUID EXCEPT ![f] = Cardinality(here) + 1]
  /\ UNCHANGED <<mailTables, opTables, worker, pass, history, passes, faults>>

-----------------------------------------------------------------------------
WorkerStep ==
  \/ ClaimOperation \/ LoadOperation \/ SelectLocationGroup
  \/ StoreFlags \/ Transfer \/ Expunge \/ CommitProgress \/ CommitFails \/ AllGroupsDone
  \/ FinishOperation \/ FinishFails

PassStep ==
  \/ \E f \in Folders : PendingOperationIDs(f)
  \/ SelectFolder \/ PrepareFolder \/ ListFolder \/ StoreMessages \/ ReconcileFolder

Next ==
  \/ \E o \in Ops, k \in Kinds, T \in SUBSET messages, f \in Folders : CreateOperation(o, k, T, f)
  \/ \E o \in Ops : WindowCloses(o) \/ UndoOperation(o)
  \/ WorkerStep \/ PassStep \/ Restart
  \/ \E c \in remote : OtherClientExpunges(c) \/ \E f \in Folders : OtherClientTransfers(c, f)
  \/ \E f \in Folders : Recreate(f)

Spec == Init /\ [][Next]_vars

-----------------------------------------------------------------------------
TypeOK ==
  /\ \A c \in remote : c.folder \in Folders /\ c.mail \in Mails /\ c.uid < nextUID[c.folder]
  /\ \A r \in locations : r.msg \in messages /\ r.folder \in Folders
                          /\ r.validity \in 1..MaxValidity /\ r.uid \in Nat \ {0}
  /\ validity \in [Folders -> 1..MaxValidity] /\ checkpoint \in [Folders -> 1..MaxValidity]
  /\ \A o \in Ops : op[o].status \in {"none", "queued", "running", "succeeded", "failed",
                                      "cancelled", "unknown", "needs_attention"}
  /\ ready \in Seq(Ops) /\ worker.op \in 0..MaxOps
  /\ passes \in 0..MaxPasses /\ events \in 0..MaxEvents /\ faults \in 0..MaxFaults

(* uidvalidity_changed: a UID read from the database is used only while it  *)
(* still stands for the same message, so an operation never changes a mail  *)
(* the user did not choose, however the mailbox was renumbered meanwhile.   *)
OnlyTargetsTouched == \A o \in Ops : touched[o] \subseteq {MailOf(m) : m \in op[o].targets}

(* What the user is told was not done was not done: an operation that       *)
(* waits, was undone or failed has changed nothing on the server.           *)
UnappliedIsUntouched ==
  \A o \in Ops : op[o].status \in {"none", "queued", "cancelled", "failed"} => touched[o] = {}

(* operations.md, PlanMove: no move loses a mail, on whatever server and    *)
(* wherever it is interrupted; only a permanent delete of what is in the    *)
(* trash, or another client, removes the last copy.                         *)
MailIsNeverLost == \A m \in Mails \ removed : \E c \in remote : c.mail = m

(* The database names the right mail: a row whose UID the mailbox still     *)
(* holds belongs to that message, whether a pass or a move wrote it.        *)
RowsNameTheirMail ==
  \A r \in locations, c \in remote :
    r.folder = c.folder /\ r.validity = validity[r.folder] /\ r.uid = c.uid
      => MailOf(r.msg) = c.mail

(* An operation is reported as succeeded only when all it had to change is  *)
(* changed: no source is left where the worker found it.                    *)
SucceededIsComplete ==
  [][\A o \in Ops : op[o].status = "running" /\ op'[o].status = "succeeded" =>
       \A r \in worker.chosen, c \in remote :
         SamePlace(r, [folder |-> c.folder, uid |-> c.uid, validity |-> validity[c.folder]])
           => op[o].kind = "flag" /\ c.mail \in touched[o]]_vars

(* Each operation follows the lifecycle of mailstore/operation.go; what is  *)
(* in doubt needs attention there.                                          *)
Abstract ==
  [queued |-> "scheduled", running |-> "applying", succeeded |-> "applied", cancelled |-> "undone",
   failed |-> "failed", unknown |-> "needs_attention", needs_attention |-> "needs_attention",
   none |-> "none"]
Lifecycle == INSTANCE OperationLifecycle WITH
  status <- [o \in Ops |-> Abstract[op[o].status]], open <- {o \in Ops : op[o].window}
FollowsLifecycle == Lifecycle!Spec
=============================================================================
