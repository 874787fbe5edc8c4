----------------------------- MODULE FolderSync -----------------------------
(***************************************************************************)
(* Synchronisation of ONE mail folder: the remote IMAP mailbox, the local   *)
(* rows of message_locations and sync_checkpoints, and the jobs that copy   *)
(* the first into the second (internal/sync/ingest.go,                      *)
(* internal/sync/checkpoint.go, internal/ingeststore/store.go, and the job  *)
(* bodies syncFolder and backfillFolder of internal/mailruntime/sync.go).   *)
(*                                                                          *)
(* Each account runs at most one foreground job (a new-mail probe) and one  *)
(* background job (a full reconciliation or a history backfill) at a time,  *)
(* so a folder sees two concurrent lanes.  Every transaction of the store   *)
(* and every IMAP command is one step; the lanes, the server and restarts   *)
(* interleave between them.                                                 *)
(***************************************************************************)
EXTENDS Integers, FiniteSets

CONSTANTS
  MaxUID,          \* bound: highest UID the server ever assigns
  MaxRebuiltUID,   \* bound: the same for a mailbox that is re-created
  MaxUint32,       \* largest value of the uint32 that carries a UID
  MaxValidity,     \* bound: last UIDVALIDITY generation of the mailbox
  MaxFailures,     \* bound: job failures and process restarts
  MaxExpunges,     \* bound: messages removed by other clients, and re-creations
  SearchLimit,     \* maximumInitialUIDs: a longer SEARCH result is an error
  StaleUIDNext,    \* may SELECT report a UIDNEXT below the real one?
  LateExposure,    \* may the server assign a UID before it shows the message?
  EarlyReconcile   \* may a reconcile run before the first sync has ended?

ASSUME ConstantsAssumption ==
  /\ MaxUID \in Nat \ {0} /\ MaxUint32 \in Nat /\ MaxUID <= MaxUint32
  /\ MaxValidity \in Nat \ {0} /\ MaxRebuiltUID \in 0..MaxUID
  /\ MaxFailures \in Nat /\ MaxExpunges \in Nat /\ SearchLimit \in Nat
  /\ {StaleUIDNext, LateExposure, EarlyReconcile} \subseteq BOOLEAN

VARIABLES
  srvValidity,     \* UIDVALIDITY of the remote mailbox
  srvNext,         \* its UIDNEXT
  srvMail,         \* UIDs it shows
  srvHidden,       \* UIDs assigned but not shown yet
  srvOld,          \* UIDs whose internal date is older than 90 days
  expunges,        \* removals and re-creations so far (bounded)
  cpValidity,      \* sync_checkpoints.uid_validity, 0 for NULL
  cpLast,          \* sync_checkpoints.last_uid, 0 for NULL
  backfill,        \* sync_checkpoints.backfill_before IS NOT NULL
  locations,       \* rows of message_locations, as <<uid_validity, uid>>
  backfillQueued,  \* a backfill job is queued or waiting for its retry timer
  job,             \* the job each lane runs
  failures         \* failures and restarts so far (bounded)

server == <<srvValidity, srvNext, srvMail, srvHidden, srvOld, expunges>>
database == <<cpValidity, cpLast, backfill, locations>>
vars == <<server, database, backfillQueued, job, failures>>

Lanes == {"fg", "bg"}
UIDs == 1..MaxUID
Max2(a, b) == IF a < b THEN b ELSE a
IsHighest(h, S) == h \in S \cup {0} /\ \A u \in S : u <= h

(* syncWorker runs new-mail probes in the foreground tier and reconciles    *)
(* and backfills in the background tier of the account.                     *)
KindsOf(l) == IF l = "fg" THEN {"folder"} ELSE {"reconcile", "backfill"}

IdleJob ==
  [pc |-> "idle", kind |-> "folder", reqV |-> 0, reqLast |-> 0, selV |-> 0,
   selNext |-> 0, todo |-> {}, high |-> 0, snap |-> {}]

PCs == {"idle", "read", "selected", "search", "store", "listed", "apply",
        "complete", "completed", "enqueue"}

Jobs ==
  [pc : PCs, kind : {"folder", "reconcile", "backfill"},
   reqV : 0..MaxValidity, reqLast : 0..MaxUID,
   selV : 0..MaxValidity, selNext : 0..(MaxUID + 1),
   todo : SUBSET UIDs, high : 0..MaxUID, snap : SUBSET UIDs]

(* ReconcileCheckpoint: what the stored UIDVALIDITY and the selected one    *)
(* ask for.                                                                 *)
Decision(j) ==
  IF j.reqV = 0 THEN "initialize"
  ELSE IF j.reqV # j.selV THEN "rebuild"
  ELSE "incremental"

FetchFrom(last) == IF last = MaxUint32 THEN last ELSE last + 1

(* Seeded fault: the probe's lower bound is exclusive.                      *)
SearchResultOffByOne(j) ==
  IF j.kind = "backfill" THEN srvMail \cap srvOld
  ELSE IF Decision(j) = "incremental"
       THEN {u \in srvMail : u > FetchFrom(j.reqLast)}
       ELSE srvMail \ srvOld

(* The UIDs the SEARCH of the job returns: the recent ones for a first      *)
(* sync, the old ones for a backfill, those past the checkpoint otherwise.  *)
SearchResult(j) ==
  IF j.kind = "backfill" THEN srvMail \cap srvOld
  ELSE IF Decision(j) = "incremental"
       THEN {u \in srvMail : u >= FetchFrom(j.reqLast)}
       ELSE srvMail \ srvOld

(* Seeded fault: a first sync checkpoints UIDNEXT itself.                   *)
NextLastIsUIDNext(j) ==
  Max2(j.high, IF Decision(j) = "incremental" THEN j.reqLast ELSE j.selNext)

(* Seeded fault: so does every sync, counting from UIDNEXT.                 *)
NextLastFromUIDNext(j) ==
  Max2(Max2(j.high, j.selNext - 1), IF Decision(j) = "incremental" THEN j.reqLast ELSE 0)

(* The last_uid a finished sync hands to CompleteFolder.                    *)
NextLast(j) ==
  Max2(j.high, IF Decision(j) = "incremental" THEN j.reqLast ELSE j.selNext - 1)

(* CompleteFolder's CASE: last_uid only grows within a generation.          *)
RaiseLastUnguarded(j) == NextLast(j)    \* seeded fault: a plain assignment
RaiseLast(j) ==
  IF cpValidity = j.selV THEN Max2(cpLast, NextLast(j)) ELSE NextLast(j)

(* Rows ReconcileFolder keeps: of the snapshot's generation, and either in  *)
(* the snapshot or too new for it (at or above the SELECT-time UIDNEXT).    *)
(* Seeded faults: no allowance for new rows; one that starts at the         *)
(* checkpoint; the generation is not compared.                              *)
KeepRowListedOnly(j, loc) == loc[1] = j.selV /\ loc[2] \in j.snap
KeepRowPastCheckpoint(j, loc) ==
  loc[1] = j.selV /\ (loc[2] >= j.reqLast \/ loc[2] \in j.snap)
KeepRow(j, loc) ==
  loc[1] = j.selV /\ (loc[2] >= j.selNext \/ loc[2] \in j.snap)

(* NeedsBackfill.  Seeded fault: asked after a first sync only.             *)
NeedsBackfillOnce(j) == backfill /\ j.reqV = 0
NeedsBackfill(j) == backfill

-----------------------------------------------------------------------------
(* UpsertFolders created the folder's row and its checkpoint: no            *)
(* UIDVALIDITY, no last UID, history still to be fetched.  The mailbox      *)
(* already holds any messages.                                              *)
Init ==
  /\ srvValidity = 1
  /\ srvNext \in 1..(MaxUID + 1)
  /\ srvMail = 1..(srvNext - 1)
  /\ srvHidden = {}
  /\ srvOld \in SUBSET srvMail
  /\ expunges = 0
  /\ cpValidity = 0 /\ cpLast = 0 /\ backfill = TRUE /\ locations = {}
  /\ backfillQueued = FALSE
  /\ job = [l \in Lanes |-> IdleJob]
  /\ failures = 0

(* The folder's first sync is behind it: none is owed, none is running.     *)
FirstSyncOver ==
  cpValidity # 0 /\ (job["fg"].pc = "idle" \/ job["fg"].reqV # 0)

(* A worker takes a job and reads the checkpoint it will base itself on.    *)
ReadCheckpoint(l, k) ==
  /\ job[l].pc = "idle" /\ k \in KindsOf(l)
  /\ k = "reconcile" => EarlyReconcile \/ FirstSyncOver
  /\ k = "backfill" => backfillQueued /\ cpValidity # 0
  /\ job' = [job EXCEPT ![l] = [IdleJob EXCEPT
       !.pc = "read", !.kind = k, !.reqV = cpValidity, !.reqLast = cpLast]]
  /\ backfillQueued' = (backfillQueued /\ k # "backfill")
  /\ UNCHANGED <<server, database, failures>>

(* Only a sync prepares the folder before it searches.                      *)
AfterSelect(kind) == IF kind = "backfill" THEN "search" ELSE "selected"

(* The UIDNEXT a SELECT may report: the real one, an older one, or none     *)
(* (which reads as zero) once the real one does not fit in 32 bits.         *)
ReportedNext ==
  {n \in 0..srvNext :
     n = srvNext \/ (n # 0 /\ StaleUIDNext) \/ (n = 0 /\ srvNext > MaxUint32)}

(* SELECT.  A number that does not fit in 32 bits fails the command for     *)
(* every job; a UIDNEXT of zero is refused by a sync, and a backfill looks  *)
(* only at the UIDVALIDITY, which must be the checkpoint's.                 *)
SelectFolder(l) ==
  LET j == job[l] IN
  /\ j.pc = "read"
  /\ j.kind = "backfill" => srvValidity = j.reqV
  /\ \E reported \in ReportedNext :
       /\ reported <= MaxUint32
       /\ j.kind # "backfill" => reported # 0
       /\ job' = [job EXCEPT ![l] = [j EXCEPT
            !.pc = AfterSelect(j.kind), !.selV = srvValidity, !.selNext = reported]]
  /\ UNCHANGED <<server, database, backfillQueued, failures>>

(* PrepareFolder: a rebuild drops every row of the folder; the checkpoint   *)
(* takes the selected UIDVALIDITY at once and keeps its last UID and its    *)
(* backfill bound.                                                          *)
PrepareFolder(l) ==
  LET j == job[l] IN
  /\ j.pc = "selected"
  /\ locations' = IF Decision(j) = "rebuild" THEN {} ELSE locations
  /\ cpValidity' = j.selV
  /\ job' = [job EXCEPT ![l].pc = "search"]
  /\ UNCHANGED <<server, cpLast, backfill, backfillQueued, failures>>

(* UID SEARCH in the selected mailbox.                                      *)
SearchUIDs(l) ==
  LET j == job[l] IN
  /\ j.pc = "search" /\ srvValidity = j.selV
  /\ Cardinality(SearchResult(j)) <= SearchLimit
  /\ \E h \in 0..MaxUID :
       /\ IsHighest(h, SearchResult(j))
       /\ job' = [job EXCEPT ![l] = [j EXCEPT
            !.pc = "store", !.todo = SearchResult(j), !.high = h]]
  /\ UNCHANGED <<server, database, backfillQueued, failures>>

(* Fetch and store one message in a transaction of its own.  A message      *)
(* that disappeared meanwhile is skipped, or was fetched before it went.    *)
StoreMessage(l) ==
  LET j == job[l] IN
  /\ j.pc = "store"
  /\ \E u \in j.todo :
       /\ \/ locations' = locations \cup {<<j.selV, u>>}
          \/ /\ u \notin srvMail \/ srvValidity # j.selV
             /\ locations' = locations
       /\ job' = [job EXCEPT ![l].todo = @ \ {u}]
  /\ UNCHANGED <<server, cpValidity, cpLast, backfill, backfillQueued, failures>>

(* The reconcile pass lists the whole mailbox (SEARCH ALL); beyond the      *)
(* SEARCH limit it is skipped and the sync goes on without it.              *)
ListFolder(l) ==
  LET j == job[l] IN
  /\ j.pc = "store" /\ j.todo = {} /\ j.kind = "reconcile"
  /\ srvValidity = j.selV
  /\ \/ /\ Cardinality(srvMail) <= SearchLimit
        /\ job' = [job EXCEPT ![l] = [j EXCEPT !.pc = "listed", !.snap = srvMail]]
     \/ /\ Cardinality(srvMail) > SearchLimit
        /\ job' = [job EXCEPT ![l].pc = "complete"]
  /\ UNCHANGED <<server, database, backfillQueued, failures>>

(* FETCH of the listed messages' states, one for each of them.  A message   *)
(* that was expunged meanwhile may still be shown to this session.          *)
FetchStates(l) ==
  /\ job[l].pc = "listed" /\ srvValidity = job[l].selV
  /\ job' = [job EXCEPT ![l].pc = "apply"]
  /\ UNCHANGED <<server, database, backfillQueued, failures>>

(* ReconcileFolder: drop the rows the snapshot disowns.                     *)
ReconcileFolder(l) ==
  LET j == job[l] IN
  /\ j.pc = "apply"
  /\ locations' = {loc \in locations : KeepRow(j, loc)}
  /\ job' = [job EXCEPT ![l] = [j EXCEPT !.pc = "complete", !.snap = {}]]
  /\ UNCHANGED <<server, cpValidity, cpLast, backfill, backfillQueued, failures>>

(* CompleteFolder: the transaction that moves the checkpoint.               *)
CompleteFolder(l) ==
  LET j == job[l] IN
  /\ \/ j.pc = "complete"
     \/ j.pc = "store" /\ j.todo = {} /\ j.kind = "folder"
  /\ cpLast' = RaiseLast(j)
  /\ cpValidity' = j.selV
  /\ job' = [job EXCEPT ![l] = [IdleJob EXCEPT
       !.pc = "completed", !.kind = j.kind, !.reqV = j.reqV]]
  /\ UNCHANGED <<server, backfill, locations, backfillQueued, failures>>

(* syncFolder then reads whether history is still owed ...                  *)
ReadBackfill(l) ==
  LET j == job[l] IN
  /\ j.pc = "completed"
  /\ job' = [job EXCEPT ![l] =
       IF NeedsBackfill(j) THEN [j EXCEPT !.pc = "enqueue"] ELSE IdleJob]
  /\ UNCHANGED <<server, database, backfillQueued, failures>>

(* ... and hands the backfill to the queue, outside any transaction.        *)
EnqueueBackfill(l) ==
  /\ job[l].pc = "enqueue"
  /\ backfillQueued' = TRUE
  /\ job' = [job EXCEPT ![l] = IdleJob]
  /\ UNCHANGED <<server, database, failures>>

(* Seeded fault: the backfill is marked complete before its last message.   *)
CompleteBackfillEarly(l) ==
  /\ job[l].pc = "store" /\ job[l].kind = "backfill"
  /\ backfill' = FALSE
  /\ job' = [job EXCEPT ![l] = IdleJob]
  /\ UNCHANGED <<server, cpValidity, cpLast, locations, backfillQueued, failures>>

CompleteBackfill(l) ==
  /\ job[l].pc = "store" /\ job[l].todo = {} /\ job[l].kind = "backfill"
  /\ backfill' = FALSE
  /\ job' = [job EXCEPT ![l] = IdleJob]
  /\ UNCHANGED <<server, cpValidity, cpLast, locations, backfillQueued, failures>>

(* An error ends the job where it stands; a failed backfill is retried by   *)
(* its timer (probes and reconciles come again by themselves).              *)
EndWithError(l) ==
  /\ backfillQueued' = (backfillQueued \/ job[l].kind = "backfill")
  /\ job' = [job EXCEPT ![l] = IdleJob]
  /\ UNCHANGED <<server, database>>

(* The errors the state itself causes: a UIDNEXT that cannot be read or is  *)
(* zero, a backfill of another generation, a SEARCH over the limit, a       *)
(* listed message without a state, a session whose mailbox was re-created.  *)
RefuseJob(l) ==
  LET j == job[l] IN
  /\ \/ /\ j.pc = "read"
        /\ srvNext > MaxUint32 \/ (j.kind = "backfill" /\ srvValidity # j.reqV)
     \/ /\ j.pc = "search"
        /\ srvValidity # j.selV \/ Cardinality(SearchResult(j)) > SearchLimit
     \/ /\ j.pc = "store" /\ j.todo = {} /\ j.kind = "reconcile"
        /\ srvValidity # j.selV
     \/ /\ j.pc = "listed"
        /\ srvValidity # j.selV \/ ~(j.snap \subseteq srvMail)
  /\ EndWithError(l)
  /\ UNCHANGED failures

(* The errors the network and the database cause, at any point.             *)
FailJob(l) ==
  /\ job[l].pc # "idle" /\ failures < MaxFailures
  /\ failures' = failures + 1
  /\ EndWithError(l)

(* The process stops and starts again: the tables survive, the jobs and     *)
(* their queue do not.                                                      *)
Restart ==
  /\ failures < MaxFailures
  /\ failures' = failures + 1
  /\ backfillQueued' = FALSE
  /\ job' = [l \in Lanes |-> IdleJob]
  /\ UNCHANGED <<server, database>>

-----------------------------------------------------------------------------
(* The mailbox, as the synchroniser's use of it assumes: UIDs grow within   *)
(* a generation and messages come to show in that order; other clients      *)
(* deliver, move in old mail, and expunge.                                  *)
LastUID == IF srvValidity = 1 THEN MaxUID ELSE MaxRebuiltUID

Deliver ==
  /\ srvNext <= LastUID
  /\ srvNext' = srvNext + 1
  /\ \/ /\ srvHidden = {}
        /\ srvMail' = srvMail \cup {srvNext}
        /\ srvHidden' = srvHidden
     \/ /\ LateExposure
        /\ srvHidden' = srvHidden \cup {srvNext}
        /\ srvMail' = srvMail
  /\ srvOld' \in {srvOld, srvOld \cup {srvNext}}
  /\ UNCHANGED <<srvValidity, expunges, database, backfillQueued, job, failures>>

Expose ==
  \E u \in srvHidden :
    /\ \A w \in srvHidden : u <= w
    /\ srvMail' = srvMail \cup {u}
    /\ srvHidden' = srvHidden \ {u}
    /\ UNCHANGED <<srvValidity, srvNext, srvOld, expunges,
                   database, backfillQueued, job, failures>>

Expunge(u) ==
  /\ u \in srvMail /\ expunges < MaxExpunges
  /\ srvMail' = srvMail \ {u}
  /\ expunges' = expunges + 1
  /\ UNCHANGED <<srvValidity, srvNext, srvHidden, srvOld,
                 database, backfillQueued, job, failures>>

(* Ninety days pass for a message.                                          *)
Age(u) ==
  /\ u \in srvMail \ srvOld
  /\ srvOld' = srvOld \cup {u}
  /\ UNCHANGED <<srvValidity, srvNext, srvMail, srvHidden, expunges,
                 database, backfillQueued, job, failures>>

(* The mailbox is re-created: a new UIDVALIDITY, its messages renumbered.   *)
Recreate ==
  /\ srvValidity < MaxValidity /\ srvNext <= MaxRebuiltUID + 1 /\ expunges < MaxExpunges
  /\ srvValidity' = srvValidity + 1
  /\ expunges' = expunges + 1
  /\ \E n \in 0..MaxRebuiltUID :
       /\ srvNext' = n + 1
       /\ srvMail' = 1..n
       /\ srvOld' \in SUBSET (1..n)
  /\ srvHidden' = {}
  /\ UNCHANGED <<database, backfillQueued, job, failures>>

-----------------------------------------------------------------------------
JobStep(l) ==
  \/ SelectFolder(l) \/ PrepareFolder(l) \/ SearchUIDs(l) \/ StoreMessage(l)
  \/ ListFolder(l) \/ FetchStates(l) \/ ReconcileFolder(l)
  \/ CompleteFolder(l) \/ ReadBackfill(l) \/ EnqueueBackfill(l)
  \/ CompleteBackfill(l) \/ RefuseJob(l)

ServerStep ==
  \/ Deliver \/ Expose \/ Recreate
  \/ \E u \in UIDs : Expunge(u) \/ Age(u)

Next ==
  \/ \E l \in Lanes : \E k \in KindsOf(l) : ReadCheckpoint(l, k)
  \/ \E l \in Lanes : JobStep(l) \/ FailJob(l)
  \/ Restart
  \/ ServerStep

Spec == Init /\ [][Next]_vars

(* Discovery queues the first sync of every folder and its retry timer      *)
(* comes back until it has started.  Later probes are owed to no folder but *)
(* the inbox, so nothing is asked of them.                                  *)
StartFirstSync == cpValidity = 0 /\ ReadCheckpoint("fg", "folder")

(* A started job runs on or ends in an error; the reconcile timer visits    *)
(* every folder again and again; the account's waiting list is first-in     *)
(* first-out, so neither kind of background job starves the other.          *)
Fairness ==
  /\ \A l \in Lanes : WF_vars(JobStep(l))
  /\ WF_vars(StartFirstSync)
  /\ SF_vars(ReadCheckpoint("bg", "reconcile"))
  /\ SF_vars(ReadCheckpoint("bg", "backfill"))

FairSpec == Spec /\ Fairness

-----------------------------------------------------------------------------
(* Every variable has its type.                                             *)
TypeOK ==
  /\ srvValidity \in 1..MaxValidity /\ srvNext \in 1..(MaxUID + 1)
  /\ srvMail \subseteq UIDs /\ srvHidden \subseteq UIDs /\ srvOld \subseteq UIDs
  /\ expunges \in 0..MaxExpunges /\ failures \in 0..MaxFailures
  /\ cpValidity \in 0..MaxValidity /\ cpLast \in 0..MaxUID
  /\ backfill \in BOOLEAN /\ backfillQueued \in BOOLEAN
  /\ locations \subseteq (1..MaxValidity) \X UIDs
  /\ job \in [Lanes -> Jobs]

Stored(u) == <<srvValidity, u>> \in locations
Checkpointed(u) == cpValidity = srvValidity /\ u <= cpLast

(* ingest.go:205-207: a message must never be skipped forever.  A recent    *)
(* message at or below the checkpoint is in the store: the next probe       *)
(* starts above it and a reconcile fetches nothing, so nothing else would   *)
(* ever bring it in.                                                        *)
RecentMailNotSkipped ==
  \A u \in srvMail \ srvOld : Checkpointed(u) => Stored(u)

(* initial.go:21-22 (recent mail first, history later at low priority): an  *)
(* old message at or below the checkpoint is in the store unless a          *)
(* backfill is still owed.                                                  *)
HistoryNotForgotten ==
  \A u \in srvMail \cap srvOld : Checkpointed(u) => Stored(u) \/ backfill

(* The same promise across UIDVALIDITY generations, asked only when no job  *)
(* is under way: ingest.go:64-67 has a rebuild reset the folder, so mail of *)
(* the new generation must not count as checkpointed because the old        *)
(* generation's did.                                                        *)
Quiet == \A l \in Lanes : job[l].pc = "idle"
RebuiltMailNotSkipped == Quiet => RecentMailNotSkipped

(* store.go:325-327: a reconcile racing a new-mail probe must not take for  *)
(* deletions the rows stored after its snapshot: no step drops the row of   *)
(* a message the mailbox still shows.                                       *)
LiveRowsKept ==
  [][\A u \in srvMail : Stored(u) => Stored(u)']_vars

(* store.go:460-462: last_uid never moves backwards within a UIDVALIDITY    *)
(* generation, whichever lane completes last.                               *)
LastUIDNeverRewinds ==
  [][cpValidity' = cpValidity => cpLast' >= cpLast]_vars

(* ingest.go:205-207, for the probes it speaks of: an incremental sync that *)
(* started below a UID the server has assigned but does not show yet never  *)
(* moves the checkpoint over it, so a later probe fetches that message.     *)
LateMailNotSkipped ==
  [][\A l \in Lanes :
       CompleteFolder(l) /\ Decision(job[l]) = "incremental" /\ job[l].selV = srvValidity =>
         \A u \in srvHidden : cpLast < u /\ job[l].reqLast < u => cpLast' < u]_vars

(* The checkpoint moves forward, and not too far: whichever of two lanes    *)
(* writes last, and however late the server shows what it has numbered.     *)
CheckpointIsSound == LastUIDNeverRewinds /\ LateMailNotSkipped

(* Synchronisation converges: a message the mailbox keeps showing is        *)
(* eventually stored, whatever jobs fail and restarts come in between.      *)
MailEventuallyStored ==
  \A u \in UIDs : (u \in srvMail) ~> (Stored(u) \/ u \notin srvMail)

(* The row of a message that was expunged, or that belongs to an older      *)
(* UIDVALIDITY generation, is dropped by a reconcile in the end, whatever   *)
(* jobs fail and whatever a probe stores next to it, or too late -          *)
(* provided the mailbox comes to fit the SEARCH limit and stays there:      *)
(* ingest.go:403-407 skips the pass over a folder beyond it, which keeps    *)
(* its dead rows for as long as it is that long.  (The model's expunges and *)
(* re-creations are bounded, so the mailbox comes to rest.)                 *)
WithinLimit == Cardinality(srvMail) <= SearchLimit
DeadRows == {loc \in locations : loc[1] # srvValidity \/ loc[2] \notin srvMail}

DeadRowsPurged == <>[]WithinLimit => <>[](DeadRows = {})
=============================================================================
