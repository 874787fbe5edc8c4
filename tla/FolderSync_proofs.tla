-------------------------- MODULE FolderSync_proofs --------------------------
(***************************************************************************)
(* Theorems about FolderSync, for every value of its constants.            *)
(*                                                                         *)
(*   TypeCorrect          Spec => []TypeOK                                 *)
(*   LastUIDMonotone      Spec => LastUIDNeverRewinds                      *)
(*   LateMailIsAwaited    Spec => LateMailNotSkipped                       *)
(*   CheckpointStaysSound Spec => CheckpointIsSound, the two together      *)
(* and, within one UIDVALIDITY generation and with every assigned UID shown, *)
(*   NoRecentMailSkipped  Spec => []RecentMailNotSkipped                   *)
(*   LiveRowsAreKept      Spec => LiveRowsKept                             *)
(***************************************************************************)
EXTENDS FolderSync, TLAPS

-----------------------------------------------------------------------------
(* Type correctness.  A row may only be stored under a UIDVALIDITY that was *)
(* selected, so TypeOK needs the stage at which selV is known.              *)
Unselected == {"idle", "read", "completed", "enqueue"}

SelectedHasValidity ==
  \A l \in Lanes : job[l].pc \notin Unselected => job[l].selV # 0

TypeInv == TypeOK /\ SelectedHasValidity

(* The empty job record is a job.                                           *)
LEMMA IdleJobType == IdleJob \in Jobs /\ IdleJob.pc = "idle"
  BY ConstantsAssumption DEF IdleJob, Jobs, PCs, UIDs

(* The last UID handed to CompleteFolder, and the one it stores, are UIDs   *)
(* or zero.                                                                 *)
LEMMA RaiseLastType ==
  ASSUME TypeOK, NEW j \in Jobs
  PROVE  NextLast(j) \in 0..MaxUID /\ RaiseLast(j) \in 0..MaxUID
  BY ConstantsAssumption DEF TypeOK, Jobs, NextLast, RaiseLast, Max2, Decision

LEMMA TypeInit == Init => TypeInv
<1> SUFFICES ASSUME Init PROVE TypeInv
  OBVIOUS
<1>1. srvNext \in 1..(MaxUID + 1) /\ srvMail \subseteq UIDs /\ srvOld \subseteq UIDs
  BY ConstantsAssumption DEF Init, UIDs
<1>2. job \in [Lanes -> Jobs] /\ \A l \in Lanes : job[l].pc = "idle"
  BY IdleJobType DEF Init
<1>3. srvValidity \in 1..MaxValidity /\ cpValidity \in 0..MaxValidity /\ cpLast \in 0..MaxUID
      /\ expunges \in 0..MaxExpunges /\ failures \in 0..MaxFailures
  BY ConstantsAssumption DEF Init
<1>4. QED
  BY <1>1, <1>2, <1>3 DEF Init, TypeInv, TypeOK, SelectedHasValidity, Unselected

LEMMA TypeStep == TypeInv /\ [Next]_vars => TypeInv'
<1> SUFFICES ASSUME TypeInv, [Next]_vars PROVE TypeInv'
  OBVIOUS
<1> USE ConstantsAssumption, IdleJobType
<1>j. \A l \in Lanes : job[l] \in Jobs
  BY DEF TypeInv, TypeOK
<1>1. ASSUME NEW l \in Lanes, NEW k \in KindsOf(l), ReadCheckpoint(l, k)
      PROVE  TypeInv'
  <2>1. k \in {"folder", "reconcile", "backfill"}
    BY DEF KindsOf
  <2>2. job'[l] \in Jobs /\ job'[l].pc = "read" /\ job' \in [Lanes -> Jobs]
        /\ \A m \in Lanes \ {l} : job'[m] = job[m]
    BY <1>1, <1>j, <2>1 DEF ReadCheckpoint, TypeInv, TypeOK, Jobs, IdleJob, PCs
  <2>3. QED
    BY <1>1, <2>2
       DEF ReadCheckpoint, TypeInv, TypeOK, SelectedHasValidity, Unselected, server, database
<1>2. ASSUME NEW l \in Lanes, SelectFolder(l) PROVE TypeInv'
  <2>1. srvNext \in 1..(MaxUID + 1) /\ srvValidity \in 1..MaxValidity
        /\ job \in [Lanes -> Jobs]
    BY DEF TypeInv, TypeOK
  <2>2. PICK n \in 0..srvNext :
          job' = [job EXCEPT ![l] = [job[l] EXCEPT
            !.pc = AfterSelect(job[l].kind), !.selV = srvValidity, !.selNext = n]]
    BY <1>2 DEF SelectFolder, ReportedNext
  <2>21. AfterSelect(job[l].kind) \in PCs /\ n \in 0..(MaxUID + 1)
    BY <2>1 DEF AfterSelect, PCs
  <2>22. srvValidity \in 0..MaxValidity /\ srvValidity # 0
    BY <2>1
  <2>23. [job[l] EXCEPT !.pc = AfterSelect(job[l].kind), !.selV = srvValidity,
                        !.selNext = n] \in Jobs
    BY <2>21, <2>22, <1>j DEF Jobs
  <2>24. job'[l].selV = srvValidity
    BY <2>1, <2>2, <1>j DEF Jobs
  <2>3. job'[l] \in Jobs /\ job'[l].selV # 0 /\ job' \in [Lanes -> Jobs]
        /\ \A m \in Lanes \ {l} : job'[m] = job[m]
    BY <2>1, <2>2, <2>22, <2>23, <2>24
  <2>4. QED
    BY <1>2, <2>3
       DEF SelectFolder, TypeInv, TypeOK, SelectedHasValidity, Unselected, server, database
<1>3. ASSUME NEW l \in Lanes, PrepareFolder(l) PROVE TypeInv'
  <2>1. job[l].selV # 0
    BY <1>3 DEF PrepareFolder, TypeInv, SelectedHasValidity, Unselected
  <2>2. job'[l] \in Jobs /\ job'[l].selV # 0 /\ job' \in [Lanes -> Jobs]
        /\ \A m \in Lanes \ {l} : job'[m] = job[m]
    BY <1>3, <1>j, <2>1 DEF PrepareFolder, TypeInv, TypeOK, Jobs, PCs
  <2>3. QED
    BY <1>3, <1>j, <2>2
       DEF PrepareFolder, TypeInv, TypeOK, SelectedHasValidity, Unselected, server, Jobs
<1>4. ASSUME NEW l \in Lanes, SearchUIDs(l) PROVE TypeInv'
  <2>1. job[l].selV # 0 /\ SearchResult(job[l]) \subseteq UIDs
    BY <1>4 DEF SearchUIDs, TypeInv, TypeOK, SelectedHasValidity, Unselected, SearchResult
  <2>2. PICK h \in 0..MaxUID :
          job' = [job EXCEPT ![l] = [job[l] EXCEPT
            !.pc = "store", !.todo = SearchResult(job[l]), !.high = h]]
    BY <1>4 DEF SearchUIDs
  <2>3. job'[l] \in Jobs /\ job'[l].selV # 0 /\ job' \in [Lanes -> Jobs]
        /\ \A m \in Lanes \ {l} : job'[m] = job[m]
    BY <2>1, <2>2, <1>j DEF TypeInv, TypeOK, Jobs, PCs
  <2>4. QED
    BY <1>4, <2>3 DEF SearchUIDs, TypeInv, TypeOK, SelectedHasValidity, Unselected, server, database
<1>5. ASSUME NEW l \in Lanes, StoreMessage(l) PROVE TypeInv'
  <2>1. job[l].selV \in 1..MaxValidity
    BY <1>5, <1>j DEF StoreMessage, TypeInv, SelectedHasValidity, Unselected, Jobs
  <2>2. PICK u \in job[l].todo :
          /\ locations' = locations \cup {<<job[l].selV, u>>} \/ locations' = locations
          /\ job' = [job EXCEPT ![l].todo = @ \ {u}]
    BY <1>5 DEF StoreMessage
  <2>3. u \in UIDs
    BY <1>j DEF Jobs
  <2>4. locations' \subseteq (1..MaxValidity) \X UIDs
    BY <2>1, <2>2, <2>3 DEF TypeInv, TypeOK
  <2>5. job'[l] \in Jobs /\ job'[l].selV # 0 /\ job' \in [Lanes -> Jobs]
        /\ \A m \in Lanes \ {l} : job'[m] = job[m]
    BY <2>1, <2>2, <1>j DEF TypeInv, TypeOK, Jobs
  <2>6. QED
    BY <1>5, <2>4, <2>5 DEF StoreMessage, TypeInv, TypeOK, SelectedHasValidity, Unselected, server
<1>6. ASSUME NEW l \in Lanes, ListFolder(l) \/ FetchStates(l) PROVE TypeInv'
  <2>1. job[l].selV # 0
    BY <1>6 DEF ListFolder, FetchStates, TypeInv, SelectedHasValidity, Unselected
  <2>2. job \in [Lanes -> Jobs] /\ srvMail \subseteq UIDs
    BY DEF TypeInv, TypeOK
  <2>3. job'[l] \in Jobs /\ job'[l].selV # 0 /\ job' \in [Lanes -> Jobs]
        /\ \A m \in Lanes \ {l} : job'[m] = job[m]
    <3>1. CASE job' = [job EXCEPT ![l] = [job[l] EXCEPT !.pc = "listed", !.snap = srvMail]]
      BY <3>1, <1>j, <2>1, <2>2 DEF Jobs, PCs
    <3>2. CASE job' = [job EXCEPT ![l].pc = "complete"]
      BY <3>2, <1>j, <2>1, <2>2 DEF Jobs, PCs
    <3>3. CASE job' = [job EXCEPT ![l].pc = "apply"]
      BY <3>3, <1>j, <2>1, <2>2 DEF Jobs, PCs
    <3>4. QED
      BY <1>6, <3>1, <3>2, <3>3 DEF ListFolder, FetchStates
  <2>4. UNCHANGED <<server, database, backfillQueued, failures>>
    BY <1>6 DEF ListFolder, FetchStates
  <2>5. QED
    BY <2>3, <2>4 DEF TypeInv, TypeOK, SelectedHasValidity, Unselected, server, database
<1>7. ASSUME NEW l \in Lanes, ReconcileFolder(l) PROVE TypeInv'
  <2>1. job[l].selV # 0
    BY <1>7 DEF ReconcileFolder, TypeInv, SelectedHasValidity, Unselected
  <2>2. job'[l] \in Jobs /\ job'[l].selV # 0 /\ job' \in [Lanes -> Jobs]
        /\ \A m \in Lanes \ {l} : job'[m] = job[m]
    BY <1>7, <1>j, <2>1 DEF ReconcileFolder, TypeInv, TypeOK, Jobs, PCs
  <2>3. locations' \subseteq locations
    BY <1>7 DEF ReconcileFolder
  <2>4. QED
    BY <1>7, <2>2, <2>3
       DEF ReconcileFolder, TypeInv, TypeOK, SelectedHasValidity, Unselected, server
<1>8. ASSUME NEW l \in Lanes, CompleteFolder(l) PROVE TypeInv'
  <2>1. cpLast' \in 0..MaxUID
    BY <1>8, <1>j, RaiseLastType DEF CompleteFolder, TypeInv
  <2>2. cpValidity' \in 0..MaxValidity
    BY <1>8, <1>j DEF CompleteFolder, Jobs
  <2>3. job'[l] \in Jobs /\ job'[l].pc = "completed" /\ job' \in [Lanes -> Jobs]
        /\ \A m \in Lanes \ {l} : job'[m] = job[m]
    BY <1>8, <1>j DEF CompleteFolder, TypeInv, TypeOK, IdleJob, Jobs, PCs
  <2>4. QED
    BY <1>8, <2>1, <2>2, <2>3
       DEF CompleteFolder, TypeInv, TypeOK, SelectedHasValidity, Unselected, server
<1>81. ASSUME NEW l \in Lanes, ReadBackfill(l) \/ EnqueueBackfill(l) PROVE TypeInv'
  <2>1. job'[l] \in Jobs /\ job'[l].pc \in {"enqueue", "idle"} /\ job' \in [Lanes -> Jobs]
        /\ \A m \in Lanes \ {l} : job'[m] = job[m]
    BY <1>81, <1>j DEF ReadBackfill, EnqueueBackfill, TypeInv, TypeOK, Jobs, PCs
  <2>2. UNCHANGED <<server, database, failures>> /\ backfillQueued' \in BOOLEAN
    BY <1>81 DEF ReadBackfill, EnqueueBackfill, TypeInv, TypeOK
  <2>3. QED
    BY <2>1, <2>2 DEF TypeInv, TypeOK, SelectedHasValidity, Unselected, server, database
<1>9. ASSUME NEW l \in Lanes, CompleteBackfill(l) PROVE TypeInv'
  BY <1>9 DEF CompleteBackfill, TypeInv, TypeOK, SelectedHasValidity, Unselected, server
<1>10. ASSUME NEW l \in Lanes, RefuseJob(l) \/ FailJob(l) PROVE TypeInv'
  <2>1. failures' \in 0..MaxFailures
    BY <1>10 DEF RefuseJob, FailJob, TypeInv, TypeOK
  <2>2. EndWithError(l)
    BY <1>10 DEF RefuseJob, FailJob
  <2>3. QED
    BY <2>1, <2>2
       DEF EndWithError, TypeInv, TypeOK, SelectedHasValidity, Unselected, server, database
<1>11. CASE Restart
  <2>1. failures' \in 0..MaxFailures
    BY <1>11 DEF Restart, TypeInv, TypeOK
  <2>2. job' \in [Lanes -> Jobs] /\ \A l \in Lanes : job'[l].pc = "idle"
    BY <1>11 DEF Restart
  <2>3. QED
    BY <1>11, <2>1, <2>2
       DEF Restart, TypeInv, TypeOK, SelectedHasValidity, Unselected, server, database
<1>12. CASE ServerStep
  <2>1. CASE Deliver
    <3>1. srvNext \in UIDs /\ srvNext' \in 1..(MaxUID + 1)
      BY <2>1, ConstantsAssumption DEF Deliver, LastUID, TypeInv, TypeOK, UIDs
    <3>2. srvMail' \subseteq UIDs /\ srvHidden' \subseteq UIDs /\ srvOld' \subseteq UIDs
      BY <2>1, <3>1 DEF Deliver, TypeInv, TypeOK
    <3>3. QED
      BY <2>1, <3>1, <3>2 DEF Deliver, TypeInv, TypeOK, SelectedHasValidity, Unselected, database
  <2>2. CASE Expose
    BY <2>2 DEF Expose, TypeInv, TypeOK, SelectedHasValidity, Unselected, database
  <2>3. CASE Recreate
    <3>1. PICK n \in 0..MaxUID : /\ srvNext' = n + 1 /\ srvMail' = 1..n
                                 /\ srvOld' \in SUBSET (1..n)
      BY <2>3 DEF Recreate
    <3>2. 1..n \subseteq UIDs /\ n + 1 \in 1..(MaxUID + 1)
      BY <3>1 DEF UIDs
    <3>21. srvValidity' \in 1..MaxValidity /\ expunges' \in 0..MaxExpunges
      BY <2>3 DEF Recreate, TypeInv, TypeOK
    <3>20. srvHidden' \subseteq UIDs /\ srvOld' \subseteq UIDs
      BY <2>3, <3>1, <3>2 DEF Recreate
    <3>3. QED
      BY <2>3, <3>1, <3>2, <3>20, <3>21
         DEF Recreate, TypeInv, TypeOK, SelectedHasValidity, Unselected, database
  <2>4. CASE \E u \in UIDs : Expunge(u) \/ Age(u)
    BY <2>4 DEF Expunge, Age, TypeInv, TypeOK, SelectedHasValidity, Unselected, database
  <2>5. QED
    BY <1>12, <2>1, <2>2, <2>3, <2>4 DEF ServerStep
<1>13. CASE UNCHANGED vars
  BY <1>13 DEF vars, server, database, TypeInv, TypeOK, SelectedHasValidity, Unselected
<1>14. QED
  BY <1>1, <1>2, <1>3, <1>4, <1>5, <1>6, <1>7, <1>8, <1>81, <1>9, <1>10, <1>11, <1>12, <1>13
     DEF Next, JobStep

(* Every reachable state of the folder synchroniser is well typed.          *)
THEOREM TypeCorrect == Spec => []TypeOK
<1>1. TypeInv => TypeOK
  BY DEF TypeInv
<1>2. QED
  BY TypeInit, TypeStep, <1>1, PTL DEF Spec

-----------------------------------------------------------------------------
(* No recent message is skipped.  The assumption: the mailbox is never      *)
(* re-created and shows every message whose UID it has assigned (both are   *)
(* necessary: folder_rebuild refutes the property without the first, and    *)
(* TLC refutes it when LateExposure is TRUE).  The induction needs to know, *)
(* for each lane, what its search has covered: every recent message up to   *)
(* the UID the job will checkpoint is stored or still on the job's list.    *)
StableMailbox == MaxValidity = 1 /\ LateExposure = FALSE

Recent == srvMail \ srvOld

MailboxInv ==
  /\ srvHidden = {}
  /\ \A u \in srvMail : u < srvNext
  /\ cpLast < srvNext
  /\ \A u \in Recent : u <= cpLast => Stored(u)

Searched == {"store", "listed", "apply", "complete"}

JobInv(l) ==
  LET j == job[l] IN
  /\ j.pc # "idle" => j.reqLast <= cpLast
  /\ j.pc \notin Unselected => j.selNext \in 0..srvNext
  /\ j.pc \notin {"idle", "read", "selected"} /\ j.kind # "backfill" => cpValidity = 1
  /\ j.pc \in Searched => j.high < srvNext
  /\ j.pc \in Searched /\ j.kind # "backfill" =>
       \A u \in Recent : u <= NextLast(j) => Stored(u) \/ u \in j.todo
  /\ j.pc \in {"listed", "apply", "complete"} => j.todo = {} /\ j.kind = "reconcile"
  /\ j.pc \in {"listed", "apply"} => \A u \in srvMail : u < j.selNext => u \in j.snap
  /\ j.pc \in {"selected", "completed", "enqueue"} => j.kind # "backfill"

SkipInv == TypeInv /\ MailboxInv /\ \A l \in Lanes : JobInv(l)

(* In a stable mailbox every selected UIDVALIDITY is 1, so no job rebuilds. *)
LEMMA StableFacts ==
  ASSUME StableMailbox, TypeInv
  PROVE  /\ srvValidity = 1
         /\ \A l \in Lanes : job[l].pc \notin Unselected =>
              job[l].selV = 1 /\ Decision(job[l]) # "rebuild"
<1>1. srvValidity = 1
  BY DEF StableMailbox, TypeInv, TypeOK
<1>2. ASSUME NEW l \in Lanes, job[l].pc \notin Unselected
      PROVE  job[l].selV = 1 /\ Decision(job[l]) # "rebuild"
  <2>1. job[l] \in Jobs /\ job[l].selV # 0
    BY <1>2 DEF TypeInv, TypeOK, SelectedHasValidity, Unselected
  <2>2. job[l].selV = 1 /\ job[l].reqV \in {0, 1}
    BY <2>1 DEF StableMailbox, Jobs
  <2>3. QED
    BY <2>2 DEF Decision
<1>3. QED
  BY <1>1, <1>2

(* What a job will checkpoint lies below the mailbox's UIDNEXT.             *)
LEMMA NextLastBelowUIDNext ==
  ASSUME TypeInv, MailboxInv, NEW l \in Lanes, JobInv(l), job[l].pc \in Searched
  PROVE  NextLast(job[l]) \in 0..MaxUID /\ NextLast(job[l]) < srvNext
<1>1. job[l] \in Jobs /\ srvNext \in 1..(MaxUID + 1)
  BY DEF TypeInv, TypeOK
<1>2. job[l].reqLast < srvNext /\ job[l].selNext - 1 < srvNext /\ job[l].high < srvNext
  BY <1>1 DEF JobInv, Unselected, MailboxInv, Searched, Jobs, TypeInv, TypeOK
<1>3. NextLast(job[l]) \in 0..MaxUID
  BY <1>1, RaiseLastType DEF TypeInv
<1>4. QED
  BY <1>1, <1>2, <1>3 DEF NextLast, Max2, Jobs

(* No step drops the row of a message the mailbox shows.                    *)
LEMMA LiveRowsStay ==
  ASSUME StableMailbox, SkipInv, [Next]_vars, NEW u \in srvMail, Stored(u)
  PROVE  Stored(u)'
<1>0. TypeInv'
  BY TypeStep DEF SkipInv
<1>1. srvValidity' = 1 /\ <<1, u>> \in locations
  <2>1. srvValidity' = 1
    BY <1>0 DEF StableMailbox, TypeInv, TypeOK
  <2>2. srvValidity = 1
    BY StableFacts DEF SkipInv, Unselected
  <2>3. QED
    BY <2>1, <2>2 DEF Stored
<1>2. ASSUME NEW l \in Lanes, PrepareFolder(l) PROVE <<1, u>> \in locations'
  <2>1. Decision(job[l]) # "rebuild"
    BY <1>2, StableFacts DEF PrepareFolder, SkipInv, Unselected
  <2>2. QED
    BY <1>1, <1>2, <2>1 DEF PrepareFolder
<1>3. ASSUME NEW l \in Lanes, ReconcileFolder(l) PROVE <<1, u>> \in locations'
  <2>1. job[l].selV = 1 /\ job[l] \in Jobs
    BY <1>3, StableFacts DEF ReconcileFolder, SkipInv, TypeInv, TypeOK, Unselected
  <2>2. u < job[l].selNext => u \in job[l].snap
    BY <1>3 DEF ReconcileFolder, SkipInv, JobInv, Unselected
  <2>3. u \in Int /\ job[l].selNext \in Int
    BY <2>1 DEF SkipInv, TypeInv, TypeOK, UIDs, Jobs
  <2>4. KeepRow(job[l], <<1, u>>)
    BY <2>1, <2>2, <2>3 DEF KeepRow
  <2>5. QED
    BY <1>1, <1>3, <2>4 DEF ReconcileFolder
<1>4. ASSUME NEW l \in Lanes, StoreMessage(l) PROVE <<1, u>> \in locations'
  BY <1>1, <1>4 DEF StoreMessage
<1>5. <<1, u>> \in locations'
  BY <1>1, <1>2, <1>3, <1>4
     DEF Next, JobStep, ServerStep, vars, database,
         ReadCheckpoint, SelectFolder, SearchUIDs, ListFolder, FetchStates, CompleteFolder,
         ReadBackfill, EnqueueBackfill, CompleteBackfill, RefuseJob, FailJob,
         EndWithError, Restart, Deliver, Expose,
         Recreate, Expunge, Age
<1>6. QED
  BY <1>1, <1>5 DEF Stored

(* A lane that does not move keeps its part of the invariant while the      *)
(* other lane or the mailbox moves.                                         *)
LEMMA JobInvFrame ==
  ASSUME StableMailbox, SkipInv, TypeInv', [Next]_vars, NEW m \in Lanes,
         job'[m] = job[m], cpLast <= cpLast', srvNext <= srvNext',
         cpValidity = 1 => cpValidity' = 1,
         \A u \in srvMail' : u \in srvMail \/ u >= srvNext,
         \A u \in Recent' : u \in Recent \/ u >= srvNext
  PROVE  JobInv(m)'
<1> DEFINE j == job[m]
<1>0. TypeInv /\ TypeOK /\ MailboxInv /\ JobInv(m)
  BY DEF SkipInv, TypeInv
<1>1. j \in Jobs /\ j = job'[m] /\ srvNext \in Int /\ srvNext' \in Int
      /\ cpLast \in Int /\ cpLast' \in Int
  BY <1>0 DEF TypeInv, TypeOK
<1>2. j.reqLast \in Int /\ j.selNext \in Int /\ j.high \in Int
  BY <1>1 DEF Jobs
<1>3. j.pc # "idle" => j.reqLast <= cpLast'
  BY <1>0, <1>1, <1>2 DEF JobInv, Unselected
<1>4. j.pc \notin Unselected => j.selNext \in 0..srvNext'
  BY <1>0, <1>1, <1>2 DEF JobInv, Unselected
<1>5. j.pc \in Searched => j.high < srvNext'
  BY <1>0, <1>1, <1>2 DEF JobInv, Unselected
<1>6. ASSUME j.pc \in Searched, j.kind # "backfill", NEW u \in Recent', u <= NextLast(j)
      PROVE  Stored(u)' \/ u \in j.todo
  <2>1. u \in Int /\ NextLast(j) \in Int /\ NextLast(j) < srvNext
    BY <1>0, <1>1, <1>6, NextLastBelowUIDNext DEF TypeInv, TypeOK, Recent, UIDs
  <2>2. u \in Recent /\ u \in srvMail
    BY <1>1, <1>6, <2>1 DEF Recent
  <2>3. Stored(u) \/ u \in j.todo
    BY <1>0, <1>6, <2>2 DEF JobInv, Unselected
  <2>4. Stored(u) => Stored(u)'
    BY <2>2, LiveRowsStay
  <2>5. QED
    BY <2>3, <2>4
<1>7. ASSUME j.pc \in {"listed", "apply"}, NEW u \in srvMail', u < j.selNext PROVE u \in j.snap
  <2>1. u \in Int /\ j.selNext <= srvNext
    BY <1>0, <1>1, <1>2, <1>7 DEF TypeInv, TypeOK, UIDs, JobInv, Unselected
  <2>2. u \in srvMail
    BY <1>1, <1>2, <1>7, <2>1
  <2>3. QED
    BY <1>0, <1>7, <2>2 DEF JobInv, Unselected
<1>8. j.pc \notin {"idle", "read", "selected"} /\ j.kind # "backfill" => cpValidity' = 1
  BY <1>0 DEF JobInv, Unselected
<1>9. (j.pc \in {"listed", "apply", "complete"} => j.todo = {} /\ j.kind = "reconcile")
      /\ (j.pc \in {"selected", "completed", "enqueue"} => j.kind # "backfill")
  BY <1>0 DEF JobInv, Unselected
<1> HIDE DEF j
<1>10. JobInv(m)' <=>
         /\ j.pc # "idle" => j.reqLast <= cpLast'
         /\ j.pc \notin Unselected => j.selNext \in 0..srvNext'
         /\ j.pc \notin {"idle", "read", "selected"} /\ j.kind # "backfill" => cpValidity' = 1
         /\ j.pc \in Searched => j.high < srvNext'
         /\ j.pc \in Searched /\ j.kind # "backfill" =>
              \A u \in Recent' : u <= NextLast(j) => Stored(u)' \/ u \in j.todo
         /\ j.pc \in {"listed", "apply", "complete"} => j.todo = {} /\ j.kind = "reconcile"
         /\ j.pc \in {"listed", "apply"} => \A u \in srvMail' : u < j.selNext => u \in j.snap
         /\ j.pc \in {"selected", "completed", "enqueue"} => j.kind # "backfill"
  BY <1>1 DEF JobInv, Unselected
<1>11. QED
  BY <1>3, <1>4, <1>5, <1>6, <1>7, <1>8, <1>9, <1>10

LEMMA IdleJobInv == ASSUME NEW l \in Lanes, job'[l].pc = "idle" PROVE JobInv(l)'
  BY DEF JobInv, Unselected, Searched

(* A step of one lane that leaves the mailbox and last_uid alone only has   *)
(* to establish that lane's part.                                           *)
LEMMA LaneStep ==
  ASSUME StableMailbox, SkipInv, [Next]_vars, NEW l \in Lanes,
         UNCHANGED server, cpLast' = cpLast, cpValidity = 1 => cpValidity' = 1,
         \A m \in Lanes \ {l} : job'[m] = job[m],
         JobInv(l)'
  PROVE  SkipInv'
<1>1. TypeInv'
  BY TypeStep DEF SkipInv
<1>2. srvMail' = srvMail /\ srvNext' = srvNext /\ srvHidden' = srvHidden /\ Recent' = Recent
  BY DEF server, Recent
<1>3. MailboxInv'
  <2>1. MailboxInv
    BY DEF SkipInv
  <2>2. \A u \in Recent : u <= cpLast => Stored(u)'
    BY <2>1, LiveRowsStay DEF MailboxInv, Recent
  <2>3. QED
    BY <1>2, <2>1, <2>2 DEF MailboxInv
<1>4. ASSUME NEW m \in Lanes \ {l} PROVE JobInv(m)'
  <2>1. cpLast <= cpLast' /\ srvNext <= srvNext'
    BY <1>2 DEF SkipInv, TypeInv, TypeOK
  <2>2. QED
    BY <1>1, <1>2, <2>1, JobInvFrame
<1>5. QED
  BY <1>1, <1>3, <1>4 DEF SkipInv

(* The search of a sync covers every recent message up to its NextLast.     *)
LEMMA SearchCovers ==
  ASSUME SkipInv, NEW l \in Lanes, job[l].pc = "search", job[l].kind # "backfill",
         Decision(job[l]) # "rebuild",
         NEW h \in 0..MaxUID, IsHighest(h, SearchResult(job[l])),
         NEW u \in Recent,
         u <= NextLast([job[l] EXCEPT !.pc = "store", !.todo = SearchResult(job[l]), !.high = h])
  PROVE  Stored(u) \/ u \in SearchResult(job[l])
<1> DEFINE j == job[l]
<1>1. j \in Jobs /\ u \in Int /\ u <= MaxUID /\ cpLast \in Int /\ j.reqLast \in Int
      /\ u \in srvMail /\ u \notin srvOld
  BY DEF SkipInv, TypeInv, TypeOK, Jobs, Recent, UIDs
<1>2. CASE Decision(j) = "incremental"
  <2>1. CASE u <= j.reqLast
    BY <1>1, <2>1 DEF SkipInv, MailboxInv, JobInv, Unselected
  <2>2. CASE u > j.reqLast
    <3>1. u >= FetchFrom(j.reqLast)
      BY <1>1, <2>2, ConstantsAssumption DEF FetchFrom
    <3>2. QED
      BY <1>1, <1>2, <3>1 DEF SearchResult
  <2>3. QED
    BY <1>1, <2>1, <2>2
<1>3. CASE Decision(j) = "initialize"
  BY <1>1, <1>3 DEF SearchResult
<1>4. QED
  BY <1>2, <1>3 DEF Decision

LEMMA SkipInit == StableMailbox /\ Init => SkipInv
<1> SUFFICES ASSUME StableMailbox, Init PROVE SkipInv
  OBVIOUS
<1>1. TypeInv
  BY TypeInit
<1>2. MailboxInv
  BY <1>1 DEF Init, MailboxInv, Recent, TypeInv, TypeOK, UIDs
<1>3. \A l \in Lanes : JobInv(l)
  BY DEF Init, IdleJob, JobInv, Unselected, Searched
<1>4. QED
  BY <1>1, <1>2, <1>3 DEF SkipInv

LEMMA SkipStep == StableMailbox /\ SkipInv /\ [Next]_vars => SkipInv'
<1> SUFFICES ASSUME StableMailbox, SkipInv, [Next]_vars PROVE SkipInv'
  OBVIOUS
<1>t. TypeInv /\ TypeOK /\ TypeInv' /\ MailboxInv
  BY TypeStep DEF SkipInv, TypeInv
<1>j. \A l \in Lanes : job[l] \in Jobs /\ JobInv(l)
  BY <1>t DEF TypeOK, SkipInv
<1>f. job \in [Lanes -> Jobs]
  BY <1>t DEF TypeOK
<1>v. srvValidity = 1 /\ srvNext \in Int /\ cpLast \in Int
  BY <1>t, StableFacts DEF TypeOK, Unselected
<1>1. ASSUME NEW l \in Lanes, NEW k \in KindsOf(l), ReadCheckpoint(l, k) PROVE SkipInv'
  <2>1. job'[l] = [IdleJob EXCEPT !.pc = "read", !.kind = k, !.reqV = cpValidity, !.reqLast = cpLast]
        /\ \A m \in Lanes \ {l} : job'[m] = job[m]
    BY <1>1, <1>f DEF ReadCheckpoint
  <2>2. job'[l].pc = "read" /\ job'[l].reqLast = cpLast
    BY <2>1 DEF IdleJob
  <2>3. JobInv(l)'
    BY <1>1, <1>v, <2>2 DEF JobInv, Unselected, Searched, ReadCheckpoint, database
  <2>4. QED
    BY <1>1, <2>1, <2>3, LaneStep DEF ReadCheckpoint, database
<1>2. ASSUME NEW l \in Lanes, SelectFolder(l) PROVE SkipInv'
  <2>1. PICK n \in 0..srvNext :
          job' = [job EXCEPT ![l] = [job[l] EXCEPT
            !.pc = AfterSelect(job[l].kind), !.selV = srvValidity, !.selNext = n]]
    BY <1>2 DEF SelectFolder, ReportedNext
  <2>2. job'[l].pc = AfterSelect(job[l].kind) /\ job'[l].selNext = n
        /\ job'[l].kind = job[l].kind /\ job'[l].reqLast = job[l].reqLast
    BY <1>j, <1>f, <2>1 DEF Jobs
  <2>3. (job'[l].pc = "search" /\ job[l].kind = "backfill") \/
        (job'[l].pc = "selected" /\ job[l].kind # "backfill")
    BY <2>2 DEF AfterSelect
  <2>4. job[l].reqLast <= cpLast /\ srvNext' = srvNext /\ cpLast' = cpLast
        /\ cpValidity' = cpValidity
    BY <1>2, <1>j DEF SelectFolder, JobInv, Unselected, server, database
  <2>5. JobInv(l)'
    BY <2>2, <2>3, <2>4 DEF JobInv, Unselected, Searched
  <2>6. QED
    BY <1>2, <1>f, <2>1, <2>4, <2>5, LaneStep DEF SelectFolder
<1>3. ASSUME NEW l \in Lanes, PrepareFolder(l) PROVE SkipInv'
  <2>1. job'[l].pc = "search" /\ job'[l].selNext = job[l].selNext
        /\ job'[l].reqLast = job[l].reqLast /\ \A m \in Lanes \ {l} : job'[m] = job[m]
    BY <1>3, <1>j, <1>f DEF PrepareFolder, Jobs
  <2>2. job[l].selV = 1 /\ job[l].pc = "selected"
    BY <1>3, <1>t, StableFacts DEF PrepareFolder, Unselected
  <2>3. cpValidity' = 1 /\ cpLast' = cpLast /\ srvNext' = srvNext /\ UNCHANGED server
    BY <1>3, <2>2 DEF PrepareFolder, server
  <2>4. JobInv(l)'
    BY <1>j, <2>1, <2>2, <2>3 DEF JobInv, Unselected, Searched
  <2>5. QED
    BY <2>1, <2>3, <2>4, LaneStep
<1>4. ASSUME NEW l \in Lanes, SearchUIDs(l) PROVE SkipInv'
  <2> DEFINE R == SearchResult(job[l])
  <2>1. PICK h \in 0..MaxUID :
          /\ IsHighest(h, R)
          /\ job' = [job EXCEPT ![l] = [job[l] EXCEPT !.pc = "store", !.todo = R, !.high = h]]
    BY <1>4 DEF SearchUIDs
  <2> DEFINE jj == [job[l] EXCEPT !.pc = "store", !.todo = R, !.high = h]
  <2>2. job'[l] = jj /\ \A m \in Lanes \ {l} : job'[m] = job[m]
    BY <1>f, <2>1
  <2>3. jj.pc = "store" /\ jj.todo = R /\ jj.high = h /\ jj.kind = job[l].kind
        /\ jj.reqLast = job[l].reqLast /\ jj.selNext = job[l].selNext
    BY <1>j DEF Jobs
  <2>4. UNCHANGED server /\ UNCHANGED database /\ job[l].pc = "search"
    BY <1>4 DEF SearchUIDs
  <2>5. h < srvNext
    <3>1. h = 0 \/ h \in srvMail
      BY <2>1 DEF IsHighest, SearchResult
    <3>2. QED
      BY <1>t, <3>1 DEF MailboxInv, TypeOK
  <2>6. ASSUME job[l].kind # "backfill", NEW u \in Recent, u <= NextLast(jj)
        PROVE  Stored(u) \/ u \in R
    <3>1. Decision(job[l]) # "rebuild"
      BY <1>t, <2>4, StableFacts DEF Unselected
    <3>2. QED
      BY <2>1, <2>4, <2>6, <3>1, SearchCovers
  <2> HIDE DEF R, jj
  <2>7. Recent' = Recent /\ srvNext' = srvNext /\ cpLast' = cpLast /\ cpValidity' = cpValidity
    BY <2>4 DEF Recent, server, database
  <2>8. \A u : Stored(u)' <=> Stored(u)
    BY <2>4 DEF Stored, server, database
  <2>9. JobInv(l)'
    <3>1. job[l].reqLast <= cpLast /\ job[l].selNext \in 0..srvNext
          /\ (job[l].kind # "backfill" => cpValidity = 1)
      BY <1>j, <2>4 DEF JobInv, Unselected
    <3>2. QED
      BY <2>2, <2>3, <2>5, <2>6, <2>7, <2>8, <3>1 DEF JobInv, Unselected, Searched
  <2>10. QED
    BY <2>2, <2>4, <2>7, <2>9, LaneStep
<1>5. ASSUME NEW l \in Lanes, StoreMessage(l) PROVE SkipInv'
  <2>1. PICK w \in job[l].todo :
          /\ \/ locations' = locations \cup {<<job[l].selV, w>>}
             \/ (w \notin srvMail \/ srvValidity # job[l].selV) /\ locations' = locations
          /\ job' = [job EXCEPT ![l].todo = @ \ {w}]
    BY <1>5 DEF StoreMessage
  <2>2. job'[l] = [job[l] EXCEPT !.todo = @ \ {w}] /\ \A m \in Lanes \ {l} : job'[m] = job[m]
    BY <1>f, <2>1
  <2>3. job'[l].pc = "store" /\ job'[l].todo = job[l].todo \ {w} /\ job'[l].high = job[l].high
        /\ job'[l].kind = job[l].kind /\ job'[l].reqLast = job[l].reqLast
        /\ job'[l].selNext = job[l].selNext /\ job'[l].reqV = job[l].reqV
        /\ job'[l].selV = job[l].selV /\ job[l].pc = "store"
    BY <1>5, <1>j, <2>2 DEF Jobs, StoreMessage
  <2>4. UNCHANGED server /\ cpLast' = cpLast /\ cpValidity' = cpValidity /\ srvNext' = srvNext
        /\ Recent' = Recent
    BY <1>5 DEF StoreMessage, server, Recent
  <2>5. job[l].selV = 1
    BY <1>t, <2>3, StableFacts DEF Unselected
  <2>6. ASSUME job[l].kind # "backfill", NEW u \in Recent, u <= NextLast(job[l])
        PROVE  Stored(u)' \/ u \in job[l].todo \ {w}
    <3>1. Stored(u) \/ u \in job[l].todo
      BY <1>j, <2>3, <2>6 DEF JobInv, Unselected, Searched
    <3>2. CASE Stored(u)
      BY <3>2, LiveRowsStay DEF Recent
    <3>3. CASE u = w
      <4>1. u \in srvMail
        BY DEF Recent
      <4>2. <<1, u>> \in locations' /\ srvValidity' = 1
        BY <1>v, <2>1, <2>4, <2>5, <3>3, <4>1 DEF server
      <4>3. QED
        BY <4>2 DEF Stored
    <3>4. QED
      BY <3>1, <3>2, <3>3
  <2>7. NextLast(job'[l]) = NextLast(job[l])
    BY <2>3 DEF NextLast, Decision
  <2>8. JobInv(l)'
    <3>1. job[l].reqLast <= cpLast /\ job[l].selNext \in 0..srvNext /\ job[l].high < srvNext
          /\ (job[l].kind # "backfill" => cpValidity = 1)
      BY <1>j, <2>3 DEF JobInv, Unselected, Searched
    <3>2. QED
      BY <2>3, <2>4, <2>6, <2>7, <3>1 DEF JobInv, Unselected, Searched
  <2>9. QED
    BY <2>2, <2>4, <2>8, LaneStep
<1>6. ASSUME NEW l \in Lanes, ListFolder(l) \/ FetchStates(l) PROVE SkipInv'
  <2>1. job[l].pc \in {"store", "listed"} /\ job[l].todo = {} /\ job[l].kind = "reconcile"
        /\ UNCHANGED server /\ UNCHANGED database /\ \A m \in Lanes \ {l} : job'[m] = job[m]
    BY <1>6, <1>f, <1>j DEF ListFolder, FetchStates, JobInv, Unselected
  <2>2. \/ job'[l] = [job[l] EXCEPT !.pc = "listed", !.snap = srvMail]
        \/ job'[l] = [job[l] EXCEPT !.pc = "complete"]
        \/ job[l].pc = "listed" /\ job'[l] = [job[l] EXCEPT !.pc = "apply"]
    BY <1>6, <1>f DEF ListFolder, FetchStates
  <2>3. /\ job'[l].pc \in {"listed", "apply", "complete"}
        /\ job'[l].pc # "complete" =>
             job'[l].snap = srvMail \/ (job[l].pc = "listed" /\ job'[l].snap = job[l].snap)
        /\ job'[l].todo = {} /\ job'[l].kind = "reconcile" /\ job'[l].high = job[l].high
        /\ job'[l].reqLast = job[l].reqLast /\ job'[l].reqV = job[l].reqV
        /\ job'[l].selNext = job[l].selNext /\ job'[l].selV = job[l].selV
    BY <1>j, <2>1, <2>2 DEF Jobs
  <2>4. Recent' = Recent /\ srvNext' = srvNext /\ cpLast' = cpLast /\ cpValidity' = cpValidity
        /\ srvMail' = srvMail /\ \A u : Stored(u)' <=> Stored(u)
    BY <2>1 DEF Recent, server, database, Stored
  <2>5. NextLast(job'[l]) = NextLast(job[l])
    BY <2>3 DEF NextLast, Decision
  <2>6. JobInv(l)'
    BY <1>j, <2>1, <2>3, <2>4, <2>5 DEF JobInv, Searched, Unselected
  <2>7. QED
    BY <2>1, <2>4, <2>6, LaneStep
<1>7. ASSUME NEW l \in Lanes, ReconcileFolder(l) PROVE SkipInv'
  <2>1. job[l].pc = "apply" /\ UNCHANGED server /\ cpLast' = cpLast /\ cpValidity' = cpValidity
        /\ job'[l] = [job[l] EXCEPT !.pc = "complete", !.snap = {}]
        /\ \A m \in Lanes \ {l} : job'[m] = job[m]
    BY <1>7, <1>f DEF ReconcileFolder
  <2>2. /\ job'[l].pc = "complete" /\ job'[l].todo = job[l].todo /\ job'[l].kind = job[l].kind
        /\ job'[l].high = job[l].high /\ job'[l].reqLast = job[l].reqLast
        /\ job'[l].reqV = job[l].reqV /\ job'[l].selNext = job[l].selNext
        /\ job'[l].selV = job[l].selV
    BY <1>j, <2>1 DEF Jobs
  <2>3. Recent' = Recent /\ srvNext' = srvNext
    BY <2>1 DEF Recent, server
  <2>4. NextLast(job'[l]) = NextLast(job[l])
    BY <2>2 DEF NextLast, Decision
  <2>5. \A u \in Recent : Stored(u) => Stored(u)'
    BY LiveRowsStay DEF Recent
  <2>6. JobInv(l)'
    BY <1>j, <2>1, <2>2, <2>3, <2>4, <2>5 DEF JobInv, Unselected, Searched
  <2>7. QED
    BY <2>1, <2>6, LaneStep
<1>8. ASSUME NEW l \in Lanes, CompleteFolder(l) PROVE SkipInv'
  <2>1. /\ job[l].pc \in {"complete", "store"} /\ job[l].todo = {} /\ job[l].kind # "backfill"
        /\ UNCHANGED server /\ locations' = locations
        /\ cpLast' = RaiseLast(job[l]) /\ cpValidity' = job[l].selV
        /\ job'[l].pc = "completed" /\ job'[l].kind = job[l].kind /\ job'[l].reqLast = 0
        /\ \A m \in Lanes \ {l} : job'[m] = job[m]
    BY <1>8, <1>f, <1>j DEF CompleteFolder, JobInv, Unselected, IdleJob
  <2>2. job[l].selV = 1 /\ cpValidity = 1 /\ cpValidity' = 1
    BY <1>t, <1>j, <2>1, StableFacts DEF JobInv, Unselected
  <2>3. NextLast(job[l]) \in 0..MaxUID /\ NextLast(job[l]) < srvNext
    BY <1>t, <1>j, <2>1, NextLastBelowUIDNext DEF Searched
  <2>4. cpLast' = Max2(cpLast, NextLast(job[l]))
    BY <2>1, <2>2 DEF RaiseLast
  <2>5. cpLast <= cpLast' /\ cpLast' < srvNext /\ (cpLast' = cpLast \/ cpLast' = NextLast(job[l]))
    BY <1>t, <1>v, <2>3, <2>4 DEF Max2, MailboxInv
  <2>6. Recent' = Recent /\ srvNext' = srvNext /\ srvMail' = srvMail /\ srvHidden' = srvHidden
        /\ \A u : Stored(u)' <=> Stored(u)
    BY <2>1 DEF Recent, server, Stored
  <2>7. ASSUME NEW u \in Recent, u <= cpLast' PROVE Stored(u)
    <3>1. CASE cpLast' = cpLast
      BY <1>t, <2>7, <3>1 DEF MailboxInv
    <3>2. CASE cpLast' = NextLast(job[l])
      BY <1>j, <2>1, <2>7, <3>2 DEF JobInv, Unselected, Searched
    <3>3. QED
      BY <2>5, <3>1, <3>2
  <2>8. MailboxInv'
    BY <1>t, <2>5, <2>6, <2>7 DEF MailboxInv
  <2>9. ASSUME NEW m \in Lanes \ {l} PROVE JobInv(m)'
    <3>1. srvNext <= srvNext'
      BY <1>v, <2>6
    <3>2. QED
      BY <1>t, <2>1, <2>2, <2>5, <2>6, <3>1, JobInvFrame
  <2>10. JobInv(l)'
    <3>1. cpLast' \in Nat
      BY <1>t DEF TypeInv, TypeOK
    <3>2. QED
      BY <2>1, <2>2, <3>1 DEF JobInv, Searched, Unselected
  <2>11. QED
    BY <1>t, <2>8, <2>9, <2>10 DEF SkipInv
<1>81. ASSUME NEW l \in Lanes, ReadBackfill(l), NeedsBackfill(job[l]) PROVE SkipInv'
  <2>1. /\ job[l].pc = "completed" /\ UNCHANGED <<server, database>>
        /\ job'[l] = [job[l] EXCEPT !.pc = "enqueue"] /\ \A m \in Lanes \ {l} : job'[m] = job[m]
    BY <1>81, <1>f DEF ReadBackfill
  <2>2. job'[l].pc = "enqueue" /\ job'[l].kind = job[l].kind /\ job'[l].reqLast = job[l].reqLast
    BY <1>j, <2>1 DEF Jobs
  <2>3. JobInv(l)'
    BY <1>j, <2>1, <2>2 DEF JobInv, Searched, Unselected, database
  <2>4. QED
    BY <2>1, <2>3, LaneStep DEF database
<1>9. ASSUME NEW l \in Lanes,
             \/ ReadBackfill(l) /\ ~NeedsBackfill(job[l])
             \/ EnqueueBackfill(l) \/ CompleteBackfill(l) \/ RefuseJob(l) \/ FailJob(l)
      PROVE  SkipInv'
  <2>1. /\ UNCHANGED server /\ cpLast' = cpLast /\ cpValidity' = cpValidity
        /\ job' = [job EXCEPT ![l] = IdleJob]
    BY <1>9 DEF ReadBackfill, EnqueueBackfill, CompleteBackfill, RefuseJob, FailJob,
               EndWithError, database
  <2>2. job'[l].pc = "idle" /\ \A m \in Lanes \ {l} : job'[m] = job[m]
    BY <1>f, <2>1, IdleJobType
  <2>3. QED
    BY <2>1, <2>2, IdleJobInv, LaneStep
<1>10. CASE Restart
  <2>1. UNCHANGED server /\ UNCHANGED database /\ \A l \in Lanes : job'[l].pc = "idle"
    BY <1>10, IdleJobType DEF Restart
  <2>2. MailboxInv'
    BY <1>t, <2>1 DEF MailboxInv, server, database, Recent, Stored
  <2>3. \A l \in Lanes : JobInv(l)'
    BY <2>1, IdleJobInv
  <2>4. QED
    BY <1>t, <2>2, <2>3 DEF SkipInv
<1>11. CASE ServerStep
  <2>1. /\ srvHidden' = {} /\ srvNext' \in Int /\ srvNext <= srvNext'
        /\ \A u \in srvMail' : u < srvNext' /\ (u \in srvMail \/ u >= srvNext)
        /\ \A u \in Recent' : u \in Recent \/ u >= srvNext
        /\ UNCHANGED <<database, job>>
    <3>1. CASE Deliver
      <4>1. /\ srvNext' = srvNext + 1 /\ srvMail' = srvMail \cup {srvNext} /\ srvHidden' = {}
            /\ srvOld \subseteq srvOld' /\ UNCHANGED <<database, job>>
        BY <1>t, <3>1 DEF Deliver, MailboxInv, StableMailbox
      <4>2. \A u \in srvMail : u \in Int /\ u < srvNext
        BY <1>t DEF MailboxInv, TypeOK, UIDs
      <4>3. QED
        BY <1>v, <4>1, <4>2 DEF Recent
    <3>2. CASE Expose
      BY <1>t, <3>2 DEF Expose, MailboxInv
    <3>3. CASE Recreate
      BY <1>v, <3>3 DEF Recreate, StableMailbox
    <3>4. CASE \E u \in UIDs : Expunge(u) \/ Age(u)
      <4>1. /\ srvMail' \subseteq srvMail /\ srvOld \subseteq srvOld' /\ srvNext' = srvNext
            /\ srvHidden' = srvHidden /\ UNCHANGED <<database, job>>
        BY <3>4 DEF Expunge, Age
      <4>2. QED
        BY <1>t, <1>v, <4>1 DEF MailboxInv, Recent
    <3>5. QED
      BY <1>11, <3>1, <3>2, <3>3, <3>4 DEF ServerStep
  <2>2. cpLast' = cpLast /\ cpValidity' = cpValidity /\ locations' = locations /\ job' = job
    BY <2>1 DEF database
  <2>3. MailboxInv'
    <3>1. cpLast' < srvNext'
      BY <1>t, <1>v, <2>1, <2>2 DEF MailboxInv
    <3>2. ASSUME NEW u \in Recent', u <= cpLast PROVE Stored(u)'
      <4>1. u \in Recent
        <5>1. u \in Int /\ cpLast < srvNext
          BY <1>t DEF MailboxInv, TypeInv, TypeOK, Recent, UIDs
        <5>2. QED
          BY <1>v, <2>1, <3>2, <5>1
      <4>2. u \in srvMail /\ Stored(u)
        BY <1>t, <3>2, <4>1 DEF MailboxInv, Recent
      <4>3. QED
        BY <4>2, LiveRowsStay
    <3>3. QED
      BY <2>1, <2>2, <3>1, <3>2 DEF MailboxInv
  <2>4. \A l \in Lanes : JobInv(l)'
    <3>1. TAKE l \in Lanes
    <3>2. job'[l] = job[l] /\ cpLast <= cpLast'
      BY <1>v, <2>2
    <3>3. QED
      BY <1>t, <2>1, <2>2, <3>2, JobInvFrame
  <2>5. QED
    BY <1>t, <2>3, <2>4 DEF SkipInv
<1>12. CASE UNCHANGED vars
  <2>1. UNCHANGED <<server, database, job>>
    BY <1>12 DEF vars
  <2>2. MailboxInv'
    BY <1>t, <2>1 DEF MailboxInv, server, database, Recent, Stored
  <2>3. ASSUME NEW l \in Lanes PROVE JobInv(l)'
    <3>1. JobInv(l)
      BY <1>j
    <3>2. QED
      BY <2>1, <3>1 DEF JobInv, Unselected, server, database, Recent, Stored
  <2>4. QED
    BY <1>t, <2>2, <2>3 DEF SkipInv
<1>13. QED
  BY <1>1, <1>2, <1>3, <1>4, <1>5, <1>6, <1>7, <1>8, <1>81, <1>9, <1>10, <1>11, <1>12
     DEF Next, JobStep

(* While the mailbox is stable, the checkpoint never passes a recent        *)
(* message that is not stored, whatever the two lanes, failures and         *)
(* restarts do.                                                             *)
THEOREM NoRecentMailSkipped ==
  ASSUME StableMailbox PROVE Spec => []RecentMailNotSkipped
<1>1. SkipInv => RecentMailNotSkipped
  BY StableFacts DEF SkipInv, MailboxInv, RecentMailNotSkipped, Checkpointed, Recent, Unselected
<1>2. Init => SkipInv
  BY SkipInit
<1>3. SkipInv /\ [Next]_vars => SkipInv'
  BY SkipStep
<1>4. QED
  BY <1>1, <1>2, <1>3, PTL DEF Spec

(* While the mailbox is stable, no step drops the row of a message the      *)
(* mailbox shows: a reconcile spares what a concurrent probe stored.        *)
THEOREM LiveRowsAreKept ==
  ASSUME StableMailbox PROVE Spec => LiveRowsKept
<1>1. SkipInv /\ [Next]_vars => [\A u \in srvMail : Stored(u) => Stored(u)']_vars
  BY LiveRowsStay
<1>2. Init => SkipInv
  BY SkipInit
<1>3. SkipInv /\ [Next]_vars => SkipInv'
  BY SkipStep
<1>4. QED
  BY <1>1, <1>2, <1>3, PTL DEF Spec, LiveRowsKept

-----------------------------------------------------------------------------
(* Whatever the mailbox does and whichever lane completes last, last_uid    *)
(* never moves backwards while uid_validity stays the same.                 *)
THEOREM LastUIDMonotone == Spec => LastUIDNeverRewinds
<1>1. TypeInv /\ [Next]_vars => [cpValidity' = cpValidity => cpLast' >= cpLast]_vars
  <2> SUFFICES ASSUME TypeInv, Next, cpValidity' = cpValidity PROVE cpLast' >= cpLast
    BY DEF TypeInv, TypeOK, vars, database
  <2>1. cpLast \in Int /\ \A l \in Lanes : job[l] \in Jobs
    BY DEF TypeInv, TypeOK
  <2>2. ASSUME NEW l \in Lanes, CompleteFolder(l) PROVE cpLast' >= cpLast
    <3>1. cpLast' = Max2(cpLast, NextLast(job[l]))
      BY <2>2 DEF CompleteFolder, RaiseLast
    <3>2. NextLast(job[l]) \in Int
      BY <2>1, RaiseLastType DEF TypeInv
    <3>3. QED
      BY <2>1, <3>1, <3>2 DEF Max2
  <2>3. CASE cpLast' = cpLast
    BY <2>1, <2>3
  <2>4. QED
    BY <2>2, <2>3
       DEF Next, JobStep, ServerStep, database, ReadCheckpoint, SelectFolder, PrepareFolder,
           SearchUIDs, StoreMessage, ListFolder, FetchStates, ReconcileFolder, ReadBackfill,
           EnqueueBackfill, CompleteBackfill, RefuseJob, FailJob,
           EndWithError, Restart, Deliver, Expose, Recreate, Expunge, Age
<1>2. QED
  BY TypeInit, TypeStep, <1>1, PTL DEF Spec, LastUIDNeverRewinds

-----------------------------------------------------------------------------
(* A UID assigned but not shown yet is never passed by a probe.  The        *)
(* mailbox shows messages in the order of their UIDs, so what a session of  *)
(* its present generation has searched lies below every hidden UID.         *)
ShownInOrder ==
  /\ \A u \in srvMail \cup srvHidden : u < srvNext
  /\ \A u \in srvHidden, w \in srvMail : w < u

FoundIsShown(j) ==
  /\ j.selV <= srvValidity /\ (j.pc = "read" => j.high = 0)
  /\ j.selV = srvValidity => j.high < srvNext /\ \A u \in srvHidden : j.high < u

LateInv == ShownInOrder /\ \A l \in Lanes : FoundIsShown(job[l])

LEMMA LateInit == Init => LateInv
<1> SUFFICES ASSUME Init PROVE LateInv
  OBVIOUS
<1>1. ShownInOrder
  BY ConstantsAssumption DEF Init, ShownInOrder
<1>2. \A l \in Lanes : FoundIsShown(job[l])
  BY DEF Init, FoundIsShown, IdleJob
<1>3. QED
  BY <1>1, <1>2 DEF LateInv

(* A step of a job is one of four: it leaves what the job has selected and  *)
(* found alone, ends it, selects the mailbox, or searches it.               *)
LEMMA LaneKnows ==
  ASSUME TypeInv, LateInv, NEW l \in Lanes, UNCHANGED server,
         \A m \in Lanes \ {l} : job'[m] = job[m],
         job'[l].pc = "read" => job'[l].high = 0,
         \/ job'[l].selV = job[l].selV /\ job'[l].high = job[l].high
         \/ job'[l].selV = 0
         \/ job'[l].selV = srvValidity /\ job'[l].high \in srvMail \cup {0}
  PROVE  LateInv'
<1>1. ShownInOrder'
  BY DEF LateInv, ShownInOrder, server
<1>2. srvValidity \in 1..MaxValidity /\ srvNext \in 1..(MaxUID + 1)
      /\ srvMail \subseteq UIDs /\ srvHidden \subseteq UIDs
  BY DEF TypeInv, TypeOK
<1>3. 0 < srvNext /\ \A u \in srvHidden : 0 < u
  BY <1>2, ConstantsAssumption DEF UIDs
<1>4. FoundIsShown(job[l])'
  <2>1. UNCHANGED <<srvValidity, srvNext, srvHidden>>
    BY DEF server
  <2>2. CASE job'[l].selV = job[l].selV /\ job'[l].high = job[l].high
    BY <2>1, <2>2 DEF LateInv, FoundIsShown
  <2>3. CASE job'[l].selV = 0
    BY <1>2, <2>1, <2>3 DEF FoundIsShown
  <2>4. CASE job'[l].selV = srvValidity /\ job'[l].high \in srvMail \cup {0}
    BY <1>2, <1>3, <2>1, <2>4 DEF LateInv, ShownInOrder, FoundIsShown
  <2>5. QED
    BY <2>2, <2>3, <2>4
<1>5. ASSUME NEW m \in Lanes \ {l} PROVE FoundIsShown(job[m])'
  BY <1>5 DEF LateInv, FoundIsShown, server
<1>6. QED
  BY <1>1, <1>4, <1>5 DEF LateInv

LEMMA LateStep == TypeInv /\ LateInv /\ [Next]_vars => LateInv'
<1> SUFFICES ASSUME TypeInv, LateInv, [Next]_vars PROVE LateInv'
  OBVIOUS
<1>t. /\ job \in [Lanes -> Jobs] /\ srvValidity \in 1..MaxValidity
      /\ srvNext \in 1..(MaxUID + 1) /\ srvMail \subseteq UIDs /\ srvHidden \subseteq UIDs
  BY DEF TypeInv, TypeOK
<1>j. \A l \in Lanes : job[l] \in Jobs /\ IdleJob.selV = 0
  BY <1>t DEF IdleJob
<1>1. ASSUME NEW l \in Lanes, NEW k \in KindsOf(l), ReadCheckpoint(l, k) PROVE LateInv'
  BY <1>1, <1>t, LaneKnows DEF ReadCheckpoint, IdleJob
<1>2. ASSUME NEW l \in Lanes, SelectFolder(l) PROVE LateInv'
  <2>1. PICK n \in 0..srvNext :
          job' = [job EXCEPT ![l] = [job[l] EXCEPT
            !.pc = AfterSelect(job[l].kind), !.selV = srvValidity, !.selNext = n]]
    BY <1>2 DEF SelectFolder, ReportedNext
  <2>2. job'[l].selV = srvValidity /\ job'[l].high = job[l].high
        /\ \A m \in Lanes \ {l} : job'[m] = job[m]
    BY <2>1, <1>t, <1>j DEF Jobs
  <2>3. job[l].high = 0
    BY <1>2 DEF SelectFolder, LateInv, FoundIsShown
  <2>4. QED
    BY <1>2, <2>2, <2>3, LaneKnows DEF SelectFolder
<1>4. ASSUME NEW l \in Lanes, SearchUIDs(l) PROVE LateInv'
  <2>1. PICK h \in 0..MaxUID :
          /\ IsHighest(h, SearchResult(job[l]))
          /\ job' = [job EXCEPT ![l] = [job[l] EXCEPT
               !.pc = "store", !.todo = SearchResult(job[l]), !.high = h]]
    BY <1>4 DEF SearchUIDs
  <2>2. job'[l].selV = srvValidity /\ job'[l].high = h
        /\ \A m \in Lanes \ {l} : job'[m] = job[m]
    BY <1>4, <2>1, <1>t, <1>j DEF SearchUIDs, Jobs
  <2>3. h \in srvMail \cup {0}
    BY <2>1 DEF IsHighest, SearchResult
  <2>4. QED
    BY <1>4, <2>2, <2>3, LaneKnows DEF SearchUIDs
<1>5. ASSUME NEW l \in Lanes,
             PrepareFolder(l) \/ StoreMessage(l) \/ ListFolder(l) \/ FetchStates(l)
               \/ ReconcileFolder(l)
      PROVE  LateInv'
  <2> DEFINE Same == /\ job'[l].selV = job[l].selV /\ job'[l].high = job[l].high
                     /\ job'[l].pc # "read" /\ \A m \in Lanes \ {l} : job'[m] = job[m]
  <2>1. CASE PrepareFolder(l)
    <3>1. Same
      BY <2>1, <1>t, <1>j DEF PrepareFolder, Jobs
    <3>2. QED
      BY <2>1, <3>1, LaneKnows DEF PrepareFolder
  <2>2. CASE StoreMessage(l)
    <3>1. PICK u \in job[l].todo : job' = [job EXCEPT ![l].todo = @ \ {u}]
      BY <2>2 DEF StoreMessage
    <3>2. Same
      BY <2>2, <3>1, <1>t, <1>j DEF StoreMessage, Jobs
    <3>3. QED
      BY <2>2, <3>2, LaneKnows DEF StoreMessage
  <2>3. CASE ListFolder(l)
    <3>1. CASE job' = [job EXCEPT ![l] = [job[l] EXCEPT !.pc = "listed", !.snap = srvMail]]
      BY <3>1, <2>3, <1>t, <1>j, LaneKnows DEF ListFolder, Jobs
    <3>2. CASE job' = [job EXCEPT ![l].pc = "complete"]
      BY <3>2, <2>3, <1>t, <1>j, LaneKnows DEF ListFolder, Jobs
    <3>3. QED
      BY <2>3, <3>1, <3>2 DEF ListFolder
  <2>4. CASE FetchStates(l)
    BY <2>4, <1>t, <1>j, LaneKnows DEF FetchStates, Jobs
  <2>5. CASE ReconcileFolder(l)
    <3>1. Same
      BY <2>5, <1>t, <1>j DEF ReconcileFolder, Jobs
    <3>2. QED
      BY <2>5, <3>1, LaneKnows DEF ReconcileFolder
  <2>6. QED
    BY <1>5, <2>1, <2>2, <2>3, <2>4, <2>5
<1>6. ASSUME NEW l \in Lanes,
             CompleteFolder(l) \/ CompleteBackfill(l) \/ EnqueueBackfill(l) \/ RefuseJob(l)
               \/ FailJob(l)
      PROVE  LateInv'
  <2>1. UNCHANGED server
    BY <1>6 DEF CompleteFolder, CompleteBackfill, EnqueueBackfill, RefuseJob, FailJob, EndWithError
  <2>2. /\ job'[l].selV = 0 /\ job'[l].pc # "read"
        /\ \A m \in Lanes \ {l} : job'[m] = job[m]
    <3>1. CASE job' = [job EXCEPT ![l] = IdleJob]
      BY <3>1, <1>t DEF IdleJob
    <3>2. CASE CompleteFolder(l)
      BY <3>2, <1>t DEF CompleteFolder, IdleJob
    <3>3. QED
      BY <1>6, <3>1, <3>2 DEF CompleteBackfill, EnqueueBackfill, RefuseJob, FailJob, EndWithError
  <2>3. QED
    BY <2>1, <2>2, LaneKnows
<1>61. ASSUME NEW l \in Lanes, ReadBackfill(l) PROVE LateInv'
  <2>1. CASE job' = [job EXCEPT ![l] = [job[l] EXCEPT !.pc = "enqueue"]]
    BY <2>1, <1>61, <1>t, <1>j, LaneKnows DEF ReadBackfill, Jobs
  <2>2. CASE job' = [job EXCEPT ![l] = IdleJob]
    BY <2>2, <1>61, <1>t, LaneKnows DEF ReadBackfill, IdleJob
  <2>3. QED
    BY <1>61, <2>1, <2>2 DEF ReadBackfill
<1>7. CASE Restart
  <2>1. UNCHANGED server /\ \A l \in Lanes : job'[l] = IdleJob
    BY <1>7 DEF Restart
  <2>2. ASSUME NEW l \in Lanes PROVE FoundIsShown(job[l])'
    BY <2>1, <1>t DEF FoundIsShown, IdleJob, server
  <2>3. QED
    BY <2>1, <2>2 DEF LateInv, ShownInOrder, server
<1>8. CASE Deliver
  <2>1. srvNext' = srvNext + 1 /\ srvValidity' = srvValidity /\ job' = job
    BY <1>8 DEF Deliver
  <2>2. \/ srvHidden = {} /\ srvHidden' = {} /\ srvMail' = srvMail \cup {srvNext}
        \/ srvHidden' = srvHidden \cup {srvNext} /\ srvMail' = srvMail
    BY <1>8 DEF Deliver
  <2>3. ShownInOrder'
    <3>1. srvNext \in Int /\ \A u \in srvMail \cup srvHidden : u \in Int /\ u < srvNext
      BY <1>t, ConstantsAssumption DEF UIDs, LateInv, ShownInOrder
    <3>2. \A u \in srvMail' \cup srvHidden' : u < srvNext'
      BY <2>1, <2>2, <3>1
    <3>3. \A u \in srvHidden', w \in srvMail' : w < u
      BY <2>2, <3>1 DEF LateInv, ShownInOrder
    <3>4. QED
      BY <3>2, <3>3 DEF ShownInOrder
  <2>4. ASSUME NEW l \in Lanes PROVE FoundIsShown(job[l])'
    BY <1>t, <1>j, <2>1, <2>2 DEF LateInv, FoundIsShown, Jobs
  <2>5. QED
    BY <2>3, <2>4 DEF LateInv
<1>9. CASE Expose
  <2>1. PICK u \in srvHidden :
          /\ \A w \in srvHidden : u <= w
          /\ srvMail' = srvMail \cup {u} /\ srvHidden' = srvHidden \ {u}
          /\ UNCHANGED <<srvValidity, srvNext, job>>
    BY <1>9 DEF Expose
  <2>2. ShownInOrder'
    BY <1>t, <2>1 DEF LateInv, ShownInOrder, UIDs
  <2>3. QED
    BY <2>1, <2>2 DEF LateInv, FoundIsShown
<1>10. CASE Recreate
  <2>1. PICK n \in 0..MaxUID : srvNext' = n + 1 /\ srvMail' = 1..n
    BY <1>10, ConstantsAssumption DEF Recreate
  <2>2. srvHidden' = {} /\ srvValidity' = srvValidity + 1 /\ job' = job
    BY <1>10 DEF Recreate
  <2>3. ASSUME NEW l \in Lanes PROVE FoundIsShown(job[l])'
    BY <1>t, <1>j, <2>2 DEF LateInv, FoundIsShown, Jobs
  <2>4. QED
    BY <2>1, <2>2, <2>3 DEF LateInv, ShownInOrder
<1>11. CASE \E u \in UIDs : Expunge(u) \/ Age(u)
  BY <1>11 DEF Expunge, Age, LateInv, ShownInOrder, FoundIsShown
<1>12. CASE UNCHANGED vars
  BY <1>12 DEF vars, server, LateInv, ShownInOrder, FoundIsShown
<1>13. QED
  BY <1>1, <1>2, <1>4, <1>5, <1>6, <1>61, <1>7, <1>8, <1>9, <1>10, <1>11, <1>12
     DEF Next, JobStep, ServerStep

(* An incremental probe never checkpoints past a message that the server    *)
(* has numbered and not shown (ingest.go:205-207), in any generation.       *)
THEOREM LateMailIsAwaited == Spec => LateMailNotSkipped
<1> DEFINE Awaited ==
      \A l \in Lanes :
        CompleteFolder(l) /\ Decision(job[l]) = "incremental" /\ job[l].selV = srvValidity =>
          \A u \in srvHidden : cpLast < u /\ job[l].reqLast < u => cpLast' < u
<1>1. TypeInv /\ LateInv /\ [Next]_vars => [Awaited]_vars
  <2> SUFFICES ASSUME TypeInv, LateInv, NEW l \in Lanes, CompleteFolder(l),
                      Decision(job[l]) = "incremental", job[l].selV = srvValidity,
                      NEW u \in srvHidden, cpLast < u, job[l].reqLast < u
               PROVE  cpLast' < u
    BY DEF vars
  <2>1. job[l] \in Jobs /\ u \in Int /\ cpLast \in Int
    BY DEF TypeInv, TypeOK, UIDs
  <2>2. job[l].high < u
    BY DEF LateInv, FoundIsShown
  <2>3. NextLast(job[l]) < u
    BY <2>1, <2>2 DEF NextLast, Max2, Jobs
  <2>4. QED
    BY <2>1, <2>3 DEF CompleteFolder, RaiseLast, Max2
<1>2. QED
  BY TypeInit, TypeStep, LateInit, LateStep, <1>1, PTL DEF Spec, LateMailNotSkipped

(* Both together: last_uid moves forward, and no further than the server    *)
(* has shown its messages.                                                  *)
THEOREM CheckpointStaysSound == Spec => CheckpointIsSound
  BY LastUIDMonotone, LateMailIsAwaited DEF CheckpointIsSound

-----------------------------------------------------------------------------
(* Old mail is stored or owed to a backfill.  The assumptions: a stable     *)
(* mailbox, and reconciles that wait for the first sync                     *)
(* (folder_first_sync_race refutes the property without this one).  What    *)
(* the induction needs: nothing runs in the background and the mark stands  *)
(* while a first sync is under way, so whoever clears the mark has seen     *)
(* everything at or below the checkpoint, and a probe everything above it.  *)
PatientReconciles == EarlyReconcile = FALSE

FirstSync == job["fg"].pc # "idle" /\ job["fg"].reqV = 0
OrderInv ==
  /\ cpValidity = 0 \/ FirstSync => job["bg"].pc = "idle" /\ ~backfillQueued /\ backfill
  /\ job["bg"].pc # "idle" => job["bg"].reqV # 0
  /\ job["fg"].kind = "folder"

HistoryInv == \A u \in srvMail : u <= cpLast => Stored(u) \/ backfill

Covers(l) ==
  LET j == job[l] IN
  /\ j.pc \in Searched /\ j.kind = "backfill" =>
       \A u \in srvMail : u <= cpLast => Stored(u) \/ u \in j.todo
  /\ j.pc \in Searched /\ j.kind # "backfill" /\ j.reqV # 0 =>
       \A u \in srvMail : j.reqLast < u /\ u <= NextLast(j) => Stored(u) \/ u \in j.todo

HistInv == OrderInv /\ HistoryInv /\ \A l \in Lanes : Covers(l)

LEMMA HistoryStarts == StableMailbox /\ Init => HistInv
<1> SUFFICES ASSUME Init PROVE HistInv
  OBVIOUS
<1>1. \A l \in Lanes : job[l] = IdleJob /\ job[l].pc = "idle" /\ job[l].kind = "folder"
  BY DEF Init, IdleJob
<1>2. OrderInv
  BY <1>1 DEF Init, OrderInv, FirstSync, Lanes
<1>3. HistoryInv
  BY DEF Init, HistoryInv
<1>4. \A l \in Lanes : Covers(l)
  BY <1>1 DEF Covers, Searched
<1>5. QED
  BY <1>2, <1>3, <1>4 DEF HistInv

(* The order of first sync and background jobs, while a job goes on ...     *)
LEMMA OrderStays ==
  ASSUME OrderInv, NEW l \in Lanes, job[l].pc # "idle",
         job'[l].pc # "idle", job'[l].reqV = job[l].reqV, job'[l].kind = job[l].kind,
         \A m \in Lanes \ {l} : job'[m] = job[m],
         cpValidity' = 0 => cpValidity = 0, backfill' = backfill,
         backfillQueued' = backfillQueued
  PROVE  OrderInv'
BY DEF OrderInv, FirstSync, Lanes

(* ... and when it ends: only a background job queues a backfill before the *)
(* checkpoint is set.                                                       *)
LEMMA OrderAfterEnd ==
  ASSUME OrderInv, NEW l \in Lanes, job[l].pc # "idle",
         job'[l].pc = "idle", job'[l].kind = "folder",
         \A m \in Lanes \ {l} : job'[m] = job[m],
         cpValidity' = 0 => cpValidity = 0,
         backfill' = backfill \/ l = "bg",
         cpValidity' # 0 \/ l = "bg" \/ backfillQueued' = backfillQueued
  PROVE  OrderInv'
BY DEF OrderInv, FirstSync, Lanes

(* A lane that does not move still covers what it did: what is stored stays *)
(* stored, what comes in is above every checkpoint, and a checkpoint that   *)
(* rises over unstored mail rises while no backfill runs.                   *)
LEMMA CoverStays ==
  ASSUME StableMailbox, SkipInv, [Next]_vars, NEW m \in Lanes, Covers(m),
         job'[m] = job[m], cpLast' < srvNext,
         \A u \in srvMail' : u \in srvMail \/ u >= srvNext,
         job[m].pc # "idle" /\ job[m].kind = "backfill" =>
           \A u \in srvMail : u <= cpLast' => u <= cpLast \/ Stored(u)
  PROVE  Covers(m)'
<1> DEFINE j == job[m]
<1>1. j = job'[m] /\ j \in Jobs /\ TypeOK /\ TypeOK' /\ MailboxInv /\ JobInv(m) /\ TypeInv
  BY TypeStep DEF SkipInv, TypeInv, TypeOK
<1>2. srvNext \in Int /\ cpLast' \in Int /\ \A u \in srvMail' : u \in Int
  BY <1>1 DEF TypeOK, UIDs
<1>3. ASSUME j.pc \in Searched, j.kind = "backfill", NEW u \in srvMail', u <= cpLast'
      PROVE  Stored(u)' \/ u \in j.todo
  <2>1. u \in srvMail
    BY <1>2, <1>3
  <2>2. Stored(u) \/ u <= cpLast
    BY <1>3, <2>1 DEF Searched
  <2>3. Stored(u) \/ u \in j.todo
    BY <1>3, <2>1, <2>2 DEF Covers
  <2>4. QED
    BY <2>1, <2>3, LiveRowsStay
<1>4. ASSUME j.pc \in Searched, j.kind # "backfill", j.reqV # 0, NEW u \in srvMail',
             j.reqLast < u, u <= NextLast(j)
      PROVE  Stored(u)' \/ u \in j.todo
  <2>1. NextLast(j) \in Int /\ NextLast(j) < srvNext
    BY <1>1, <1>4, NextLastBelowUIDNext
  <2>2. u \in srvMail
    BY <1>2, <1>4, <2>1
  <2>3. Stored(u) \/ u \in j.todo
    BY <1>4, <2>2 DEF Covers
  <2>4. QED
    BY <2>2, <2>3, LiveRowsStay
<1> HIDE DEF j
<1>5. Covers(m)' <=>
        /\ j.pc \in Searched /\ j.kind = "backfill" =>
             \A u \in srvMail' : u <= cpLast' => Stored(u)' \/ u \in j.todo
        /\ j.pc \in Searched /\ j.kind # "backfill" /\ j.reqV # 0 =>
             \A u \in srvMail' : j.reqLast < u /\ u <= NextLast(j) => Stored(u)' \/ u \in j.todo
  BY <1>1 DEF Covers
<1>6. QED
  BY <1>3, <1>4, <1>5

(* A step of one lane that leaves the mailbox, last_uid and the mark alone. *)
LEMMA HistoryLaneStep ==
  ASSUME StableMailbox, SkipInv, HistInv, [Next]_vars, NEW l \in Lanes,
         UNCHANGED server, cpLast' = cpLast, backfill' = backfill,
         \A m \in Lanes \ {l} : job'[m] = job[m],
         OrderInv', Covers(l)'
  PROVE  HistInv'
<1>1. srvMail' = srvMail /\ MailboxInv
  BY DEF server, SkipInv
<1>2. HistoryInv'
  <2>1. \A u \in srvMail : Stored(u) => Stored(u)'
    BY LiveRowsStay
  <2>2. QED
    BY <1>1, <2>1 DEF HistInv, HistoryInv
<1>3. ASSUME NEW m \in Lanes \ {l} PROVE Covers(m)'
  <2>1. cpLast' < srvNext /\ Covers(m) /\ job'[m] = job[m]
    BY <1>1 DEF MailboxInv, HistInv
  <2>2. QED
    BY <1>1, <2>1, CoverStays
<1>4. QED
  BY <1>2, <1>3 DEF HistInv

(* A search covers what its job will checkpoint: a backfill the old mail,   *)
(* the rest of which is stored already, a probe what is above its request.  *)
LEMMA SearchCoversHistory ==
  ASSUME StableMailbox, SkipInv, NEW l \in Lanes, job[l].pc = "search",
         NEW u \in srvMail, job[l].kind = "backfill" => u <= cpLast,
         job[l].kind # "backfill" => job[l].reqV # 0 /\ job[l].reqLast < u
  PROVE  Stored(u) \/ u \in SearchResult(job[l])
<1>1. job[l] \in Jobs /\ u \in UIDs /\ MailboxInv /\ Decision(job[l]) # "rebuild"
  BY StableFacts DEF SkipInv, TypeInv, TypeOK, Unselected
<1>2. CASE job[l].kind = "backfill"
  BY <1>1, <1>2 DEF SearchResult, MailboxInv, Recent
<1>3. CASE job[l].kind # "backfill"
  <2>1. Decision(job[l]) = "incremental"
    BY <1>1, <1>3 DEF Decision
  <2>2. u >= FetchFrom(job[l].reqLast)
    BY <1>1, <1>3, ConstantsAssumption DEF FetchFrom, Jobs, UIDs
  <2>3. QED
    BY <1>3, <2>1, <2>2 DEF SearchResult
<1>4. QED
  BY <1>2, <1>3

LEMMA HistoryStep ==
  ASSUME StableMailbox, PatientReconciles, SkipInv, HistInv, [Next]_vars PROVE HistInv'
<1>t. TypeInv /\ TypeOK /\ MailboxInv /\ OrderInv /\ HistoryInv
  BY DEF SkipInv, TypeInv, HistInv
<1>j. \A l \in Lanes : job[l] \in Jobs /\ JobInv(l) /\ Covers(l)
  BY <1>t DEF TypeOK, SkipInv, HistInv
<1>f. job \in [Lanes -> Jobs]
  BY <1>t DEF TypeOK
<1>i. IdleJob.pc = "idle" /\ IdleJob.kind = "folder"
  BY DEF IdleJob
<1>1. ASSUME NEW l \in Lanes, NEW k \in KindsOf(l), ReadCheckpoint(l, k) PROVE HistInv'
  <2>1. job'[l] = [IdleJob EXCEPT !.pc = "read", !.kind = k, !.reqV = cpValidity, !.reqLast = cpLast]
        /\ \A m \in Lanes \ {l} : job'[m] = job[m]
    BY <1>1, <1>f DEF ReadCheckpoint
  <2>2. job'[l].pc = "read" /\ job'[l].kind = k /\ job'[l].reqV = cpValidity
    BY <2>1 DEF IdleJob
  <2>3. /\ cpValidity' = cpValidity /\ cpLast' = cpLast /\ backfill' = backfill /\ UNCHANGED server
        /\ backfillQueued' = (backfillQueued /\ k # "backfill")
        /\ k = "reconcile" => cpValidity # 0 /\ ~FirstSync
        /\ k = "backfill" => backfillQueued /\ cpValidity # 0
    BY <1>1 DEF ReadCheckpoint, database, FirstSyncOver, FirstSync, PatientReconciles
  <2>4. OrderInv'
    <3>1. CASE l = "fg"
      <4>1. k = "folder" /\ job'["bg"] = job["bg"] /\ "bg" \in Lanes
        BY <2>1, <3>1 DEF KindsOf, Lanes
      <4>2. QED
        BY <1>t, <2>2, <2>3, <3>1, <4>1 DEF OrderInv, FirstSync
    <3>2. CASE l = "bg"
      <4>1. k \in {"reconcile", "backfill"} /\ job'["fg"] = job["fg"]
        BY <1>1, <2>1, <3>2 DEF KindsOf, Lanes
      <4>2. cpValidity # 0 /\ ~FirstSync
        BY <1>t, <2>3, <4>1 DEF OrderInv
      <4>3. QED
        BY <1>t, <2>2, <2>3, <3>2, <4>1, <4>2 DEF OrderInv, FirstSync
    <3>3. QED
      BY <3>1, <3>2 DEF Lanes
  <2>5. Covers(l)'
    BY <2>2 DEF Covers, Searched
  <2>6. QED
    BY <2>1, <2>3, <2>4, <2>5, HistoryLaneStep
<1>2. ASSUME NEW l \in Lanes, SelectFolder(l) \/ PrepareFolder(l) PROVE HistInv'
  <2>1. /\ job'[l].pc \in {"selected", "search"} /\ job'[l].reqV = job[l].reqV
        /\ job'[l].kind = job[l].kind /\ \A m \in Lanes \ {l} : job'[m] = job[m]
        /\ job[l].pc # "idle"
    <3>1. CASE SelectFolder(l)
      <4>1. PICK n \in 0..srvNext :
              job' = [job EXCEPT ![l] = [job[l] EXCEPT
                !.pc = AfterSelect(job[l].kind), !.selV = srvValidity, !.selNext = n]]
        BY <3>1 DEF SelectFolder, ReportedNext
      <4>2. AfterSelect(job[l].kind) \in {"selected", "search"} /\ job[l].pc = "read"
        BY <3>1 DEF SelectFolder, AfterSelect
      <4>3. QED
        BY <1>j, <1>f, <4>1, <4>2 DEF Jobs
    <3>2. CASE PrepareFolder(l)
      BY <1>j, <1>f, <3>2 DEF PrepareFolder, Jobs
    <3>3. QED
      BY <1>2, <3>1, <3>2
  <2>2. UNCHANGED server /\ cpLast' = cpLast /\ backfill' = backfill /\ backfillQueued' = backfillQueued
    BY <1>2 DEF SelectFolder, PrepareFolder, database
  <2>3. cpValidity' = 0 => cpValidity = 0
    <3>1. CASE SelectFolder(l)
      BY <3>1 DEF SelectFolder, database
    <3>2. CASE PrepareFolder(l)
      <4>1. job[l].pc = "selected" /\ cpValidity' = job[l].selV
        BY <3>2 DEF PrepareFolder
      <4>2. job[l].selV = 1
        BY <1>t, <4>1, StableFacts DEF Unselected
      <4>3. QED
        BY <4>1, <4>2
    <3>3. QED
      BY <1>2, <3>1, <3>2
  <2>4. OrderInv'
    BY <1>t, <2>1, <2>2, <2>3, OrderStays
  <2>5. Covers(l)'
    BY <2>1 DEF Covers, Searched
  <2>6. QED
    BY <2>1, <2>2, <2>4, <2>5, HistoryLaneStep
<1>3. ASSUME NEW l \in Lanes, SearchUIDs(l) PROVE HistInv'
  <2> DEFINE R == SearchResult(job[l])
  <2>1. PICK h \in 0..MaxUID :
          job' = [job EXCEPT ![l] = [job[l] EXCEPT !.pc = "store", !.todo = R, !.high = h]]
    BY <1>3 DEF SearchUIDs
  <2>2. job'[l] = [job[l] EXCEPT !.pc = "store", !.todo = R, !.high = h]
        /\ \A m \in Lanes \ {l} : job'[m] = job[m]
    BY <1>f, <2>1
  <2>3. job'[l].pc = "store" /\ job'[l].todo = R /\ job'[l].kind = job[l].kind
        /\ job'[l].reqLast = job[l].reqLast /\ job'[l].reqV = job[l].reqV
    BY <1>j, <2>2 DEF Jobs
  <2>4. /\ UNCHANGED server /\ UNCHANGED database /\ backfillQueued' = backfillQueued
        /\ job[l].pc = "search"
    BY <1>3 DEF SearchUIDs
  <2>5. cpValidity' = cpValidity /\ cpLast' = cpLast /\ backfill' = backfill /\ srvMail' = srvMail
        /\ \A u : Stored(u)' <=> Stored(u)
    BY <2>4 DEF database, server, Stored
  <2>6. OrderInv'
    BY <1>t, <2>2, <2>3, <2>4, <2>5, OrderStays
  <2>7. ASSUME NEW u \in srvMail, job[l].kind = "backfill" => u <= cpLast,
               job[l].kind # "backfill" => job[l].reqV # 0 /\ job[l].reqLast < u
        PROVE  Stored(u) \/ u \in R
    BY <2>4, <2>7, SearchCoversHistory
  <2> HIDE DEF R
  <2>8. Covers(l)'
    BY <2>3, <2>5, <2>7 DEF Covers
  <2>9. QED
    BY <2>2, <2>4, <2>5, <2>6, <2>8, HistoryLaneStep
<1>4. ASSUME NEW l \in Lanes, StoreMessage(l) PROVE HistInv'
  <2>1. PICK w \in job[l].todo :
          /\ \/ locations' = locations \cup {<<job[l].selV, w>>}
             \/ (w \notin srvMail \/ srvValidity # job[l].selV) /\ locations' = locations
          /\ job' = [job EXCEPT ![l].todo = @ \ {w}]
    BY <1>4 DEF StoreMessage
  <2>2. job'[l] = [job[l] EXCEPT !.todo = @ \ {w}] /\ \A m \in Lanes \ {l} : job'[m] = job[m]
    BY <1>f, <2>1
  <2>3. job'[l].pc = "store" /\ job'[l].todo = job[l].todo \ {w} /\ job'[l].high = job[l].high
        /\ job'[l].kind = job[l].kind /\ job'[l].reqLast = job[l].reqLast
        /\ job'[l].selNext = job[l].selNext /\ job'[l].reqV = job[l].reqV
        /\ job'[l].selV = job[l].selV /\ job[l].pc = "store"
    BY <1>4, <1>j, <2>2 DEF Jobs, StoreMessage
  <2>4. UNCHANGED server /\ cpLast' = cpLast /\ cpValidity' = cpValidity /\ srvMail' = srvMail
        /\ backfill' = backfill /\ backfillQueued' = backfillQueued /\ srvValidity' = srvValidity
    BY <1>4 DEF StoreMessage, server
  <2>5. job[l].selV = 1 /\ srvValidity = 1
    BY <1>t, <2>3, StableFacts DEF Unselected
  <2>6. ASSUME NEW u \in srvMail, Stored(u) \/ u \in job[l].todo
        PROVE  Stored(u)' \/ u \in job[l].todo \ {w}
    <3>1. CASE Stored(u)
      BY <3>1, LiveRowsStay
    <3>2. CASE u = w
      BY <2>1, <2>4, <2>5, <3>2 DEF Stored
    <3>3. QED
      BY <2>6, <3>1, <3>2
  <2>7. NextLast(job'[l]) = NextLast(job[l])
    BY <2>3 DEF NextLast, Decision
  <2>8. Covers(l)'
    BY <1>j, <2>3, <2>4, <2>6, <2>7 DEF Covers
  <2>9. OrderInv'
    BY <1>t, <2>2, <2>3, <2>4, OrderStays
  <2>10. QED
    BY <2>2, <2>4, <2>8, <2>9, HistoryLaneStep
<1>5. ASSUME NEW l \in Lanes, ListFolder(l) \/ FetchStates(l) \/ ReconcileFolder(l)
      PROVE  HistInv'
  <2>1. /\ UNCHANGED server /\ cpLast' = cpLast /\ cpValidity' = cpValidity /\ srvMail' = srvMail
        /\ backfill' = backfill /\ backfillQueued' = backfillQueued
        /\ job[l].pc \in {"store", "listed", "apply"}
    BY <1>5 DEF ListFolder, FetchStates, ReconcileFolder, server, database
  <2>2. /\ job'[l].pc \in {"listed", "apply", "complete"} /\ job'[l].todo = job[l].todo
        /\ job'[l].kind = job[l].kind /\ job'[l].high = job[l].high
        /\ job'[l].reqLast = job[l].reqLast /\ job'[l].reqV = job[l].reqV
        /\ job'[l].selNext = job[l].selNext /\ job'[l].selV = job[l].selV
        /\ \A m \in Lanes \ {l} : job'[m] = job[m]
    <3>1. /\ \A m \in Lanes \ {l} : job'[m] = job[m]
          /\ \/ job'[l] = [job[l] EXCEPT !.pc = "listed", !.snap = srvMail]
             \/ job'[l] = [job[l] EXCEPT !.pc = "apply"]
             \/ job'[l] = [job[l] EXCEPT !.pc = "complete"]
             \/ job'[l] = [job[l] EXCEPT !.pc = "complete", !.snap = {}]
      BY <1>5, <1>f DEF ListFolder, FetchStates, ReconcileFolder
    <3>2. QED
      BY <1>j, <3>1 DEF Jobs
  <2>3. NextLast(job'[l]) = NextLast(job[l])
    BY <2>2 DEF NextLast, Decision
  <2>4. \A u \in srvMail : Stored(u) => Stored(u)'
    BY LiveRowsStay
  <2>5. Covers(l)'
    BY <1>j, <2>1, <2>2, <2>3, <2>4 DEF Covers, Searched
  <2>6. OrderInv'
    BY <1>t, <2>1, <2>2, OrderStays
  <2>7. QED
    BY <2>1, <2>2, <2>5, <2>6, HistoryLaneStep
<1>6. ASSUME NEW l \in Lanes, CompleteFolder(l) PROVE HistInv'
  <2>1. /\ job[l].pc \in {"complete", "store"} /\ job[l].todo = {} /\ job[l].kind # "backfill"
        /\ UNCHANGED server /\ locations' = locations /\ backfill' = backfill
        /\ cpLast' = RaiseLast(job[l]) /\ cpValidity' = job[l].selV
        /\ job'[l].pc = "completed" /\ job'[l].kind = job[l].kind /\ job'[l].reqV = job[l].reqV
        /\ backfillQueued' = backfillQueued /\ \A m \in Lanes \ {l} : job'[m] = job[m]
    BY <1>6, <1>f, <1>j DEF CompleteFolder, JobInv, Unselected, IdleJob
  <2>2. job[l].selV = 1 /\ cpValidity = 1 /\ cpValidity' = 1
    BY <1>t, <1>j, <2>1, StableFacts DEF JobInv, Unselected
  <2>3. NextLast(job[l]) \in 0..MaxUID /\ NextLast(job[l]) < srvNext
    BY <1>t, <1>j, <2>1, NextLastBelowUIDNext DEF Searched
  <2>4. cpLast' = Max2(cpLast, NextLast(job[l]))
    BY <2>1, <2>2 DEF RaiseLast
  <2>5. cpLast' < srvNext /\ (cpLast' = cpLast \/ cpLast' = NextLast(job[l]))
    BY <1>t, <2>3, <2>4 DEF Max2, MailboxInv
  <2>6. srvMail' = srvMail /\ \A u : Stored(u)' <=> Stored(u)
    BY <2>1 DEF server, Stored
  <2>7. ASSUME job[l].reqV # 0, NEW u \in srvMail, u <= cpLast' PROVE u <= cpLast \/ Stored(u)
    <3>1. u \in Int /\ cpLast \in Int /\ job[l].reqLast \in Int /\ job[l].reqLast <= cpLast
      BY <1>t, <1>j, <2>1 DEF TypeOK, UIDs, Jobs, JobInv, Unselected
    <3>2. CASE cpLast' = NextLast(job[l]) /\ cpLast < u
      BY <1>j, <2>1, <2>7, <3>1, <3>2 DEF Covers, Searched
    <3>3. QED
      BY <2>5, <2>7, <3>1, <3>2
  <2>8. job[l].reqV = 0 => backfill /\ job["bg"].pc = "idle"
    BY <1>t, <2>1 DEF OrderInv, FirstSync, Lanes
  <2>9. OrderInv'
    BY <1>t, <2>1, <2>2, OrderStays
  <2>10. HistoryInv'
    BY <1>t, <2>1, <2>6, <2>7, <2>8 DEF HistoryInv
  <2>11. ASSUME NEW m \in Lanes \ {l} PROVE Covers(m)'
    <3>1. job[m].kind = "backfill" => m = "bg"
      BY <1>t DEF OrderInv, Lanes
    <3>2. \A u \in srvMail' : u \in srvMail
      BY <2>6
    <3>3. job[m].pc # "idle" /\ job[m].kind = "backfill" =>
            \A u \in srvMail : u <= cpLast' => u <= cpLast \/ Stored(u)
      BY <2>7, <2>8, <3>1
    <3>4. Covers(m) /\ job'[m] = job[m]
      BY <1>j, <2>1
    <3>5. QED
      BY <2>5, <3>2, <3>3, <3>4, CoverStays
  <2>12. Covers(l)'
    BY <2>1 DEF Covers, Searched
  <2>13. QED
    BY <2>9, <2>10, <2>11, <2>12 DEF HistInv
<1>61. ASSUME NEW l \in Lanes, ReadBackfill(l) \/ EnqueueBackfill(l) PROVE HistInv'
  <2>1. /\ job[l].pc \in {"completed", "enqueue"} /\ UNCHANGED <<server, database>>
        /\ \A m \in Lanes \ {l} : job'[m] = job[m]
    BY <1>61, <1>f DEF ReadBackfill, EnqueueBackfill
  <2>2. cpValidity = 1 /\ cpValidity' = cpValidity /\ cpLast' = cpLast /\ backfill' = backfill
    BY <1>j, <2>1 DEF JobInv, Unselected, database
  <2>3. CASE job'[l] = [job[l] EXCEPT !.pc = "enqueue"] /\ backfillQueued' = backfillQueued
    <3>1. job'[l].pc = "enqueue" /\ job'[l].kind = job[l].kind /\ job'[l].reqV = job[l].reqV
      BY <1>j, <2>3 DEF Jobs
    <3>2. OrderInv'
      BY <1>t, <2>1, <2>2, <2>3, <3>1, OrderStays
    <3>3. Covers(l)'
      BY <3>1 DEF Covers, Searched
    <3>4. QED
      BY <2>1, <2>2, <3>2, <3>3, HistoryLaneStep
  <2>4. CASE job'[l] = IdleJob
    <3>1. job'[l].pc = "idle" /\ job'[l].kind = "folder"
      BY <1>i, <2>4
    <3>2. OrderInv'
      BY <1>t, <2>1, <2>2, <3>1, OrderAfterEnd
    <3>3. Covers(l)'
      BY <3>1 DEF Covers, Searched
    <3>4. QED
      BY <2>1, <2>2, <3>2, <3>3, HistoryLaneStep
  <2>5. QED
    BY <1>61, <1>f, <2>3, <2>4 DEF ReadBackfill, EnqueueBackfill
<1>7. ASSUME NEW l \in Lanes, CompleteBackfill(l) PROVE HistInv'
  <2>1. /\ job[l].pc = "store" /\ job[l].todo = {} /\ job[l].kind = "backfill"
        /\ UNCHANGED server /\ cpValidity' = cpValidity /\ cpLast' = cpLast
        /\ locations' = locations /\ backfillQueued' = backfillQueued
        /\ job'[l] = IdleJob /\ \A m \in Lanes \ {l} : job'[m] = job[m]
    BY <1>7, <1>f DEF CompleteBackfill
  <2>2. l = "bg"
    BY <1>t, <2>1 DEF OrderInv, Lanes
  <2>3. srvMail' = srvMail /\ \A u : Stored(u)' <=> Stored(u)
    BY <2>1 DEF server, Stored
  <2>4. HistoryInv'
    BY <1>j, <2>1, <2>3 DEF Covers, Searched, HistoryInv
  <2>5. OrderInv'
    <3>1. job'[l].pc = "idle" /\ job'[l].kind = "folder" /\ job[l].pc # "idle"
      BY <1>i, <2>1
    <3>2. QED
      BY <1>t, <2>1, <2>2, <3>1, OrderAfterEnd
  <2>6. ASSUME NEW m \in Lanes \ {l} PROVE Covers(m)'
    <3>1. Covers(m) /\ job'[m] = job[m] /\ cpLast' < srvNext
      BY <1>t, <1>j, <2>1 DEF MailboxInv
    <3>2. QED
      BY <2>1, <2>3, <3>1, CoverStays
  <2>7. Covers(l)'
    BY <1>i, <2>1 DEF Covers, Searched
  <2>8. QED
    BY <2>4, <2>5, <2>6, <2>7 DEF HistInv
<1>8. ASSUME NEW l \in Lanes, RefuseJob(l) \/ FailJob(l) PROVE HistInv'
  <2>1. /\ UNCHANGED server /\ UNCHANGED database /\ job[l].pc # "idle"
        /\ job'[l] = IdleJob /\ \A m \in Lanes \ {l} : job'[m] = job[m]
        /\ backfillQueued' = (backfillQueued \/ job[l].kind = "backfill")
    BY <1>8, <1>f DEF RefuseJob, FailJob, EndWithError
  <2>2. cpValidity' = cpValidity /\ cpLast' = cpLast /\ backfill' = backfill
    BY <2>1 DEF database
  <2>3. OrderInv'
    <3>1. job'[l].pc = "idle" /\ job'[l].kind = "folder"
      BY <1>i, <2>1
    <3>2. l = "bg" \/ backfillQueued' = backfillQueued
      BY <1>t, <2>1 DEF OrderInv, Lanes, TypeOK
    <3>3. QED
      BY <1>t, <2>1, <2>2, <3>1, <3>2, OrderAfterEnd
  <2>4. Covers(l)'
    BY <1>i, <2>1 DEF Covers, Searched
  <2>5. QED
    BY <2>1, <2>2, <2>3, <2>4, HistoryLaneStep
<1>9. CASE Restart
  <2>1. /\ UNCHANGED server /\ UNCHANGED database /\ ~backfillQueued'
        /\ \A l \in Lanes : job'[l] = IdleJob
    BY <1>9 DEF Restart
  <2>2. HistoryInv'
    BY <1>t, <2>1 DEF HistoryInv, server, database, Stored
  <2>3. OrderInv'
    BY <1>t, <1>i, <2>1 DEF OrderInv, FirstSync, Lanes, database
  <2>4. \A l \in Lanes : Covers(l)'
    BY <1>i, <2>1 DEF Covers, Searched
  <2>5. QED
    BY <2>2, <2>3, <2>4 DEF HistInv
<1>10. CASE ServerStep
  <2>1. /\ \A u \in srvMail' : u \in srvMail \/ u >= srvNext
        /\ UNCHANGED <<database, job, backfillQueued>>
    <3>1. CASE Deliver
      BY <1>t, <3>1 DEF Deliver, StableMailbox, TypeOK
    <3>2. CASE Expose
      BY <1>t, <3>2 DEF Expose, MailboxInv
    <3>3. CASE Recreate
      <4>1. srvValidity = 1 /\ srvValidity < MaxValidity
        BY <1>t, <3>3, StableFacts DEF Recreate, Unselected
      <4>2. QED
        BY <4>1 DEF StableMailbox
    <3>4. CASE \E u \in UIDs : Expunge(u) \/ Age(u)
      BY <3>4 DEF Expunge, Age
    <3>5. QED
      BY <1>10, <3>1, <3>2, <3>3, <3>4 DEF ServerStep
  <2>2. cpLast' = cpLast /\ cpValidity' = cpValidity /\ backfill' = backfill /\ job' = job
        /\ backfillQueued' = backfillQueued
    BY <2>1 DEF database
  <2>3. HistoryInv'
    <3>1. ASSUME NEW u \in srvMail', u <= cpLast' PROVE Stored(u)' \/ backfill'
      <4>1. u \in Int /\ cpLast \in Int /\ srvNext \in Int /\ cpLast < srvNext
        <5>1. TypeOK'
          BY <1>t, TypeStep DEF TypeInv
        <5>2. QED
          BY <1>t, <5>1 DEF MailboxInv, TypeOK, UIDs
      <4>2. u \in srvMail
        BY <2>1, <2>2, <3>1, <4>1
      <4>3. QED
        BY <1>t, <2>2, <3>1, <4>2, LiveRowsStay DEF HistoryInv
    <3>2. QED
      BY <3>1 DEF HistoryInv
  <2>4. OrderInv'
    BY <1>t, <2>2 DEF OrderInv, FirstSync
  <2>5. ASSUME NEW l \in Lanes PROVE Covers(l)'
    <3>1. Covers(l) /\ job'[l] = job[l] /\ cpLast' < srvNext
      BY <1>t, <1>j, <2>2 DEF MailboxInv
    <3>2. QED
      BY <2>1, <2>2, <3>1, CoverStays
  <2>6. QED
    BY <2>3, <2>4, <2>5 DEF HistInv
<1>11. CASE UNCHANGED vars
  <2>1. UNCHANGED <<server, database, job, backfillQueued>>
    BY <1>11 DEF vars
  <2>2. OrderInv' /\ HistoryInv'
    BY <1>t, <2>1 DEF OrderInv, FirstSync, HistoryInv, server, database, Stored
  <2>3. ASSUME NEW l \in Lanes PROVE Covers(l)'
    <3>1. Covers(l)
      BY <1>j
    <3>2. QED
      BY <2>1, <3>1 DEF Covers, server, database, Stored
  <2>4. QED
    BY <2>2, <2>3 DEF HistInv
<1>12. QED
  BY <1>1, <1>2, <1>3, <1>4, <1>5, <1>6, <1>61, <1>7, <1>8, <1>9, <1>10, <1>11
     DEF Next, JobStep

(* While the mailbox is stable and reconciles wait for the first sync, an   *)
(* old message at or below the checkpoint is stored or a backfill is owed   *)
(* (initial.go:21-22), whatever the two lanes, failures and restarts do.    *)
THEOREM HistoryIsOwed ==
  ASSUME StableMailbox, PatientReconciles PROVE Spec => []HistoryNotForgotten
<1>1. HistInv => HistoryNotForgotten
  BY DEF HistInv, HistoryInv, HistoryNotForgotten, Checkpointed
<1>2. Init => SkipInv /\ HistInv
  BY SkipInit, HistoryStarts
<1>3. SkipInv /\ HistInv /\ [Next]_vars => SkipInv' /\ HistInv'
  BY SkipStep, HistoryStep
<1>4. QED
  BY <1>1, <1>2, <1>3, PTL DEF Spec
=============================================================================
