-------------------------- MODULE AttachmentCache --------------------------
(***************************************************************************)
(* The attachment cache: downloadAttachment (httpapi/mail_handlers.go) and  *)
(* LoadAttachment (mailruntime/attachments.go).  Under one mutex a download *)
(* evicts the oldest files, writes a temporary file, renames it and records *)
(* the path; the request then opens the path without the mutex.             *)
(*                                                                          *)
(* One step is one transaction, one file operation or one answer of the     *)
(* server.  The service may stop between any two of them.                   *)
(***************************************************************************)
EXTENDS Integers, Sequences, FiniteSets, SequencesExt

CONSTANTS
  Attachments, Big,         \* and those that take two units instead of one
  Quota,                    \* cacheQuotaBytes
  Requests,                 \* concurrent downloads
  MaxDownloads,             \* bound: downloads that have asked for the cache's mutex
  MaxCacheFaults,           \* bound: failed transactions, file operations and fetches, restarts
  MaxRestores               \* bound: restores of the database without the cache directory

ASSUME CacheAssumption ==
  /\ Attachments # {} /\ Big \subseteq Attachments /\ Quota \in Nat
  /\ {MaxDownloads, MaxCacheFaults, MaxRestores} \subseteq Nat

Free == [nobody |-> TRUE]           \* the mutex's holder when nobody has it
ASSUME RequestsAssumption == Free \notin Requests

VARIABLES
  rows,            \* attachments that have a row
  cachePath,       \* rows whose cache_path is set
  renumbered,      \* the folder got a new UIDVALIDITY on the server
  files,           \* the cache directory, oldest first
  cacheMu,         \* the request that holds the mutex, or Free
  pc,              \* per request
  wants,           \* per request: the attachment
  fetched,         \* what the mutex's holder has fetched is its attachment's content
  evicting,        \* the files ensureCacheCapacity has listed and not yet looked at
  evicted,         \* history: requests whose file was removed after they got its path
  downloads, cacheFaults, restores  \* so far (bounded)

cacheBounds == <<downloads, cacheFaults, restores>>
store == <<rows, cachePath, renumbered>>
cacheVars == <<store, files, cacheMu, pc, wants, fetched, evicting, evicted, cacheBounds>>

(* A file of the cache: whose it is, whether it is still the temporary one, *)
(* whether its content is the attachment's.                                 *)
CacheFile(a, temp, right) == [of |-> a, temp |-> temp, right |-> right]
Size(a) == IF a \in Big THEN 2 ELSE 1
Named(list, a) == {i \in DOMAIN list : list[i].of = a /\ ~list[i].temp}
Exists(a) == Named(files, a) # {}
Total(list) == Len(list) + Cardinality({i \in DOMAIN list : list[i].of \in Big})

(* The directory without the file at a's path, which is there once at most. *)
Others(list, a) ==
  IF Named(list, a) = {} THEN list ELSE RemoveAt(list, CHOOSE i \in Named(list, a) : TRUE)

CacheInit ==
  /\ rows = Attachments /\ cachePath = {} /\ renumbered = FALSE /\ files = <<>>
  /\ cacheMu = Free /\ pc = [r \in Requests |-> "idle"]
  /\ wants = [r \in Requests |-> CHOOSE a \in Attachments : TRUE]
  /\ fetched = TRUE /\ evicting = <<>> /\ evicted = {}
  /\ downloads = 0 /\ cacheFaults = 0 /\ restores = 0

CacheFault == cacheFaults < MaxCacheFaults /\ cacheFaults' = cacheFaults + 1
NoCacheFault == UNCHANGED cacheFaults
To(r, state) == pc' = [pc EXCEPT ![r] = state]
Unlock == cacheMu' = Free /\ evicting' = <<>>
Unavailable(r) == To(r, "failed") /\ Unlock

-----------------------------------------------------------------------------
(* downloadAttachment: the row's path is used as it is; only a row without  *)
(* one goes to LoadAttachment.                                              *)
Request(r, a) ==
  /\ pc[r] = "idle" /\ a \in rows /\ downloads < MaxDownloads
  /\ To(r, IF a \in cachePath THEN "opening" ELSE "waiting")
  /\ wants' = [wants EXCEPT ![r] = a] /\ evicted' = evicted \ {r}
  /\ downloads' = downloads + 1
  /\ UNCHANGED <<store, files, cacheMu, fetched, evicting, cacheFaults, restores>>

(* LoadAttachment, with the mutex: somebody else may have cached it.        *)
Lock(r) ==
  LET a == wants[r] IN
  /\ pc[r] = "waiting" /\ cacheMu = Free
  /\ IF a \in cachePath /\ Exists(a)
     THEN To(r, "opening") /\ UNCHANGED cacheMu
     ELSE To(r, "fetching") /\ cacheMu' = r
  /\ UNCHANGED <<store, files, wants, fetched, evicting, evicted, cacheBounds>>

(* The location's UIDVALIDITY is compared with the selected mailbox's; the  *)
(* part is fetched from that mailbox.                                       *)
ValidityIgnored == TRUE              \* seeded fault: the two are not compared
ValidityIsSame == ~renumbered
FetchPart(r) ==
  LET a == wants[r] IN
  /\ pc[r] = "fetching" /\ fetched' = ~renumbered
  /\ \/ a \in rows /\ ValidityIsSame /\ To(r, "making_room") /\ UNCHANGED <<cacheMu, evicting>>
        /\ NoCacheFault
     \/ ~(a \in rows /\ ValidityIsSame) /\ Unavailable(r) /\ NoCacheFault
     \/ CacheFault /\ Unavailable(r)
  /\ UNCHANGED <<store, files, wants, evicted, downloads, restores>>

(* ensureCacheCapacity: everything in the directory counts but the target.  *)
FitsAlone(list, a) == Size(a) <= Quota   \* seeded fault: only the new file is looked at
Fits(list, a) == Total(Others(list, a)) + Size(a) <= Quota
MakeRoom(r) ==
  LET a == wants[r] IN
  /\ pc[r] = "making_room"
  /\ IF Size(a) > Quota THEN Unavailable(r)
     ELSE /\ To(r, IF Fits(files, a) THEN "writing" ELSE "evicting")
          /\ evicting' = (IF Fits(files, a) THEN <<>> ELSE Others(files, a)) /\ UNCHANGED cacheMu
  /\ UNCHANGED <<store, files, wants, fetched, evicted, cacheBounds>>

(* The oldest file: its row is cleared first ...                            *)
RowKept(f) == cachePath              \* seeded fault: the file goes, its row stays
RowCleared(f) == IF f.temp THEN cachePath ELSE cachePath \ {f.of}
ClearRow(r) ==
  /\ pc[r] = "evicting"
  /\ IF evicting = <<>> THEN Unavailable(r) /\ UNCHANGED cachePath /\ NoCacheFault
     ELSE \/ /\ cachePath' = RowCleared(Head(evicting)) /\ To(r, "removing")
             /\ UNCHANGED <<cacheMu, evicting>> /\ NoCacheFault
          \/ CacheFault /\ Unavailable(r) /\ UNCHANGED cachePath
  /\ UNCHANGED <<rows, renumbered, files, wants, fetched, evicted, downloads, restores>>

(* ... then it is removed; one that cannot be removed still counts.         *)
Overtake ==
  evicted' = evicted \cup {q \in Requests : pc[q] = "opening" /\ Named(files', wants[q]) = {}}
RemoveOldest(r) ==
  LET f == Head(evicting) IN
  /\ pc[r] = "removing" /\ evicting' = Tail(evicting)
  /\ \/ /\ files' = RemoveFirst(files, f) /\ NoCacheFault
        /\ To(r, IF Fits(files', wants[r]) THEN "writing" ELSE "evicting")
     \/ CacheFault /\ To(r, "evicting") /\ UNCHANGED files
  /\ Overtake
  /\ UNCHANGED <<store, cacheMu, wants, fetched, downloads, restores>>

(* writeCacheFile: the temporary file, removed again if it cannot be        *)
(* written ...                                                              *)
WriteTemp(r) ==
  /\ pc[r] = "writing"
  /\ \/ /\ files' = Append(files, CacheFile(wants[r], TRUE, fetched)) /\ NoCacheFault
        /\ To(r, "renaming") /\ UNCHANGED <<cacheMu, evicting>>
     \/ CacheFault /\ Unavailable(r) /\ UNCHANGED files
  /\ UNCHANGED <<store, wants, fetched, evicted, downloads, restores>>

(* ... and the rename over the target, which was removed first, if it could *)
(* be.                                                                      *)
Rename(r) ==
  LET a == wants[r]
      temp == Last(files) IN
  /\ pc[r] = "renaming"
  /\ \/ /\ files' = Append(Others(Front(files), a), CacheFile(temp.of, FALSE, temp.right))
        /\ To(r, "recording") /\ UNCHANGED <<cacheMu, evicting>> /\ NoCacheFault
     \/ CacheFault /\ Unavailable(r)
        /\ files' \in {Front(files), Others(Front(files), a)}
  /\ Overtake
  /\ UNCHANGED <<store, wants, fetched, downloads, restores>>

(* SetAttachmentCache; without a row, or if it fails, the file goes again.  *)
Record(r) ==
  LET a == wants[r] IN
  /\ pc[r] = "recording"
  /\ \/ /\ a \in rows /\ cachePath' = cachePath \cup {a} /\ To(r, "opening") /\ Unlock
        /\ UNCHANGED files /\ NoCacheFault
     \/ /\ CacheFault \/ (a \notin rows /\ NoCacheFault)
        /\ files' = Others(files, a) /\ Unavailable(r) /\ UNCHANGED cachePath
  /\ Overtake
  /\ UNCHANGED <<rows, renumbered, wants, fetched, downloads, restores>>

(* The handler opens the path it was given.                                 *)
OpenFile(r) ==
  /\ pc[r] = "opening" /\ To(r, IF Exists(wants[r]) THEN "served" ELSE "missing")
  /\ UNCHANGED <<store, files, cacheMu, wants, fetched, evicting, evicted, cacheBounds>>

Answered(r) ==
  /\ pc[r] \in {"served", "missing", "failed"} /\ To(r, "idle") /\ evicted' = evicted \ {r}
  /\ UNCHANGED <<store, files, cacheMu, wants, fetched, evicting, cacheBounds>>

-----------------------------------------------------------------------------
(* The mailbox is rebuilt; synchronisation drops a message and its rows.    *)
Renumber ==
  /\ ~renumbered /\ renumbered' = TRUE
  /\ UNCHANGED <<rows, cachePath, files, cacheMu, pc, wants, fetched, evicting, evicted,
                 cacheBounds>>
DropRow(a) ==
  /\ a \in rows /\ rows' = rows \ {a} /\ cachePath' = cachePath \ {a}
  /\ UNCHANGED <<renumbered, files, cacheMu, pc, wants, fetched, evicting, evicted, cacheBounds>>

(* The service stops: requests and the mutex are gone, a temporary file may *)
(* stay.  A restore brings the database back without the cache directory    *)
(* (docs/operations.md:63).                                                 *)
Stopped ==
  /\ pc' = [r \in Requests |-> "idle"] /\ cacheMu' = Free /\ evicting' = <<>> /\ evicted' = {}
StopCache ==
  /\ CacheFault /\ Stopped
  /\ UNCHANGED <<store, files, wants, fetched, downloads, restores>>
Restore ==
  /\ restores < MaxRestores /\ restores' = restores + 1 /\ Stopped /\ files' = <<>>
  /\ UNCHANGED <<store, wants, fetched, downloads, cacheFaults>>

Download(r) ==
  \/ Lock(r) \/ FetchPart(r) \/ MakeRoom(r) \/ ClearRow(r) \/ RemoveOldest(r) \/ WriteTemp(r)
  \/ Rename(r) \/ Record(r) \/ OpenFile(r) \/ Answered(r)

CacheNext ==
  \/ Renumber \/ StopCache
  \/ \E a \in Attachments : DropRow(a)
  \/ \E r \in Requests : Download(r) \/ \E a \in Attachments : Request(r, a)

CacheSpec == CacheInit /\ [][CacheNext]_cacheVars
CacheRestoreSpec == CacheInit /\ [][CacheNext \/ Restore]_cacheVars

-----------------------------------------------------------------------------
(* Types; the mutex's holder is the one request inside LoadAttachment.      *)
Inside == {"fetching", "making_room", "evicting", "removing", "writing", "renaming", "recording"}
CacheTypeOK ==
  /\ rows \subseteq Attachments /\ cachePath \subseteq rows /\ renumbered \in BOOLEAN
  /\ files \in Seq([of : Attachments, temp : BOOLEAN, right : BOOLEAN])
  /\ evicting \in Seq([of : Attachments, temp : BOOLEAN, right : BOOLEAN])
  /\ cacheMu \in Requests \cup {Free} /\ fetched \in BOOLEAN /\ evicted \subseteq Requests
  /\ wants \in [Requests -> Attachments]
  /\ pc \in [Requests -> Inside \cup {"idle", "waiting", "opening", "served", "missing", "failed"}]
  /\ \A r \in Requests : pc[r] \in Inside <=> cacheMu = r

(* A row never names a file that is not there: not between two steps, nor   *)
(* after a stop (attachments.go:75-95, 190-196).                            *)
RowsNameTheirFiles == \A a \in cachePath : Exists(a)

(* Once a new file is in place the directory is within its quota, whatever  *)
(* temporary and unrecorded files earlier stops and failures have left in   *)
(* it (attachments.go:156-203).                                             *)
CacheFits == \A r \in Requests : pc[r] = "recording" => Total(files) <= Quota

(* What is served is the attachment, also when its mailbox was rebuilt      *)
(* while the request waited (attachments.go:67-72).                         *)
ServedIsRight ==
  \A r \in Requests : pc[r] = "served" => \A i \in Named(files, wants[r]) : files[i].right

(* A download that finds no file had it removed after it was given the      *)
(* path; asking again then fetches it (mail_handlers.go:124-134).           *)
DownloadsFindTheirFile == \A r \in Requests : pc[r] = "missing" => r \in evicted

CacheIsSound == RowsNameTheirFiles /\ CacheFits /\ ServedIsRight /\ DownloadsFindTheirFile

(* CacheRestoreSpec violates the last one: the cache is no part of a backup *)
(* (docs/operations.md:63), so a restore without it should only cost a      *)
(* download, but the handler opens the row's path unchecked, and every      *)
(* further request finds the same row.                                      *)
=============================================================================
