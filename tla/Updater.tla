------------------------------- MODULE Updater -------------------------------
(***************************************************************************)
(* Self-update.  The running service queues a request file                  *)
(* (internal/updater/manager.go); systemd starts the privileged helper,     *)
(* which downloads the release, backs up the binary, replaces it, restarts  *)
(* the service, checks its readiness and writes the version marker, or      *)
(* rolls all of it back (internal/updater/apply.go).                        *)
(*                                                                          *)
(* One step is one file written or one systemctl call.  The helper may be   *)
(* killed between any two of them, with or without the whole machine; as    *)
(* the request is removed last, systemd then starts it again.               *)
(***************************************************************************)
EXTENDS Integers, FiniteSets

CONSTANTS
  MaxVersion,      \* bound: releases are numbered 1..MaxVersion, the oldest is installed
  Bad,             \* releases that never become ready
  Admins,          \* concurrent callers of Install
  MaxFaults,       \* bound: steps that return an error
  MaxKills         \* bound: helpers killed, machine and service restarts

Versions == 1..MaxVersion

ASSUME UpdaterAssumption ==
  /\ MaxVersion \in Nat \ {0} /\ Bad \subseteq Versions \ {1}
  /\ {MaxFaults, MaxKills} \subseteq Nat

VARIABLES
  latest,          \* the latest stable release on GitHub
  service,         \* mailmanager.service: running or not, and the version it was started from
  call,            \* per administrator: the release an Install has fetched, 0 if none
  request,         \* inbox/request.json
  status,          \* status.json
  marker,          \* installed-version
  binary,          \* the version of bin/mailmanager
  backups,         \* per version: what mailmanager-<version>.bak holds, 0 if absent
  helper,          \* the update-apply process
  proven,          \* history: versions that have answered the readiness check
  halfUndone,      \* history: a rollback restored the binary under a marked
                   \* version that was still running
  faults, kills    \* so far (bounded)

onDisk == <<request, status, marker, binary, backups>>
updateBounds == <<faults, kills>>
updateVars == <<latest, service, call, onDisk, helper, proven, halfUndone, updateBounds>>

NoRequest == [version |-> 0, current |-> 0]
IdleHelper == [pc |-> "idle", target |-> 0, current |-> 0, file |-> 0, undone |-> TRUE]
NoCalls == [a \in Admins |-> 0]

UpdateInit ==
  /\ latest = 1 /\ service = [up |-> TRUE, version |-> 1] /\ call = NoCalls
  /\ request = NoRequest /\ status = [state |-> "idle", target |-> 0, rollback |-> FALSE]
  /\ marker = 1 /\ binary = 1 /\ backups = [v \in Versions |-> 0]
  /\ helper = IdleHelper /\ proven = {1} /\ halfUndone = FALSE
  /\ faults = 0 /\ kills = 0

PublishRelease ==
  /\ latest < MaxVersion /\ latest' = latest + 1
  /\ UNCHANGED <<service, call, onDisk, helper, proven, halfUndone, updateBounds>>

-----------------------------------------------------------------------------
(* The service process.                                                     *)
Serving == service.up /\ service.version \notin Bad
Started == [up |-> TRUE, version |-> IF service.up THEN service.version ELSE binary]
ServiceStopped == [service EXCEPT !.up = FALSE]

(* Install asks GitHub before it takes the lock ...                         *)
FetchRelease(a) ==
  /\ Serving /\ call[a] = 0 /\ latest > service.version
  /\ call' = [call EXCEPT ![a] = latest]
  /\ UNCHANGED <<latest, halfUndone, service, onDisk, helper, proven, updateBounds>>

(* ... then, under m.mu, checks the marker, the version and that no request *)
(* is pending, and queues its own.                                          *)
ConflictIgnored == TRUE              \* seeded fault: a pending request is not looked for
NoConflict == request = NoRequest
InstallSupported == marker = service.version
Install(a) ==
  /\ Serving /\ call[a] # 0
  /\ request' = IF InstallSupported /\ call[a] > service.version /\ NoConflict
                THEN [version |-> call[a], current |-> service.version] ELSE request
  /\ call' = [call EXCEPT ![a] = 0]
  /\ UNCHANGED <<latest, halfUndone, service, status, marker, binary, backups, helper, proven, updateBounds>>

(* What the status page shows: an active state without a request was an     *)
(* interrupted helper, a request without one has yet to be picked up.       *)
Active(state) == state \in {"downloading", "installing", "restarting"}
Shown ==
  CASE Active(status.state) /\ request = NoRequest -> "failed"
    [] ~Active(status.state) /\ request # NoRequest -> "queued"
    [] OTHER -> status.state

-----------------------------------------------------------------------------
(* The helper.                                                              *)
HelperAt(pc) == helper.pc = pc
HelperGoes(pc) == helper' = [helper EXCEPT !.pc = pc]
Set(state, rollback) ==
  status' = [state |-> state, target |-> helper.target, rollback |-> rollback]
Fault == faults < MaxFaults /\ faults' = faults + 1

(* failApply: the outcome is written, if the write succeeds; its caller     *)
(* returns and removes the request.                                         *)
FailKeepsRequest == HelperGoes("idle")     \* seeded fault: the request is removed on success only
FailApply == HelperGoes("finish")
Failed(rollback) == FailApply /\ (Set("failed", rollback) \/ UNCHANGED status)

(* mailmanager-updater.path: the request exists.  A second helper finds the *)
(* process lock taken and returns without touching the request.             *)
StartHelper ==
  /\ request # NoRequest /\ HelperAt("idle") /\ HelperGoes("read")
  /\ UNCHANGED <<latest, halfUndone, service, call, onDisk, proven, updateBounds>>

(* Apply 84-112: the request must name the marked version and a newer one;  *)
(* it stays where it is until the run has ended.                            *)
MarkerIgnored == TRUE                \* seeded fault: the request is taken at its word
Acceptable == marker = request.current /\ marker < request.version
RequestTaken == NoRequest            \* seeded fault: removed once it is read
RequestRead == request
ReadRequest ==
  /\ HelperAt("read")
  /\ LET h == [helper EXCEPT !.target = request.version, !.current = marker]
         Says(state) == status' = [state |-> state, target |-> request.version, rollback |-> FALSE]
     IN \/ Acceptable /\ helper' = [h EXCEPT !.pc = "download"] /\ Says("downloading")
        \/ ~Acceptable /\ helper' = [h EXCEPT !.pc = "finish"] /\ Says("failed")
        \/ helper' = [h EXCEPT !.pc = "finish"] /\ UNCHANGED status    \* it cannot be written
  /\ request' = RequestRead
  /\ UNCHANGED <<latest, halfUndone, service, call, marker, binary, backups, proven, updateBounds>>

(* Apply 114-146: recheck that the release is the latest and download it.   *)
(* What arrives may be damaged (0), or built from another version.          *)
DownloadRelease ==
  /\ HelperAt("download")
  /\ \/ /\ latest = helper.target /\ UNCHANGED <<status, faults>>
        /\ helper' = [helper EXCEPT !.pc = "verify", !.file = helper.target]
     \/ /\ latest = helper.target /\ Fault /\ UNCHANGED status
        /\ \E file \in {0, helper.current} :
             helper' = [helper EXCEPT !.pc = "verify", !.file = file]
     \/ latest # helper.target /\ Failed(FALSE) /\ UNCHANGED faults
     \/ Fault /\ Failed(FALSE)
  /\ UNCHANGED <<latest, halfUndone, service, call, request, marker, binary, backups, proven, kills>>

(* Apply 147-159: the digest of checksums.txt, then the build information.  *)
ChecksumMatches == helper.file # 0
BuildInfoIgnored == TRUE             \* seeded fault: a sound file is good enough
BuildInfoMatches == helper.file = helper.target
VerifyCandidate ==
  /\ HelperAt("verify")
  /\ IF ChecksumMatches /\ BuildInfoMatches THEN HelperGoes("prune") /\ UNCHANGED status
                                           ELSE Failed(FALSE)
  /\ UNCHANGED <<latest, halfUndone, service, call, request, marker, binary, backups, proven, updateBounds>>

(* Apply 161-168: other backups go; a backup an interrupted run has left    *)
(* stays as it is, as the binary may no longer be the marked version; then  *)
(* the status is written.                                                   *)
PrunedBackups(keep) == [v \in Versions |-> IF v = keep THEN backups[v] ELSE 0]
PruneBackups ==
  /\ HelperAt("prune") /\ backups' = PrunedBackups(helper.current) /\ HelperGoes("backup")
  /\ UNCHANGED <<latest, halfUndone, service, call, request, status, marker, binary, proven, updateBounds>>

CopyAlways(keep) == [backups EXCEPT ![keep] = binary]     \* seeded fault: overwrite it
CopyIfAbsent(keep) == [backups EXCEPT ![keep] = IF @ = 0 THEN binary ELSE @]
Backup ==
  /\ HelperAt("backup")
  /\ \/ backups' = CopyIfAbsent(helper.current) /\ HelperGoes("installing") /\ UNCHANGED <<status, faults>>
     \/ Fault /\ Failed(FALSE) /\ UNCHANGED backups
  /\ UNCHANGED <<latest, halfUndone, service, call, request, marker, binary, proven, kills>>

SayInstalling ==
  /\ HelperAt("installing")
  /\ \/ Set("installing", FALSE) /\ HelperGoes("stop") /\ UNCHANGED faults
     \/ Fault /\ HelperGoes("finish") /\ UNCHANGED status
  /\ UNCHANGED <<latest, halfUndone, service, call, request, marker, binary, backups, proven, kills>>

(* Apply 169-180.  A stop that reports an error may have stopped the        *)
(* service; after it, and after a binary that could not be replaced, the    *)
(* service is started again, if that works.                                 *)
StopService ==
  /\ HelperAt("stop")
  /\ \/ service' = ServiceStopped /\ call' = NoCalls /\ HelperGoes("replace") /\ UNCHANGED faults
     \/ /\ Fault /\ HelperGoes("start_again")
        /\ (service' = ServiceStopped /\ call' = NoCalls) \/ UNCHANGED <<service, call>>
  /\ UNCHANGED <<latest, halfUndone, onDisk, proven, kills>>

ReplaceBinary ==
  /\ HelperAt("replace")
  /\ \/ binary' = helper.file /\ HelperGoes("restarting") /\ UNCHANGED faults
     \/ Fault /\ HelperGoes("start_again") /\ UNCHANGED binary
  /\ UNCHANGED <<latest, halfUndone, service, call, request, status, marker, backups, proven, kills>>

StartAgain ==
  /\ HelperAt("start_again") /\ Failed(FALSE)
  /\ \/ service' = Started /\ UNCHANGED faults
     \/ Fault /\ service' \in {service, Started}
  /\ UNCHANGED <<latest, halfUndone, call, request, marker, binary, backups, proven, kills>>

(* Apply 181-183: from here on a failure is rolled back.                    *)
SayRestarting ==
  /\ HelperAt("restarting")
  /\ \/ Set("restarting", FALSE) /\ HelperGoes("start") /\ UNCHANGED faults
     \/ Fault /\ HelperGoes("undo_stop") /\ UNCHANGED status
  /\ UNCHANGED <<latest, halfUndone, service, call, request, marker, binary, backups, proven, kills>>

(* Apply 184-186.                                                           *)
StartService ==
  /\ HelperAt("start")
  /\ \/ service' = Started /\ HelperGoes("health") /\ UNCHANGED faults
     \/ Fault /\ service' \in {Started, ServiceStopped} /\ HelperGoes("undo_stop")
  /\ UNCHANGED <<latest, halfUndone, call, onDisk, proven, kills>>

(* Apply 187-189: readiness, or a minute without it.                        *)
AfterHealthUnchecked == {"mark"}     \* seeded fault: the result is not looked at
AfterHealth == IF Serving THEN {"mark"} ELSE {"undo_stop"}
CheckHealth ==
  /\ HelperAt("health")
  /\ proven' = IF Serving THEN proven \cup {service.version} ELSE proven
  /\ \/ \E pc \in AfterHealth : HelperGoes(pc) /\ UNCHANGED faults
     \/ Fault /\ HelperGoes("undo_stop")
  /\ UNCHANGED <<latest, halfUndone, service, call, onDisk, kills>>

(* Apply 190-192.                                                           *)
WriteMarker ==
  /\ HelperAt("mark")
  /\ \/ marker' = helper.target /\ HelperGoes("succeed") /\ UNCHANGED faults
     \/ Fault /\ HelperGoes("undo_stop") /\ UNCHANGED marker
  /\ UNCHANGED <<latest, halfUndone, service, call, request, status, binary, backups, proven, kills>>

(* Apply 193-196.                                                           *)
Succeed ==
  /\ HelperAt("succeed")
  /\ \/ Set("succeeded", FALSE) /\ HelperGoes("clean") /\ UNCHANGED faults
     \/ Fault /\ HelperGoes("undo_stop") /\ UNCHANGED status
  /\ UNCHANGED <<latest, halfUndone, service, call, request, marker, binary, backups, proven, kills>>

RemoveBackup ==
  /\ HelperAt("clean") /\ backups' = [backups EXCEPT ![helper.current] = 0] /\ HelperGoes("finish")
  /\ UNCHANGED <<latest, halfUndone, service, call, request, status, marker, binary, proven, updateBounds>>

-----------------------------------------------------------------------------
(* rollbackApply: every step is tried, whatever became of the one before.   *)
UndoStop ==
  /\ HelperAt("undo_stop") /\ HelperGoes("undo_binary")
  /\ \/ service' = ServiceStopped /\ call' = NoCalls /\ UNCHANGED faults
     \/ Fault /\ UNCHANGED <<service, call>>
  /\ UNCHANGED <<latest, halfUndone, onDisk, proven, kills>>

UndoBinary ==
  /\ HelperAt("undo_binary")
  /\ \/ /\ backups[helper.current] # 0 /\ binary' = backups[helper.current]
        /\ halfUndone' = (halfUndone \/ (service.up /\ marker # helper.current))
        /\ HelperGoes("undo_marker") /\ UNCHANGED faults
     \/ /\ Fault \/ (backups[helper.current] = 0 /\ UNCHANGED faults)
        /\ UNCHANGED <<binary, halfUndone>>
        /\ helper' = [helper EXCEPT !.pc = "undo_start", !.undone = FALSE]
  /\ UNCHANGED <<latest, service, call, request, status, marker, backups, proven, kills>>

UndoMarker ==
  /\ HelperAt("undo_marker")
  /\ \/ marker' = helper.current /\ HelperGoes("undo_start") /\ UNCHANGED faults
     \/ /\ Fault /\ UNCHANGED marker
        /\ helper' = [helper EXCEPT !.pc = "undo_start", !.undone = FALSE]
  /\ UNCHANGED <<latest, halfUndone, service, call, request, status, binary, backups, proven, kills>>

UndoStart ==
  /\ HelperAt("undo_start")
  /\ \/ service' = Started /\ HelperGoes("undo_health") /\ UNCHANGED faults
     \/ /\ Fault /\ service' \in {service, Started}
        /\ helper' = [helper EXCEPT !.pc = "undo_end", !.undone = FALSE]
  /\ UNCHANGED <<latest, halfUndone, call, onDisk, proven, kills>>

(* rollbackComplete, and the outcome.                                       *)
UndoneAlways(ready) == TRUE          \* seeded fault: the errors are only joined
Undone(ready) == helper.undone /\ ready
UndoHealth ==
  /\ HelperAt("undo_health")
  /\ proven' = IF Serving THEN proven \cup {service.version} ELSE proven
  /\ \/ Failed(Undone(Serving)) /\ UNCHANGED faults
     \/ Fault /\ Failed(Undone(FALSE))
  /\ UNCHANGED <<latest, halfUndone, service, call, request, marker, binary, backups, kills>>

(* A service that could not be started is not waited for.                   *)
UndoEnds ==
  /\ HelperAt("undo_end") /\ Failed(FALSE)
  /\ UNCHANGED <<latest, halfUndone, service, call, request, marker, binary, backups, proven, updateBounds>>

(* The deferred calls of Apply: the request goes, then the process lock.    *)
RemoveRequest ==
  /\ HelperAt("finish") /\ request' = NoRequest /\ helper' = IdleHelper
  /\ UNCHANGED <<latest, halfUndone, service, call, status, marker, binary, backups, proven, updateBounds>>

-----------------------------------------------------------------------------
(* The helper is killed; the machine restarts; the service crashes and      *)
(* systemd starts it again (Restart=on-failure).                            *)
Kill ==
  /\ ~HelperAt("idle") /\ kills < MaxKills /\ kills' = kills + 1 /\ helper' = IdleHelper
  /\ UNCHANGED <<latest, halfUndone, service, call, onDisk, proven, faults>>
Reboot ==
  /\ kills < MaxKills /\ kills' = kills + 1 /\ helper' = IdleHelper
  /\ service' = [up |-> TRUE, version |-> binary] /\ call' = NoCalls
  /\ UNCHANGED <<latest, halfUndone, onDisk, proven, faults>>
ServiceCrash ==
  /\ service.up /\ kills < MaxKills /\ kills' = kills + 1
  /\ service' = [up |-> TRUE, version |-> binary] /\ call' = NoCalls
  /\ UNCHANGED <<latest, halfUndone, onDisk, helper, proven, faults>>

Apply ==
  \/ ReadRequest \/ DownloadRelease \/ VerifyCandidate
  \/ PruneBackups \/ Backup \/ SayInstalling
  \/ StopService \/ ReplaceBinary \/ StartAgain \/ SayRestarting \/ StartService
  \/ CheckHealth \/ WriteMarker \/ Succeed \/ RemoveBackup
  \/ UndoStop \/ UndoBinary \/ UndoMarker \/ UndoStart \/ UndoHealth \/ UndoEnds \/ RemoveRequest

UpdateNext ==
  \/ PublishRelease \/ StartHelper \/ Apply \/ Kill \/ Reboot \/ ServiceCrash
  \/ \E a \in Admins : FetchRelease(a) \/ Install(a)

UpdateSpec == UpdateInit /\ [][UpdateNext]_updateVars

(* systemd starts the helper while the request exists, and every step of    *)
(* the helper ends: the downloads, systemctl and the health check have      *)
(* deadlines.                                                               *)
UpdateFairSpec == UpdateSpec /\ WF_updateVars(StartHelper) /\ WF_updateVars(Apply)

-----------------------------------------------------------------------------
(* Types; a helper at work moves to a newer version than the marked one.    *)
UpdateTypeOK ==
  /\ latest \in Versions /\ service \in [up : BOOLEAN, version : Versions]
  /\ call \in [Admins -> 0..MaxVersion]
  /\ request \in [version : 0..MaxVersion, current : 0..MaxVersion]
  /\ status \in [state : {"idle", "downloading", "installing", "restarting", "succeeded", "failed"},
                 target : 0..MaxVersion, rollback : BOOLEAN]
  /\ marker \in Versions /\ binary \in Versions /\ backups \in [Versions -> 0..MaxVersion]
  /\ helper \in [pc : {"idle", "read", "download", "verify", "prune", "backup", "installing", "stop",
                       "replace", "start_again", "restarting", "start", "health", "mark", "succeed",
                       "clean", "finish", "undo_stop", "undo_binary", "undo_marker", "undo_start",
                       "undo_health", "undo_end"},
                 target : 0..MaxVersion, current : 0..MaxVersion, file : 0..MaxVersion,
                 undone : BOOLEAN]
  /\ helper.pc \notin {"idle", "read", "finish"} => helper.current < helper.target
  /\ proven \subseteq Versions /\ halfUndone \in BOOLEAN
  /\ faults \in 0..MaxFaults /\ kills \in 0..MaxKills

(* A backup holds the version it is named after, also when the helper was   *)
(* killed after it replaced the binary and starts over: what a rollback     *)
(* restores is the version the marker names (apply.go:161-165, 290).  The   *)
(* exception: the marker was written, the rollback could not stop the       *)
(* service, and was itself cut short before it restored the marker.  The    *)
(* running version then matches the marker, and the next update saves the   *)
(* older binary under its name.                                             *)
BackupIsItsVersion == ~halfUndone => \A v \in Versions : backups[v] \in {0, v}

(* The marker only ever names a version that has answered the readiness     *)
(* check, whatever was killed or failed in between (apply.go:187-192).      *)
MarkedVersionWasReady == marker \in proven

(* There is always a version to go back to that has worked.                 *)
RollbackIsPossible == BackupIsItsVersion /\ MarkedVersionWasReady

(* What the status page says is so: after 'succeeded' the marker and the    *)
(* binary are the target, after a performed rollback they are the older     *)
(* version, and a service runs (apply.go:193, 300); same exception.         *)
OutcomeIsTrue ==
  /\ (status.state = "succeeded") =>
       marker = status.target /\ binary = status.target /\ service.version = status.target
  /\ status.rollback /\ ~halfUndone =>
       marker = binary /\ marker < status.target /\ service.up

(* Two administrators, or one who asks again while the helper works or was  *)
(* killed, do not replace the request it works from (manager.go:149).       *)
RequestIsNotReplaced ==
  [][request # NoRequest => request' \in {request, NoRequest}]_updateVars

(* While the helper works on an update nothing says it has failed or is     *)
(* done with: only the last steps of a run do, and an interruption shows as *)
(* the update still being under way until it is taken up again              *)
(* (manager.go:186-195, apply.go:84).                                       *)
ProgressIsShown ==
  helper.pc \in {"stop", "replace", "start_again", "restarting", "start", "health", "undo_stop"} =>
    Active(Shown) /\ status.target = request.version

(* The status page: right about an outcome and right about the progress.    *)
StatusIsTrue == OutcomeIsTrue /\ ProgressIsShown

(* Every request is decided, also when its helper is killed: it goes when,  *)
(* and only when, there is an outcome (apply.go:84, the path unit).         *)
RequestIsDecided == request # NoRequest ~> request = NoRequest

(* A request stays as it is until it is decided, and is decided.            *)
RequestsAreHonoured == RequestIsNotReplaced /\ RequestIsDecided

(* README.md:140: a version that does not come up is replaced by the one    *)
(* before.  Stated for the moment nothing is left to do.                    *)
BadVersionIsUndone == HelperAt("idle") /\ request = NoRequest => binary \notin Bad
=============================================================================
