--------------------------- MODULE Updater_proofs ---------------------------
(***************************************************************************)
(* There is always a version to go back to: for any number of releases, bad *)
(* ones among them, administrators, failing steps, killed helpers and       *)
(* restarts.                                                                *)
(***************************************************************************)
EXTENDS Updater, TLAPS

From == helper.current
Target == helper.target
Working == helper.pc \notin {"idle", "read", "finish"}

(* The request a helper works from is the one that is there.                *)
RequestIsHeld == Working => request # NoRequest /\ request.current = From

(* Where a helper is tells what it has done: the file it has checked is the *)
(* target, the marker is written after the version has been ready, and the  *)
(* service, while it runs, runs what was installed.                         *)
Stages ==
  /\ marker \in proven /\ (Working => From \in proven)
  /\ helper.pc \in {"prune", "backup", "installing", "stop", "replace", "restarting", "start",
                    "health", "mark", "succeed", "clean"} => helper.file = Target
  /\ helper.pc \in {"download", "verify", "prune", "backup", "installing", "stop", "replace",
                    "restarting", "start", "health", "mark"} => marker = From
  /\ helper.pc \in {"replace", "restarting", "start"} => ~service.up
  /\ helper.pc \in {"restarting", "start", "health", "mark", "succeed", "clean", "undo_stop", "undo_binary"} =>
       binary = Target
  /\ helper.pc \in {"health", "mark", "succeed", "clean", "undo_stop", "undo_binary"} =>
       (service.up => service.version = Target)
  /\ helper.pc \in {"mark", "succeed", "clean"} => Target \in proven
  /\ helper.pc \in {"succeed", "clean"} => marker = Target
  /\ helper.pc \in {"undo_stop", "undo_binary", "undo_marker"} => marker \in {From, Target}

(* The marked version is installed or saved.  The third case is a rollback  *)
(* cut short between binary and marker: nobody then runs the marked version *)
(* nor has asked for an update from it, so no backup is made under its name.*)
Restorable == binary = marker \/ backups[marker] = marker
MarkedIsSafe ==
  \/ Restorable
  \/ request.current # marker /\ (service.up => service.version # marker)

(* What a helper may rely on when it makes a backup or restores one.        *)
Saved ==
  /\ \A v \in Versions : backups[v] \in {0, v}
  /\ MarkedIsSafe
  /\ helper.pc \in {"download", "verify", "prune", "backup"} => Restorable
  /\ helper.pc \in {"installing", "stop", "replace", "restarting", "start", "health", "mark",
                    "succeed", "undo_stop", "undo_binary", "undo_marker"} => backups[From] = From
  /\ helper.pc = "undo_marker" => binary = From

(* The sets of UpdateTypeOK by name, to be left unexpanded.                 *)
PCs ==
  {"idle", "read", "download", "verify", "prune", "backup", "installing", "stop", "replace",
   "start_again", "restarting", "start", "health", "mark", "succeed", "clean", "finish", "undo_stop",
   "undo_binary", "undo_marker", "undo_start", "undo_health", "undo_end"}
HelperStates ==
  [pc : PCs, target : 0..MaxVersion, current : 0..MaxVersion, file : 0..MaxVersion,
   undone : BOOLEAN]
ServiceStates == [up : BOOLEAN, version : Versions]
Calls == [Admins -> 0..MaxVersion]
RequestStates == [version : 0..MaxVersion, current : 0..MaxVersion]
StatusNames == {"idle", "downloading", "installing", "restarting", "succeeded", "failed"}
StatusStates == [state : StatusNames, target : 0..MaxVersion, rollback : BOOLEAN]
Backups == [Versions -> 0..MaxVersion]
Faults == 0..MaxFaults
Kills == 0..MaxKills

UpdateTyped ==
  /\ latest \in Versions /\ service \in ServiceStates /\ call \in Calls /\ request \in RequestStates
  /\ status \in StatusStates /\ marker \in Versions /\ binary \in Versions /\ backups \in Backups
  /\ helper \in HelperStates /\ proven \subseteq Versions /\ halfUndone \in BOOLEAN
  /\ faults \in Faults /\ kills \in Kills
Newer == Working => From < Target

UpdateInv == UpdateTyped /\ Newer /\ RequestIsHeld /\ Stages /\ (~halfUndone => Saved)

LEMMA TypedIsTypeOK == UpdateTyped /\ Newer => UpdateTypeOK
BY DEF UpdateTyped, Newer, Working, UpdateTypeOK, HelperStates, PCs, ServiceStates, Calls, RequestStates,
   StatusNames, StatusStates, Backups, Faults, Kills, From, Target

LEMMA VersionsAreNumbers == MaxVersion \in Nat \ {0} /\ Versions = 1..MaxVersion
BY UpdaterAssumption DEF Versions

LEMMA UpdateStarts == UpdateInit => UpdateInv
<1> SUFFICES ASSUME UpdateInit PROVE UpdateInv
  OBVIOUS
<1> USE VersionsAreNumbers, UpdaterAssumption
<1>1. helper = IdleHelper /\ helper.pc = "idle" /\ helper \in HelperStates
  BY DEF UpdateInit, IdleHelper, HelperStates, PCs
<1>2. service \in ServiceStates /\ call \in Calls /\ request \in RequestStates /\ status \in StatusStates
      /\ backups \in Backups /\ faults \in Faults /\ kills \in Kills
  BY DEF UpdateInit, NoCalls, NoRequest, ServiceStates, Calls, RequestStates, StatusStates, StatusNames,
     Backups, Faults, Kills
<1>3. latest \in Versions /\ marker = 1 /\ binary = 1 /\ 1 \in Versions /\ proven = {1}
      /\ halfUndone = FALSE /\ \A v \in Versions : backups[v] = 0
  BY DEF UpdateInit
<1> QED
  BY <1>1, <1>2, <1>3 DEF UpdateInv, UpdateTyped, Newer, RequestIsHeld, Stages, Saved, MarkedIsSafe,
     Restorable, Working

-----------------------------------------------------------------------------
(* What the steps are built from, as facts about fields.                    *)

(* The helper goes on and keeps what it knows.                              *)
LEMMA HelperMoves ==
  ASSUME NEW pc \in PCs, helper \in HelperStates, HelperGoes(pc)
  PROVE  /\ helper' \in HelperStates /\ helper'.pc = pc /\ helper'.file = helper.file
         /\ From' = From /\ Target' = Target
<1>1. helper' = [target |-> helper.target, current |-> helper.current, file |-> helper.file,
                 undone |-> helper.undone, pc |-> pc]
  BY DEF HelperGoes, HelperStates
<1> QED
  BY <1>1 DEF HelperStates, From, Target

(* It goes on with a step of the rollback that has failed.                  *)
LEMMA HelperGivesUp ==
  ASSUME NEW pc \in PCs, helper \in HelperStates,
         helper' = [helper EXCEPT !.pc = pc, !.undone = FALSE]
  PROVE  /\ helper' \in HelperStates /\ helper'.pc = pc /\ From' = From /\ Target' = Target
BY DEF HelperStates, From, Target

LEMMA HelperStops ==
  ASSUME helper' = IdleHelper
  PROVE  helper' \in HelperStates /\ helper'.pc = "idle" /\ ~Working'
BY VersionsAreNumbers DEF IdleHelper, HelperStates, PCs, Working

LEMMA SetTyped ==
  ASSUME NEW state \in StatusNames, NEW rollback \in BOOLEAN, helper \in HelperStates,
         Set(state, rollback)
  PROVE  status' \in StatusStates
BY DEF Set, HelperStates, StatusStates

(* A run that has failed only has the request left to remove.               *)
LEMMA FailedTyped ==
  ASSUME NEW rollback \in BOOLEAN, helper \in HelperStates, status \in StatusStates, Failed(rollback)
  PROVE  /\ helper' \in HelperStates /\ helper'.pc = "finish" /\ ~Working' /\ From' = From /\ Target' = Target
         /\ status' \in StatusStates
<1>1. HelperGoes("finish") /\ (Set("failed", rollback) \/ UNCHANGED status)
  BY DEF Failed, FailApply
<1>2. /\ helper' \in HelperStates /\ helper'.pc = "finish" /\ From' = From /\ Target' = Target
  BY <1>1, HelperMoves DEF PCs
<1>3. status' \in StatusStates
  BY <1>1, SetTyped DEF StatusNames
<1> QED
  BY <1>2, <1>3 DEF Working

LEMMA FaultTyped ==
  ASSUME faults \in Faults, Fault \/ UNCHANGED faults PROVE faults' \in Faults
BY UpdaterAssumption DEF Faults, Fault

(* A service that is stopped runs nothing; one that is started runs what it *)
(* ran already, or what is installed.                                       *)
LEMMA ServiceMoves ==
  ASSUME service \in ServiceStates, binary \in Versions
  PROVE  /\ ServiceStopped \in ServiceStates /\ ~ServiceStopped.up
         /\ Started \in ServiceStates /\ Started.up
         /\ Started.version = IF service.up THEN service.version ELSE binary
         /\ [up |-> TRUE, version |-> binary] \in ServiceStates
         /\ [up |-> TRUE, version |-> binary].version = binary
BY DEF ServiceStopped, Started, ServiceStates

LEMMA NoCallsTyped == NoCalls \in Calls
BY VersionsAreNumbers DEF NoCalls, Calls

(* The marked version stays safe while the files stay as they are and the   *)
(* service at most runs what is installed.                                  *)
LEMMA MarkedStaysSafe ==
  ASSUME MarkedIsSafe, UNCHANGED <<marker, binary, backups>>, request'.current # marker
           \/ request'.current = request.current,
         service'.up => \/ service'.version = binary
                        \/ service.up /\ service'.version = service.version
  PROVE  MarkedIsSafe'
BY DEF MarkedIsSafe, Restorable

-----------------------------------------------------------------------------
(* The world outside the helper: releases, administrators, crashes.         *)
LEMMA OutsideKeeps ==
  ASSUME UpdateInv,
         \/ PublishRelease \/ StartHelper \/ Kill \/ Reboot \/ ServiceCrash
         \/ \E a \in Admins : FetchRelease(a) \/ Install(a)
  PROVE  UpdateInv'
<1>0. UpdateTyped
  BY DEF UpdateInv
<1>1. CASE PublishRelease
  <2>1. latest' \in Versions
    BY <1>1, VersionsAreNumbers DEF PublishRelease, UpdateInv, UpdateTyped
  <2> QED
    BY <1>1, <2>1 DEF PublishRelease, onDisk, updateBounds, UpdateInv, UpdateTyped, Newer, RequestIsHeld,
       Stages, Saved, MarkedIsSafe, Restorable, Working, From, Target
<1>2. CASE StartHelper
  <2>1. helper' \in HelperStates /\ helper.pc = "idle" /\ helper'.pc = "read"
    BY <1>0, <1>2, HelperMoves DEF StartHelper, HelperAt, UpdateTyped, PCs
  <2> QED
    BY <1>2, <2>1 DEF StartHelper, onDisk, updateBounds, UpdateInv, UpdateTyped, Newer, RequestIsHeld,
       Stages, Saved, MarkedIsSafe, Restorable, Working
<1>3. CASE Kill
  <2>1. helper' \in HelperStates /\ helper'.pc = "idle" /\ kills' \in Kills
    BY <1>0, <1>3, HelperStops, UpdaterAssumption DEF Kill, UpdateTyped, Kills
  <2> QED
    BY <1>3, <2>1 DEF Kill, onDisk, UpdateInv, UpdateTyped, Newer, RequestIsHeld, Stages, Saved,
       MarkedIsSafe, Restorable, Working
<1>4. CASE Reboot
  <2>1. helper' \in HelperStates /\ helper'.pc = "idle" /\ kills' \in Kills
    BY <1>0, <1>4, HelperStops, UpdaterAssumption DEF Reboot, UpdateTyped, Kills
  <2>2. service' \in ServiceStates /\ service'.version = binary /\ call' \in Calls
    BY <1>0, <1>4, ServiceMoves, NoCallsTyped DEF Reboot, UpdateTyped
  <2>3. UpdateTyped' /\ Newer' /\ RequestIsHeld' /\ Stages'
    BY <1>4, <2>1, <2>2 DEF Reboot, onDisk, UpdateInv, UpdateTyped, Newer, RequestIsHeld, Stages, Working
  <2>4. ~halfUndone' => Saved'
    BY <1>4, <2>1, <2>2, MarkedStaysSafe DEF Reboot, onDisk, UpdateInv, Saved
  <2> QED
    BY <2>3, <2>4 DEF UpdateInv
<1>5. CASE ServiceCrash
  <2>1. service' \in ServiceStates /\ service'.version = binary /\ call' \in Calls /\ kills' \in Kills
    BY <1>0, <1>5, ServiceMoves, NoCallsTyped, UpdaterAssumption DEF ServiceCrash, UpdateTyped, Kills
  <2>2. /\ service.up
        /\ UNCHANGED <<latest, halfUndone, request, status, marker, binary, backups, helper, proven,
                       faults>>
    BY <1>5 DEF ServiceCrash, onDisk
  <2>3. UpdateTyped' /\ Newer' /\ RequestIsHeld'
    BY <2>1, <2>2 DEF UpdateInv, UpdateTyped, Newer, RequestIsHeld, Working, From, Target
  <2>4. Stages'
    BY <2>1, <2>2 DEF UpdateInv, Stages, Working, From, Target
  <2>5. ~halfUndone' => Saved'
    BY <2>1, <2>2, MarkedStaysSafe DEF UpdateInv, Saved, Restorable, From
  <2> QED
    BY <2>3, <2>4, <2>5 DEF UpdateInv
<1>6. ASSUME NEW a \in Admins, FetchRelease(a) PROVE UpdateInv'
  <2>1. call' \in Calls
    BY <1>0, <1>6, VersionsAreNumbers DEF FetchRelease, UpdateTyped, Calls
  <2> QED
    BY <1>6, <2>1 DEF FetchRelease, onDisk, updateBounds, UpdateInv, UpdateTyped, Newer, RequestIsHeld,
       Stages, Saved, MarkedIsSafe, Restorable, Working, From, Target
<1>7. ASSUME NEW a \in Admins, Install(a) PROVE UpdateInv'
  <2>1. call' \in Calls
    BY <1>0, <1>7, VersionsAreNumbers DEF Install, UpdateTyped, Calls
  <2>2. UNCHANGED <<latest, halfUndone, service, status, marker, binary, backups, helper, proven,
                    faults, kills>>
    BY <1>7 DEF Install, updateBounds
  <2>3. \/ request' = request
        \/ /\ request = NoRequest /\ service.up /\ service.version = marker
           /\ request' = [version |-> call[a], current |-> service.version]
    BY <1>7 DEF Install, InstallSupported, NoConflict, Serving
  <2>4. request' \in RequestStates
    BY <1>0, <2>3, VersionsAreNumbers DEF UpdateTyped, RequestStates, Calls, ServiceStates
  <2>5. UpdateTyped' /\ Newer' /\ Stages'
    BY <2>1, <2>2, <2>4 DEF UpdateInv, UpdateTyped, Newer, Stages, Working, From, Target
  <2>6. RequestIsHeld'
    BY <2>2, <2>3 DEF UpdateInv, RequestIsHeld, Working, From
  <2>7. ~halfUndone' => Saved'
    BY <2>2, <2>3 DEF UpdateInv, Saved, MarkedIsSafe, Restorable, From
  <2> QED
    BY <2>5, <2>6, <2>7 DEF UpdateInv
<1> QED
  BY <1>1, <1>2, <1>3, <1>4, <1>5, <1>6, <1>7

(* Up to the backup: what the request names is what is marked, and that is  *)
(* installed or has been saved by a run that was interrupted.               *)
LEMMA PreparationKeeps ==
  ASSUME UpdateInv, ReadRequest \/ DownloadRelease \/ VerifyCandidate PROVE UpdateInv'
<1>0. UpdateTyped
  BY DEF UpdateInv
<1>1. CASE ReadRequest
  <2>1. UNCHANGED <<latest, halfUndone, service, call, request, marker, binary, backups, proven,
                    faults, kills>>
    BY <1>1 DEF ReadRequest, RequestRead, updateBounds
  <2>2. /\ helper' \in HelperStates /\ status' \in StatusStates
        /\ From' = marker /\ Target' = request.version
        /\ \/ helper'.pc = "finish"
           \/ helper'.pc = "download" /\ marker = request.current /\ marker < request.version
    <3>1. marker \in 0..MaxVersion /\ request.version \in 0..MaxVersion
      BY <1>0, VersionsAreNumbers DEF UpdateTyped, RequestStates
    <3>2. status' \in StatusStates
      <4>1. \/ UNCHANGED status
            \/ \E state \in {"downloading", "failed"} :
                 status' = [state |-> state, target |-> request.version, rollback |-> FALSE]
        BY <1>1 DEF ReadRequest
      <4>2. \A state \in {"downloading", "failed"} :
              [state |-> state, target |-> request.version, rollback |-> FALSE] \in StatusStates
        BY <3>1 DEF StatusStates, StatusNames
      <4> QED
        BY <1>0, <4>1, <4>2 DEF UpdateTyped
    <3>3. PICK pc \in {"download", "finish"} :
            /\ helper' = [[helper EXCEPT !.target = request.version, !.current = marker]
                            EXCEPT !.pc = pc]
            /\ pc = "download" => Acceptable
      BY <1>1 DEF ReadRequest
    <3>4. helper' = [pc |-> pc, target |-> request.version, current |-> marker,
                     file |-> helper.file, undone |-> helper.undone]
      BY <1>0, <3>3 DEF UpdateTyped, HelperStates
    <3>5. helper' \in HelperStates /\ helper'.pc = pc /\ From' = marker /\ Target' = request.version
      BY <1>0, <3>1, <3>4 DEF UpdateTyped, HelperStates, PCs, From, Target
    <3> QED
      BY <3>2, <3>3, <3>5 DEF Acceptable
  <2>3. UpdateTyped' /\ Newer'
    BY <2>1, <2>2 DEF UpdateInv, UpdateTyped, Newer, Working
  <2>4. RequestIsHeld'
    <3>1. request = NoRequest => request.current = 0
      BY DEF NoRequest
    <3>2. marker # 0
      BY <1>0, VersionsAreNumbers DEF UpdateTyped
    <3> QED
      BY <2>1, <2>2, <3>1, <3>2 DEF RequestIsHeld, Working
  <2>5. Stages'
    BY <2>1, <2>2 DEF UpdateInv, Stages, Working
  <2>6. ~halfUndone' => Saved'
    BY <2>1, <2>2 DEF UpdateInv, Saved, MarkedIsSafe, Restorable
  <2> QED
    BY <2>3, <2>4, <2>5, <2>6 DEF UpdateInv
<1>2. CASE DownloadRelease
  <2>1. /\ helper.pc = "download"
        /\ UNCHANGED <<latest, halfUndone, service, call, request, marker, binary, backups, proven,
                       kills>>
    BY <1>2 DEF DownloadRelease, HelperAt
  <2>2. faults' \in Faults
    BY <1>0, <1>2, FaultTyped DEF DownloadRelease, UpdateTyped
  <2>3. /\ helper' \in HelperStates /\ status' \in StatusStates /\ From' = From /\ Target' = Target
        /\ helper'.pc \in {"verify", "finish"}
    <3>1. CASE Failed(FALSE)
      BY <1>0, <3>1, FailedTyped DEF UpdateTyped
    <3>2. CASE /\ UNCHANGED status
               /\ \E file \in {helper.target, 0, helper.current} :
                    helper' = [helper EXCEPT !.pc = "verify", !.file = file]
      <4>0. {helper.target, 0, helper.current} \subseteq 0..MaxVersion
        BY <1>0, VersionsAreNumbers DEF UpdateTyped, HelperStates
      <4>1. PICK file \in 0..MaxVersion : helper' = [helper EXCEPT !.pc = "verify", !.file = file]
        BY <3>2, <4>0, Zenon
      <4>2. helper' = [pc |-> "verify", target |-> helper.target, current |-> helper.current,
                       file |-> file, undone |-> helper.undone]
        BY <1>0, <4>1 DEF UpdateTyped, HelperStates
      <4> QED
        BY <1>0, <3>2, <4>2 DEF UpdateTyped, HelperStates, PCs, From, Target
    <3> QED
      BY <1>2, <3>1, <3>2 DEF DownloadRelease
  <2>4. UpdateTyped' /\ Newer' /\ RequestIsHeld' /\ Stages'
    BY <2>1, <2>2, <2>3 DEF UpdateInv, UpdateTyped, Newer, RequestIsHeld, Stages, Working
  <2>5. ~halfUndone' => Saved'
    BY <2>1, <2>3 DEF UpdateInv, Saved, MarkedIsSafe, Restorable
  <2> QED
    BY <2>4, <2>5 DEF UpdateInv
<1>3. CASE VerifyCandidate
  <2>1. /\ helper.pc = "verify"
        /\ UNCHANGED <<latest, halfUndone, service, call, request, marker, binary, backups, proven,
                       faults, kills>>
    BY <1>3 DEF VerifyCandidate, HelperAt, updateBounds
  <2>2. /\ helper' \in HelperStates /\ status' \in StatusStates /\ From' = From /\ Target' = Target
        /\ \/ helper'.pc = "prune" /\ helper'.file = Target'
           \/ helper'.pc = "finish"
    <3>1. CASE Failed(FALSE)
      BY <1>0, <3>1, FailedTyped DEF UpdateTyped
    <3>2. CASE BuildInfoMatches /\ HelperGoes("prune") /\ UNCHANGED status
      BY <1>0, <3>2, HelperMoves DEF UpdateTyped, BuildInfoMatches, PCs, Target
    <3> QED
      BY <1>3, <3>1, <3>2 DEF VerifyCandidate
  <2>3. UpdateTyped' /\ Newer' /\ RequestIsHeld' /\ Stages'
    BY <2>1, <2>2 DEF UpdateInv, UpdateTyped, Newer, RequestIsHeld, Stages, Working
  <2>4. ~halfUndone' => Saved'
    BY <2>1, <2>2 DEF UpdateInv, Saved, MarkedIsSafe, Restorable
  <2> QED
    BY <2>3, <2>4 DEF UpdateInv
<1> QED
  BY <1>1, <1>2, <1>3

(* The backup is of the marked version, if it is not there already.         *)
LEMMA BackupKeeps == ASSUME UpdateInv, PruneBackups \/ Backup \/ SayInstalling PROVE UpdateInv'
<1>0. UpdateTyped /\ 0 \notin Versions /\ Versions = 1..MaxVersion /\ MaxVersion \in Nat
  BY VersionsAreNumbers DEF UpdateInv
<1>1. CASE PruneBackups
  <2>1. /\ helper.pc = "prune" /\ marker = From /\ helper.file = Target
        /\ backups' = [v \in Versions |-> IF v = From THEN backups[v] ELSE 0]
        /\ UNCHANGED <<latest, halfUndone, service, call, request, status, marker, binary, proven,
                       faults, kills>>
    BY <1>1 DEF PruneBackups, PrunedBackups, HelperAt, updateBounds, UpdateInv, Stages, From
  <2>2. /\ helper' \in HelperStates /\ helper'.pc = "backup" /\ helper'.file = helper.file
        /\ From' = From /\ Target' = Target
    BY <1>0, <1>1, HelperMoves DEF PruneBackups, UpdateTyped, PCs
  <2>3. backups' \in Backups
    BY <1>0, <2>1 DEF UpdateTyped, Backups
  <2>4. UpdateTyped' /\ Newer' /\ RequestIsHeld' /\ Stages'
    BY <2>1, <2>2, <2>3 DEF UpdateInv, UpdateTyped, Newer, RequestIsHeld, Stages, Working
  <2>5. ~halfUndone' => Saved'
    BY <1>0, <2>1, <2>2 DEF UpdateInv, UpdateTyped, Saved, MarkedIsSafe, Restorable
  <2> QED
    BY <2>4, <2>5 DEF UpdateInv
<1>2. CASE Backup
  <2>1. /\ helper.pc = "backup" /\ marker = From /\ helper.file = Target
        /\ UNCHANGED <<latest, halfUndone, service, call, request, marker, binary, proven, kills>>
    BY <1>2 DEF Backup, HelperAt, UpdateInv, Stages
  <2>2. /\ helper' \in HelperStates /\ status' \in StatusStates /\ From' = From /\ Target' = Target
        /\ \/ /\ helper'.pc = "installing" /\ helper'.file = helper.file
              /\ backups' = CopyIfAbsent(From)
           \/ helper'.pc = "finish" /\ backups' = backups
    <3>1. CASE Failed(FALSE) /\ UNCHANGED backups
      BY <1>0, <3>1, FailedTyped DEF UpdateTyped
    <3>2. CASE /\ HelperGoes("installing") /\ backups' = CopyIfAbsent(From) /\ UNCHANGED status
      BY <1>0, <3>2, HelperMoves DEF UpdateTyped, PCs
    <3> QED
      BY <1>2, <3>1, <3>2 DEF Backup, From
  <2>3. faults' \in Faults
    BY <1>0, <1>2, FaultTyped DEF Backup, UpdateTyped
  <2>4. /\ backups \in [Versions -> 0..MaxVersion] /\ binary \in Versions /\ From \in Versions
        /\ CopyIfAbsent(From) =
             [backups EXCEPT ![From] = IF backups[From] = 0 THEN binary ELSE backups[From]]
    BY <1>0, <2>1 DEF UpdateTyped, Backups, CopyIfAbsent
  <2>5. backups' \in Backups
    BY <1>0, <2>2, <2>4 DEF Backups
  <2>6. UpdateTyped' /\ Newer' /\ RequestIsHeld' /\ Stages'
    BY <2>1, <2>2, <2>3, <2>5 DEF UpdateInv, UpdateTyped, Newer, RequestIsHeld, Stages, Working
  <2>7. ~halfUndone' => Saved'
    <3> SUFFICES ASSUME ~halfUndone PROVE Saved'
      BY <2>1
    <3>1. Restorable /\ \A v \in Versions : backups[v] \in {0, v}
      BY <2>1 DEF UpdateInv, Saved
    <3>2. /\ \A v \in Versions : backups'[v] \in {0, v}
          /\ Restorable'
          /\ helper'.pc = "installing" => backups'[From] = From
      BY <1>0, <2>1, <2>2, <2>4, <3>1 DEF Restorable
    <3> QED
      BY <2>2, <3>2 DEF Saved, MarkedIsSafe
  <2> QED
    BY <2>6, <2>7 DEF UpdateInv
<1>3. CASE SayInstalling
  <2>1. /\ helper.pc = "installing"
        /\ UNCHANGED <<latest, halfUndone, service, call, request, marker, binary, backups, proven,
                       kills>>
    BY <1>3 DEF SayInstalling, HelperAt
  <2>2. faults' \in Faults
    BY <1>0, <1>3, FaultTyped DEF SayInstalling, UpdateTyped
  <2>3. /\ helper' \in HelperStates /\ status' \in StatusStates /\ From' = From /\ Target' = Target
        /\ helper'.file = helper.file /\ helper'.pc \in {"stop", "finish"}
    BY <1>0, <1>3, HelperMoves, SetTyped DEF SayInstalling, UpdateTyped, PCs, StatusNames
  <2>4. UpdateTyped' /\ Newer' /\ RequestIsHeld' /\ Stages'
    BY <2>1, <2>2, <2>3 DEF UpdateInv, UpdateTyped, Newer, RequestIsHeld, Stages, Working
  <2>5. ~halfUndone' => Saved'
    BY <2>1, <2>3 DEF UpdateInv, Saved, MarkedIsSafe, Restorable
  <2> QED
    BY <2>4, <2>5 DEF UpdateInv
<1> QED
  BY <1>1, <1>2, <1>3

(* The installation proper: the marker waits for the readiness check, and   *)
(* the backup stays until there is no way back.                             *)
LEMMA StopAndReplaceKeep ==
  ASSUME UpdateInv, StopService \/ ReplaceBinary \/ SayRestarting PROVE UpdateInv'
<1>0. UpdateTyped /\ ServiceStopped \in ServiceStates /\ ~ServiceStopped.up
  BY ServiceMoves DEF UpdateInv, UpdateTyped
<1>1. CASE StopService
  <2>1. /\ helper.pc = "stop"
        /\ UNCHANGED <<latest, halfUndone, request, status, marker, binary, backups, proven, kills>>
    BY <1>1 DEF StopService, HelperAt, onDisk
  <2>2. call' \in Calls /\ faults' \in Faults
    BY <1>0, <1>1, NoCallsTyped, FaultTyped DEF StopService, UpdateTyped
  <2>3. /\ helper' \in HelperStates /\ From' = From /\ Target' = Target
        /\ helper'.file = helper.file /\ service' \in {service, ServiceStopped}
        /\ (helper'.pc = "replace" /\ service' = ServiceStopped) \/ helper'.pc = "start_again"
    BY <1>0, <1>1, HelperMoves DEF StopService, UpdateTyped, PCs
  <2>4. UpdateTyped' /\ Newer' /\ RequestIsHeld' /\ Stages'
    BY <1>0, <2>1, <2>2, <2>3 DEF UpdateInv, UpdateTyped, Newer, RequestIsHeld, Stages, Working
  <2>5. ~halfUndone' => Saved'
    BY <1>0, <2>1, <2>3, MarkedStaysSafe DEF UpdateInv, Saved
  <2> QED
    BY <2>4, <2>5 DEF UpdateInv
<1>2. CASE ReplaceBinary
  <2>1. /\ helper.pc = "replace"
        /\ UNCHANGED <<latest, halfUndone, service, call, request, status, marker, backups, proven,
                       kills>>
    BY <1>2 DEF ReplaceBinary, HelperAt
  <2>2. faults' \in Faults
    BY <1>0, <1>2, FaultTyped DEF ReplaceBinary, UpdateTyped
  <2>3. ~service.up /\ helper.file = Target /\ marker = From /\ Target \in Versions
    BY <1>0, <2>1, VersionsAreNumbers DEF UpdateInv, Stages, UpdateTyped, Newer, Working, HelperStates, From, Target
  <2>4. /\ helper' \in HelperStates /\ From' = From /\ Target' = Target /\ helper'.file = helper.file
        /\ \/ helper'.pc = "restarting" /\ binary' = Target
           \/ helper'.pc = "start_again" /\ binary' = binary
    BY <1>0, <1>2, <2>3, HelperMoves DEF ReplaceBinary, UpdateTyped, PCs
  <2>5. UpdateTyped' /\ Newer' /\ RequestIsHeld' /\ Stages'
    BY <2>1, <2>2, <2>3, <2>4 DEF UpdateInv, UpdateTyped, Newer, RequestIsHeld, Stages, Working
  <2>6. ~halfUndone' => Saved'
    BY <2>1, <2>3, <2>4 DEF UpdateInv, Saved, MarkedIsSafe, Restorable
  <2> QED
    BY <2>5, <2>6 DEF UpdateInv
<1>3. CASE SayRestarting
  <2>1. /\ helper.pc = "restarting"
        /\ UNCHANGED <<latest, halfUndone, service, call, request, marker, binary, backups, proven,
                       kills>>
    BY <1>3 DEF SayRestarting, HelperAt
  <2>2. faults' \in Faults
    BY <1>0, <1>3, FaultTyped DEF SayRestarting, UpdateTyped
  <2>3. /\ helper' \in HelperStates /\ status' \in StatusStates /\ From' = From /\ Target' = Target
        /\ helper'.file = helper.file /\ helper'.pc \in {"start", "undo_stop"}
    BY <1>0, <1>3, HelperMoves, SetTyped DEF SayRestarting, UpdateTyped, PCs, StatusNames
  <2>4. UpdateTyped' /\ Newer' /\ RequestIsHeld' /\ Stages'
    BY <2>1, <2>2, <2>3 DEF UpdateInv, UpdateTyped, Newer, RequestIsHeld, Stages, Working
  <2>5. ~halfUndone' => Saved'
    BY <2>1, <2>3 DEF UpdateInv, Saved, MarkedIsSafe, Restorable
  <2> QED
    BY <2>4, <2>5 DEF UpdateInv
<1> QED
  BY <1>1, <1>2, <1>3

(* A run that has not replaced the binary leaves the service it found, or   *)
(* starts the one that is installed.                                        *)
LEMMA StartAgainKeeps == ASSUME UpdateInv, StartAgain PROVE UpdateInv'
<1>0. UpdateTyped
  BY DEF UpdateInv
<1>1. UNCHANGED <<latest, halfUndone, call, request, marker, binary, backups, proven, kills>>
  BY DEF StartAgain
<1>2. faults' \in Faults
  BY <1>0, FaultTyped DEF StartAgain, UpdateTyped
<1>3. /\ helper' \in HelperStates /\ helper'.pc = "finish" /\ status' \in StatusStates
  BY <1>0, FailedTyped DEF StartAgain, UpdateTyped
<1>4. /\ service' \in ServiceStates
      /\ service'.up => \/ service'.version = binary
                        \/ service.up /\ service'.version = service.version
  BY <1>0, ServiceMoves DEF StartAgain, UpdateTyped
<1>5. UpdateTyped' /\ Newer' /\ RequestIsHeld' /\ Stages'
  BY <1>1, <1>2, <1>3, <1>4 DEF UpdateInv, UpdateTyped, Newer, RequestIsHeld, Stages, Working
<1>6. ~halfUndone' => Saved'
  BY <1>1, <1>3, <1>4, MarkedStaysSafe DEF UpdateInv, Saved
<1> QED
  BY <1>5, <1>6 DEF UpdateInv

LEMMA StartAndCheckKeep ==
  ASSUME UpdateInv, StartService \/ CheckHealth PROVE UpdateInv'
<1>0. UpdateTyped
  BY DEF UpdateInv
<1>1. CASE StartService
  <2>1. /\ helper.pc = "start"
        /\ UNCHANGED <<latest, halfUndone, call, request, status, marker, binary, backups, proven,
                       kills>>
    BY <1>1 DEF StartService, HelperAt, onDisk
  <2>2. faults' \in Faults
    BY <1>0, <1>1, FaultTyped DEF StartService, UpdateTyped
  <2>3. ~service.up /\ binary = Target
    BY <2>1 DEF UpdateInv, Stages
  <2>4. service' \in ServiceStates /\ (service'.up => service'.version = binary)
    BY <1>0, <1>1, <2>3, ServiceMoves DEF StartService, UpdateTyped
  <2>5. /\ helper' \in HelperStates /\ From' = From /\ Target' = Target /\ helper'.file = helper.file
        /\ helper'.pc \in {"health", "undo_stop"}
    BY <1>0, <1>1, HelperMoves DEF StartService, UpdateTyped, PCs
  <2>6. UpdateTyped' /\ Newer' /\ RequestIsHeld' /\ Stages'
    BY <2>1, <2>2, <2>3, <2>4, <2>5 DEF UpdateInv, UpdateTyped, Newer, RequestIsHeld, Stages, Working
  <2>7. ~halfUndone' => Saved'
    BY <2>1, <2>4, <2>5, MarkedStaysSafe DEF UpdateInv, Saved
  <2> QED
    BY <2>6, <2>7 DEF UpdateInv
<1>2. CASE CheckHealth
  <2>1. /\ helper.pc = "health"
        /\ UNCHANGED <<latest, halfUndone, service, call, request, status, marker, binary, backups,
                       kills>>
    BY <1>2 DEF CheckHealth, HelperAt, onDisk
  <2>2. faults' \in Faults
    BY <1>0, <1>2, FaultTyped DEF CheckHealth, UpdateTyped
  <2>3. /\ helper' \in HelperStates /\ From' = From /\ Target' = Target /\ helper'.file = helper.file
        /\ helper'.pc = "undo_stop" \/ (helper'.pc = "mark" /\ Serving)
    BY <1>0, <1>2, HelperMoves DEF CheckHealth, AfterHealth, UpdateTyped, PCs
  <2>4. /\ proven \subseteq proven' /\ proven' \subseteq Versions
        /\ Serving => service.version \in proven'
    BY <1>0, <1>2 DEF CheckHealth, UpdateTyped, ServiceStates
  <2>5. Serving => Target \in proven'
    BY <2>1, <2>4 DEF Serving, UpdateInv, Stages
  <2>6. UpdateTyped' /\ Newer' /\ RequestIsHeld' /\ Stages'
    BY <2>1, <2>2, <2>3, <2>4, <2>5 DEF UpdateInv, UpdateTyped, Newer, RequestIsHeld, Stages, Working
  <2>7. ~halfUndone' => Saved'
    BY <2>1, <2>3 DEF UpdateInv, Saved, MarkedIsSafe, Restorable
  <2> QED
    BY <2>6, <2>7 DEF UpdateInv
<1> QED
  BY <1>1, <1>2

LEMMA CompletionKeeps ==
  ASSUME UpdateInv, WriteMarker \/ Succeed \/ RemoveBackup \/ RemoveRequest PROVE UpdateInv'
<1>0. UpdateTyped
  BY DEF UpdateInv
<1>1. CASE WriteMarker
  <2>1. /\ helper.pc = "mark"
        /\ UNCHANGED <<latest, halfUndone, service, call, request, status, binary, backups, proven,
                       kills>>
    BY <1>1 DEF WriteMarker, HelperAt
  <2>2. faults' \in Faults
    BY <1>0, <1>1, FaultTyped DEF WriteMarker, UpdateTyped
  <2>3. binary = Target /\ marker = From /\ Target \in proven
    BY <2>1 DEF UpdateInv, Stages
  <2>4. /\ helper' \in HelperStates /\ From' = From /\ Target' = Target /\ helper'.file = helper.file
        /\ \/ helper'.pc = "succeed" /\ marker' = Target
           \/ helper'.pc = "undo_stop" /\ marker' = marker
    BY <1>0, <1>1, HelperMoves DEF WriteMarker, UpdateTyped, PCs, Target
  <2>5. UpdateTyped' /\ Newer' /\ RequestIsHeld' /\ Stages'
    BY <2>1, <2>2, <2>3, <2>4 DEF UpdateInv, UpdateTyped, Newer, RequestIsHeld, Stages, Working
  <2>6. ~halfUndone' => Saved'
    BY <2>1, <2>3, <2>4 DEF UpdateInv, Saved, MarkedIsSafe, Restorable
  <2> QED
    BY <2>5, <2>6 DEF UpdateInv
<1>2. CASE Succeed
  <2>1. /\ helper.pc = "succeed"
        /\ UNCHANGED <<latest, halfUndone, service, call, request, marker, binary, backups, proven,
                       kills>>
    BY <1>2 DEF Succeed, HelperAt
  <2>2. faults' \in Faults
    BY <1>0, <1>2, FaultTyped DEF Succeed, UpdateTyped
  <2>3. /\ helper' \in HelperStates /\ From' = From /\ Target' = Target /\ helper'.file = helper.file
        /\ helper'.pc \in {"clean", "undo_stop"} /\ status' \in StatusStates
    BY <1>0, <1>2, HelperMoves, SetTyped DEF Succeed, UpdateTyped, PCs, StatusNames
  <2>4. UpdateTyped' /\ Newer' /\ RequestIsHeld' /\ Stages'
    BY <2>1, <2>2, <2>3 DEF UpdateInv, UpdateTyped, Newer, RequestIsHeld, Stages, Working
  <2>5. ~halfUndone' => Saved'
    BY <2>1, <2>3 DEF UpdateInv, Saved, MarkedIsSafe, Restorable
  <2> QED
    BY <2>4, <2>5 DEF UpdateInv
<1>3. CASE RemoveBackup
  <2>1. /\ helper.pc = "clean" /\ backups' = [backups EXCEPT ![From] = 0]
        /\ UNCHANGED <<latest, halfUndone, service, call, request, status, marker, binary, proven,
                       faults, kills>>
    BY <1>3 DEF RemoveBackup, HelperAt, updateBounds, From
  <2>2. /\ helper' \in HelperStates /\ From' = From /\ Target' = Target /\ helper'.pc = "finish"
    BY <1>0, <1>3, HelperMoves DEF RemoveBackup, UpdateTyped, PCs
  <2>3. binary = Target /\ marker = Target
    BY <2>1 DEF UpdateInv, Stages
  <2>4. backups' \in Backups /\ \A v \in Versions : backups'[v] \in {0, backups[v]}
    <3>1. backups \in [Versions -> 0..MaxVersion] /\ 0 \in 0..MaxVersion
      BY <1>0, VersionsAreNumbers DEF UpdateTyped, Backups
    <3>2. backups' = [v \in Versions |-> IF v = From THEN 0 ELSE backups[v]]
      BY <2>1, <3>1
    <3> QED
      BY <3>1, <3>2 DEF Backups
  <2>5. UpdateTyped' /\ Newer' /\ RequestIsHeld' /\ Stages'
    BY <2>1, <2>2, <2>4 DEF UpdateInv, UpdateTyped, Newer, RequestIsHeld, Stages, Working
  <2>6. ~halfUndone' => Saved'
    BY <2>1, <2>2, <2>3, <2>4 DEF UpdateInv, Saved, MarkedIsSafe, Restorable
  <2> QED
    BY <2>5, <2>6 DEF UpdateInv
<1>4. CASE RemoveRequest
  <2>1. /\ helper' \in HelperStates /\ helper'.pc = "idle"
        /\ UNCHANGED <<latest, halfUndone, service, call, status, marker, binary, backups, proven,
                       faults, kills>>
    BY <1>4, HelperStops DEF RemoveRequest, updateBounds
  <2>2. request' \in RequestStates /\ request'.current = 0
    BY <1>4, VersionsAreNumbers DEF RemoveRequest, NoRequest, RequestStates
  <2>3. marker # 0
    BY <1>0, VersionsAreNumbers DEF UpdateTyped
  <2>4. UpdateTyped' /\ Newer' /\ RequestIsHeld' /\ Stages'
    BY <2>1, <2>2 DEF UpdateInv, UpdateTyped, Newer, RequestIsHeld, Stages, Working
  <2>5. ~halfUndone' => Saved'
    BY <2>1, <2>2, <2>3, MarkedStaysSafe DEF UpdateInv, Saved
  <2> QED
    BY <2>4, <2>5 DEF UpdateInv
<1> QED
  BY <1>1, <1>2, <1>3, <1>4

-----------------------------------------------------------------------------
(* The rollback: binary before marker, so in between the marker may name    *)
(* neither what is installed nor what is saved.                             *)
LEMMA UndoFilesKeep ==
  ASSUME UpdateInv, UndoStop \/ UndoBinary \/ UndoMarker PROVE UpdateInv'
<1>0. UpdateTyped
  BY DEF UpdateInv
<1>1. CASE UndoStop
  <2>1. /\ helper.pc = "undo_stop"
        /\ UNCHANGED <<latest, halfUndone, request, status, marker, binary, backups, proven, kills>>
    BY <1>1 DEF UndoStop, HelperAt, onDisk
  <2>2. faults' \in Faults /\ call' \in Calls
    BY <1>0, <1>1, FaultTyped, NoCallsTyped DEF UndoStop, UpdateTyped
  <2>3. /\ helper' \in HelperStates /\ From' = From /\ Target' = Target /\ helper'.pc = "undo_binary"
    BY <1>0, <1>1, HelperMoves DEF UndoStop, UpdateTyped, PCs
  <2>4. service' \in ServiceStates /\ (service'.up => service' = service)
    BY <1>0, <1>1, ServiceMoves DEF UndoStop, UpdateTyped
  <2>5. UpdateTyped' /\ Newer' /\ RequestIsHeld' /\ Stages'
    BY <2>1, <2>2, <2>3, <2>4 DEF UpdateInv, UpdateTyped, Newer, RequestIsHeld, Stages, Working
  <2>6. ~halfUndone' => Saved'
    BY <2>1, <2>3, <2>4, MarkedStaysSafe DEF UpdateInv, Saved
  <2> QED
    BY <2>5, <2>6 DEF UpdateInv
<1>2. CASE UndoBinary
  <2>1. /\ helper.pc = "undo_binary"
        /\ UNCHANGED <<latest, service, call, request, status, marker, backups, proven, kills>>
    BY <1>2 DEF UndoBinary, HelperAt
  <2>2. faults' \in Faults
    BY <1>0, <1>2, FaultTyped DEF UndoBinary, UpdateTyped
  <2>3. From \in Versions /\ marker \in {From, Target} /\ From < Target /\ request.current = From
    BY <1>0, <2>1 DEF UpdateInv, Stages, UpdateTyped, Newer, RequestIsHeld, Working
  <2>4. /\ helper' \in HelperStates /\ From' = From /\ Target' = Target
        /\ \/ /\ helper'.pc = "undo_marker" /\ binary' = backups[From] /\ backups[From] # 0
              /\ halfUndone' \in BOOLEAN
              /\ ~halfUndone' => ~halfUndone /\ (service.up => marker = From)
           \/ helper'.pc = "undo_start" /\ UNCHANGED <<binary, halfUndone>>
    <3>1. CASE /\ backups[helper.current] # 0 /\ binary' = backups[helper.current]
               /\ halfUndone' = (halfUndone \/ (service.up /\ marker # helper.current))
               /\ HelperGoes("undo_marker")
      <4>1. /\ halfUndone' \in BOOLEAN
            /\ ~halfUndone' => ~halfUndone /\ (service.up => marker = From)
        BY <3>1, Zenon DEF From
      <4>2. helper' \in HelperStates /\ From' = From /\ Target' = Target /\ helper'.pc = "undo_marker"
        BY <1>0, <3>1, HelperMoves DEF UpdateTyped, PCs
      <4> QED
        BY <3>1, <4>1, <4>2 DEF From
    <3>2. CASE /\ UNCHANGED <<binary, halfUndone>>
               /\ helper' = [helper EXCEPT !.pc = "undo_start", !.undone = FALSE]
      BY <1>0, <3>2, HelperGivesUp DEF UpdateTyped, PCs
    <3> QED
      BY <1>2, <3>1, <3>2 DEF UndoBinary
  <2>5. binary' \in Versions /\ halfUndone' \in BOOLEAN
    <3>1. backups[From] # 0 => backups[From] \in Versions
      BY <1>0, <2>3, VersionsAreNumbers DEF UpdateTyped, Backups
    <3> QED
      BY <1>0, <2>4, <3>1 DEF UpdateTyped
  <2>6. UpdateTyped' /\ Newer' /\ RequestIsHeld' /\ Stages'
    BY <2>1, <2>2, <2>3, <2>4, <2>5 DEF UpdateInv, UpdateTyped, Newer, RequestIsHeld, Stages, Working
  <2>7. ~halfUndone' => Saved'
    <3> SUFFICES ASSUME ~halfUndone' PROVE Saved'
      OBVIOUS
    <3>1. ~halfUndone /\ Saved /\ backups[From] = From
      BY <2>1, <2>4 DEF UpdateInv, Saved
    <3>2. CASE helper'.pc = "undo_marker"
      <4>1. binary' = From /\ (marker = From \/ ~service.up)
        BY <2>4, <3>1, <3>2
      <4>2. From # Target
        BY <1>0, <2>3 DEF UpdateTyped, HelperStates, From, Target
      <4>3. MarkedIsSafe'
        BY <2>1, <2>3, <4>1, <4>2 DEF MarkedIsSafe, Restorable
      <4> QED
        BY <2>1, <2>4, <3>1, <3>2, <4>1, <4>3 DEF Saved
    <3>3. CASE helper'.pc = "undo_start"
      BY <2>1, <2>4, <3>1, <3>3 DEF Saved, MarkedIsSafe, Restorable
    <3> QED
      BY <2>4, <3>2, <3>3
  <2> QED
    BY <2>6, <2>7 DEF UpdateInv
<1>3. CASE UndoMarker
  <2>1. /\ helper.pc = "undo_marker"
        /\ UNCHANGED <<latest, halfUndone, service, call, request, status, binary, backups, proven,
                       kills>>
    BY <1>3 DEF UndoMarker, HelperAt
  <2>2. faults' \in Faults
    BY <1>0, <1>3, FaultTyped DEF UndoMarker, UpdateTyped
  <2>3. From \in proven
    BY <2>1 DEF UpdateInv, Stages, Working
  <2>4. /\ helper' \in HelperStates /\ From' = From /\ Target' = Target /\ helper'.pc = "undo_start"
        /\ marker' \in {From, marker}
    <3>1. CASE marker' = helper.current /\ HelperGoes("undo_start")
      BY <1>0, <3>1, HelperMoves DEF UpdateTyped, PCs, From
    <3>2. CASE UNCHANGED marker /\ helper' = [helper EXCEPT !.pc = "undo_start", !.undone = FALSE]
      BY <1>0, <3>2, HelperGivesUp DEF UpdateTyped, PCs
    <3> QED
      BY <1>3, <3>1, <3>2 DEF UndoMarker
  <2>5. UpdateTyped' /\ Newer' /\ RequestIsHeld' /\ Stages'
    BY <2>1, <2>2, <2>3, <2>4 DEF UpdateInv, UpdateTyped, Newer, RequestIsHeld, Stages, Working
  <2>6. ~halfUndone' => Saved'
    BY <2>1, <2>4 DEF UpdateInv, Saved, MarkedIsSafe, Restorable
  <2> QED
    BY <2>5, <2>6 DEF UpdateInv
<1> QED
  BY <1>1, <1>2, <1>3

LEMMA UndoServiceKeeps ==
  ASSUME UpdateInv, UndoStart \/ UndoHealth \/ UndoEnds PROVE UpdateInv'
<1>0. UpdateTyped
  BY DEF UpdateInv
<1>1. CASE UndoStart
  <2>1. /\ helper.pc = "undo_start"
        /\ UNCHANGED <<latest, halfUndone, call, request, status, marker, binary, backups, proven,
                       kills>>
    BY <1>1 DEF UndoStart, HelperAt, onDisk
  <2>2. faults' \in Faults
    BY <1>0, <1>1, FaultTyped DEF UndoStart, UpdateTyped
  <2>3. /\ helper' \in HelperStates /\ From' = From /\ Target' = Target
        /\ helper'.pc \in {"undo_health", "undo_end"} /\ service' \in {Started, service}
    <3>1. CASE service' = Started /\ HelperGoes("undo_health")
      BY <1>0, <3>1, HelperMoves DEF UpdateTyped, PCs
    <3>2. CASE /\ service' \in {service, Started}
               /\ helper' = [helper EXCEPT !.pc = "undo_end", !.undone = FALSE]
      BY <1>0, <3>2, HelperGivesUp DEF UpdateTyped, PCs
    <3> QED
      BY <1>1, <3>1, <3>2 DEF UndoStart
  <2>4. /\ service' \in ServiceStates
        /\ service'.up => \/ service'.version = binary
                          \/ service.up /\ service'.version = service.version
    BY <1>0, <2>3, ServiceMoves DEF UpdateTyped
  <2>5. UpdateTyped' /\ Newer' /\ RequestIsHeld' /\ Stages'
    BY <2>1, <2>2, <2>3, <2>4 DEF UpdateInv, UpdateTyped, Newer, RequestIsHeld, Stages, Working
  <2>6. ~halfUndone' => Saved'
    BY <2>1, <2>3, <2>4, MarkedStaysSafe DEF UpdateInv, Saved
  <2> QED
    BY <2>5, <2>6 DEF UpdateInv
<1>2. CASE UndoHealth
  <2>1. UNCHANGED <<latest, halfUndone, service, call, request, marker, binary, backups, kills>>
    BY <1>2 DEF UndoHealth
  <2>2. faults' \in Faults
    BY <1>0, <1>2, FaultTyped DEF UndoHealth, UpdateTyped
  <2>3. \A ready \in BOOLEAN : Undone(ready) \in BOOLEAN
    BY <1>0 DEF Undone, UpdateTyped, HelperStates
  <2>4. /\ helper' \in HelperStates /\ From' = From /\ Target' = Target /\ helper'.pc = "finish"
        /\ status' \in StatusStates
    <3>1. Serving \in BOOLEAN
      BY <1>0 DEF Serving, UpdateTyped, ServiceStates
    <3>2. Failed(Undone(Serving)) \/ Failed(Undone(FALSE))
      BY <1>2 DEF UndoHealth
    <3> QED
      BY <1>0, <2>3, <3>1, <3>2, FailedTyped DEF UpdateTyped
  <2>5. proven \subseteq proven' /\ proven' \subseteq Versions
    BY <1>0, <1>2 DEF UndoHealth, UpdateTyped, ServiceStates
  <2>6. UpdateTyped' /\ Newer' /\ RequestIsHeld' /\ Stages'
    BY <2>1, <2>2, <2>4, <2>5 DEF UpdateInv, UpdateTyped, Newer, RequestIsHeld, Stages, Working
  <2>7. ~halfUndone' => Saved'
    BY <2>1, <2>4, MarkedStaysSafe DEF UpdateInv, Saved
  <2> QED
    BY <2>6, <2>7 DEF UpdateInv
<1>3. CASE UndoEnds
  <2>1. UNCHANGED <<latest, halfUndone, service, call, request, marker, binary, backups, proven,
                    faults, kills>>
    BY <1>3 DEF UndoEnds, updateBounds
  <2>2. helper' \in HelperStates /\ helper'.pc = "finish" /\ status' \in StatusStates
    BY <1>0, <1>3, FailedTyped DEF UndoEnds, UpdateTyped
  <2>3. UpdateTyped' /\ Newer' /\ RequestIsHeld' /\ Stages'
    BY <2>1, <2>2 DEF UpdateInv, UpdateTyped, Newer, RequestIsHeld, Stages, Working
  <2>4. ~halfUndone' => Saved'
    BY <2>1, <2>2, MarkedStaysSafe DEF UpdateInv, Saved
  <2> QED
    BY <2>3, <2>4 DEF UpdateInv
<1> QED
  BY <1>1, <1>2, <1>3

LEMMA UpdateStep == ASSUME UpdateInv, [UpdateNext]_updateVars PROVE UpdateInv'
<1>1. CASE UNCHANGED updateVars
  BY <1>1 DEF updateVars, onDisk, updateBounds, UpdateInv, UpdateTyped, Newer, RequestIsHeld,
     Stages, Saved, MarkedIsSafe, Restorable, Working, From, Target
<1>2. CASE UpdateNext
  BY <1>2, OutsideKeeps, PreparationKeeps, BackupKeeps, StopAndReplaceKeep, StartAgainKeeps,
     StartAndCheckKeep, CompletionKeeps, UndoFilesKeep, UndoServiceKeeps
     DEF UpdateNext, Apply
<1> QED
  BY <1>1, <1>2

LEMMA InvariantHolds == UpdateSpec => []UpdateInv
BY UpdateStarts, UpdateStep, PTL DEF UpdateSpec

(* The updater's state is well typed, and a helper at work moves to a newer *)
(* version than the one it found.                                           *)
THEOREM UpdateTypeCorrect == UpdateSpec => []UpdateTypeOK
<1>1. UpdateInv => UpdateTypeOK
  BY TypedIsTypeOK DEF UpdateInv
<1> QED
  BY <1>1, InvariantHolds, PTL

(* The marker names a version that has been ready, and what is saved under  *)
(* a version's name is that version (apply.go:161-192, 285-309).            *)
THEOREM UpdateCanBeUndone == UpdateSpec => []RollbackIsPossible
<1>1. UpdateInv => RollbackIsPossible
  BY DEF UpdateInv, Stages, Saved, RollbackIsPossible, BackupIsItsVersion, MarkedVersionWasReady
<1> QED
  BY <1>1, InvariantHolds, PTL

-----------------------------------------------------------------------------
(* The status page.  The status names the update the helper works on, and   *)
(* shows it as under way until the run ends; a success is written when      *)
(* everything is the target, and a rollback is only called performed by a   *)
(* helper that has put back both the binary and the marker.                 *)
Progress ==
  /\ Working => request.version = Target /\ status.target = Target /\ ~status.rollback
  /\ Working /\ helper.pc # "clean" => Active(status.state)
  /\ helper.pc = "clean" => status.state = "succeeded"
Installed == helper.pc \in {"health", "mark", "succeed", "clean"} => service.version = Target
PutBack ==
  helper.pc \in {"undo_start", "undo_health"} /\ helper.undone =>
    marker = From /\ (~halfUndone => binary = From)
StatusInv == Progress /\ Installed /\ PutBack /\ OutcomeIsTrue

LEMMA StatusStarts == UpdateInit => StatusInv
BY DEF UpdateInit, IdleHelper, StatusInv, Progress, Installed, PutBack, OutcomeIsTrue, Working, From, Target

LEMMA ActiveIsOpen == \A state : Active(state) => state \notin {"succeeded", "failed", "idle"}
BY DEF Active

LEMMA SetSays ==
  ASSUME NEW state, NEW rollback, Set(state, rollback)
  PROVE  status'.state = state /\ status'.target = Target /\ status'.rollback = rollback
BY DEF Set, Target

(* A run that has failed while the update was under way: no outcome of an   *)
(* earlier run is left to be wrong.                                         *)
LEMMA FailureIsTrue ==
  ASSUME StatusInv, Working, helper.pc # "clean", helper \in HelperStates, status \in StatusStates,
         Failed(FALSE)
  PROVE  StatusInv'
<1>1. helper'.pc = "finish" /\ ~Working'
  BY FailedTyped
<1>2. /\ status'.state # "succeeded" /\ ~status'.rollback
  <2>1. CASE Set("failed", FALSE)
    BY <2>1, Zenon DEF Set
  <2>2. CASE UNCHANGED status
    BY <2>2, ActiveIsOpen DEF StatusInv, Progress
  <2> QED
    BY <2>1, <2>2 DEF Failed
<1> QED
  BY <1>1, <1>2 DEF StatusInv, Progress, Installed, PutBack, OutcomeIsTrue

(* A run that goes on.                                                      *)
LEMMA RunGoesOn ==
  ASSUME StatusInv, Working, helper.pc # "clean", helper \in HelperStates, UNCHANGED request,
         NEW pc \in PCs \ {"idle", "read", "finish", "clean", "undo_start", "undo_health", "undo_end"},
         helper'.pc = pc, Target' = Target,
         UNCHANGED status \/ \E state : Active(state) /\ Set(state, FALSE),
         pc \in {"health", "mark", "succeed"} => service'.version = Target
  PROVE  StatusInv'
<1>1. Active(status'.state) /\ status'.target = Target /\ ~status'.rollback
  <2>1. CASE UNCHANGED status
    BY <2>1 DEF StatusInv, Progress
  <2>2. CASE \E state : Active(state) /\ Set(state, FALSE)
    BY <2>2, SetSays
  <2> QED
    BY <2>1, <2>2
<1>2. request'.version = Target'
  BY DEF StatusInv, Progress
<1>3. status'.state # "succeeded"
  BY <1>1, ActiveIsOpen
<1> QED
  BY <1>1, <1>2, <1>3 DEF StatusInv, Progress, Installed, PutBack, OutcomeIsTrue

LEMMA OutsideTellsTrue ==
  ASSUME UpdateInv, StatusInv,
         \/ PublishRelease \/ StartHelper \/ Kill \/ Reboot \/ ServiceCrash
         \/ \E a \in Admins : FetchRelease(a) \/ Install(a)
  PROVE  StatusInv'
<1>0. UpdateTyped
  BY DEF UpdateInv
<1>1. CASE PublishRelease \/ \E a \in Admins : FetchRelease(a)
  <2>1. UNCHANGED <<service, request, status, marker, binary, helper, halfUndone>>
    BY <1>1 DEF PublishRelease, FetchRelease, onDisk
  <2> QED
    BY <2>1 DEF StatusInv, Progress, Installed, PutBack, OutcomeIsTrue, Working, From, Target
<1>2. CASE StartHelper
  <2>1. helper'.pc = "read" /\ UNCHANGED <<service, request, status, marker, binary, halfUndone>>
    BY <1>0, <1>2, HelperMoves DEF StartHelper, UpdateTyped, PCs, onDisk
  <2> QED
    BY <2>1 DEF StatusInv, Progress, Installed, PutBack, OutcomeIsTrue, Working
<1>3. CASE Kill \/ Reboot
  <2>1. /\ helper'.pc = "idle" /\ UNCHANGED <<status, marker, binary, halfUndone>>
        /\ service' = service \/ service' = [up |-> TRUE, version |-> binary]
    BY <1>3, HelperStops DEF Kill, Reboot, onDisk
  <2>2. OutcomeIsTrue'
    BY <2>1 DEF StatusInv, OutcomeIsTrue
  <2> QED
    BY <2>1, <2>2 DEF StatusInv, Progress, Installed, PutBack, Working
<1>4. CASE ServiceCrash
  <2>1. /\ UNCHANGED <<request, status, marker, binary, helper, halfUndone>>
        /\ service' = [up |-> TRUE, version |-> binary]
    BY <1>4 DEF ServiceCrash, onDisk
  <2>2. Installed'
    BY <2>1 DEF UpdateInv, Stages, Installed, Target
  <2>3. OutcomeIsTrue'
    BY <2>1 DEF StatusInv, OutcomeIsTrue
  <2> QED
    BY <2>1, <2>2, <2>3 DEF StatusInv, Progress, PutBack, Working, From, Target
<1>5. ASSUME NEW a \in Admins, Install(a) PROVE StatusInv'
  <2>1. /\ UNCHANGED <<service, status, marker, binary, helper, halfUndone>>
        /\ request # NoRequest => request' = request
    BY <1>5 DEF Install, NoConflict
  <2>2. Working => request' = request
    BY <2>1 DEF UpdateInv, RequestIsHeld
  <2> QED
    BY <2>1, <2>2 DEF StatusInv, Progress, Installed, PutBack, OutcomeIsTrue, Working, From, Target
<1> QED
  BY <1>1, <1>2, <1>3, <1>4, <1>5

LEMMA PreparationTellsTrue ==
  ASSUME UpdateInv, StatusInv, ReadRequest \/ DownloadRelease \/ VerifyCandidate \/ PruneBackups
         \/ Backup \/ SayInstalling
  PROVE  StatusInv'
<1>0. UpdateTyped /\ helper \in HelperStates /\ status \in StatusStates
  BY DEF UpdateInv, UpdateTyped
<1>1. CASE ReadRequest
  <2>1. UNCHANGED <<service, request, marker, binary, halfUndone>>
    BY <1>1 DEF ReadRequest, RequestRead
  <2>2. CASE UNCHANGED status /\ helper'.pc = "finish"
    BY <2>1, <2>2 DEF StatusInv, Progress, Installed, PutBack, OutcomeIsTrue, Working
  <2>3. ASSUME NEW state \in {"downloading", "failed"},
               status' = [state |-> state, target |-> request.version, rollback |-> FALSE],
               state = "failed" => helper'.pc = "finish",
               state = "downloading" => helper'.pc = "download" /\ Target' = request.version
        PROVE  StatusInv'
    <3>1. Active("downloading")
      BY DEF Active
    <3> QED
      BY <2>1, <2>3, <3>1 DEF StatusInv, Progress, Installed, PutBack, OutcomeIsTrue, Working
  <2>4. ASSUME NEW pc \in {"download", "finish"},
               helper' = [[helper EXCEPT !.target = request.version, !.current = marker]
                            EXCEPT !.pc = pc]
        PROVE  helper'.pc = pc /\ Target' = request.version
    <3>1. helper' = [pc |-> pc, target |-> request.version, current |-> marker,
                     file |-> helper.file, undone |-> helper.undone]
      BY <1>0, <2>4 DEF HelperStates
    <3> QED
      BY <3>1 DEF Target
  <2> QED
    BY <1>1, <2>2, <2>3, <2>4 DEF ReadRequest
<1>2. CASE DownloadRelease
  <2>1. helper.pc = "download" /\ UNCHANGED request
    BY <1>2 DEF DownloadRelease, HelperAt
  <2>2. CASE Failed(FALSE)
    BY <1>0, <2>1, <2>2, FailureIsTrue DEF Working
  <2>3. CASE /\ UNCHANGED status
             /\ \E file \in {helper.target, 0, helper.current} :
                  helper' = [helper EXCEPT !.pc = "verify", !.file = file]
    <3>1. helper'.pc = "verify" /\ Target' = Target
      BY <1>0, <2>3 DEF HelperStates, Target
    <3> QED
      BY <1>0, <2>1, <2>3, <3>1, RunGoesOn DEF Working, PCs
  <2> QED
    BY <1>2, <2>2, <2>3 DEF DownloadRelease
<1>3. CASE VerifyCandidate
  <2>1. helper.pc = "verify" /\ UNCHANGED request
    BY <1>3 DEF VerifyCandidate, HelperAt
  <2>2. CASE Failed(FALSE)
    BY <1>0, <2>1, <2>2, FailureIsTrue DEF Working
  <2>3. CASE HelperGoes("prune") /\ UNCHANGED status
    BY <1>0, <2>1, <2>3, HelperMoves, RunGoesOn DEF Working, PCs
  <2> QED
    BY <1>3, <2>2, <2>3 DEF VerifyCandidate
<1>4. CASE PruneBackups
  <2>1. helper.pc = "prune" /\ HelperGoes("backup") /\ UNCHANGED <<request, status>>
    BY <1>4 DEF PruneBackups, HelperAt
  <2> QED
    BY <1>0, <2>1, HelperMoves, RunGoesOn DEF Working, PCs
<1>5. CASE Backup
  <2>1. helper.pc = "backup" /\ UNCHANGED request
    BY <1>5 DEF Backup, HelperAt
  <2>2. CASE Failed(FALSE)
    BY <1>0, <2>1, <2>2, FailureIsTrue DEF Working
  <2>3. CASE HelperGoes("installing") /\ UNCHANGED status
    BY <1>0, <2>1, <2>3, HelperMoves, RunGoesOn DEF Working, PCs
  <2> QED
    BY <1>5, <2>2, <2>3 DEF Backup
<1>6. CASE SayInstalling
  <2>1. helper.pc = "installing" /\ UNCHANGED request
    BY <1>6 DEF SayInstalling, HelperAt
  <2>2. CASE Set("installing", FALSE) /\ HelperGoes("stop")
    <3>1. Active("installing")
      BY DEF Active
    <3> QED
      BY <1>0, <2>1, <2>2, <3>1, HelperMoves, RunGoesOn DEF Working, PCs
  <2>3. CASE HelperGoes("finish") /\ UNCHANGED status
    <3>1. Failed(FALSE)
      BY <2>3 DEF Failed, FailApply
    <3> QED
      BY <1>0, <2>1, <3>1, FailureIsTrue DEF Working
  <2> QED
    BY <1>6, <2>2, <2>3 DEF SayInstalling
<1> QED
  BY <1>1, <1>2, <1>3, <1>4, <1>5, <1>6

LEMMA InstallationTellsTrue ==
  ASSUME UpdateInv, StatusInv,
         \/ StopService \/ ReplaceBinary \/ StartAgain \/ SayRestarting \/ StartService
         \/ CheckHealth \/ WriteMarker
  PROVE  StatusInv'
<1>0. UpdateTyped /\ helper \in HelperStates /\ status \in StatusStates
  BY DEF UpdateInv, UpdateTyped
<1>1. CASE StopService \/ ReplaceBinary
  <2>1. helper.pc \in {"stop", "replace"} /\ UNCHANGED <<request, status>>
    BY <1>1 DEF StopService, ReplaceBinary, HelperAt, onDisk
  <2>2. \E pc \in {"replace", "restarting", "start_again"} : HelperGoes(pc)
    BY <1>1 DEF StopService, ReplaceBinary
  <2> QED
    BY <1>0, <2>1, <2>2, HelperMoves, RunGoesOn DEF Working, PCs
<1>2. CASE StartAgain
  <2>1. helper.pc = "start_again" /\ Failed(FALSE)
    BY <1>2 DEF StartAgain, HelperAt
  <2> QED
    BY <1>0, <2>1, FailureIsTrue DEF Working
<1>6. CASE SayRestarting
  <2>1. helper.pc = "restarting" /\ UNCHANGED request
    BY <1>6 DEF SayRestarting, HelperAt
  <2>2. CASE Set("restarting", FALSE) /\ HelperGoes("start")
    <3>1. Active("restarting")
      BY DEF Active
    <3> QED
      BY <1>0, <2>1, <2>2, <3>1, HelperMoves, RunGoesOn DEF Working, PCs
  <2>3. CASE HelperGoes("undo_stop") /\ UNCHANGED status
    BY <1>0, <2>1, <2>3, HelperMoves, RunGoesOn DEF Working, PCs
  <2> QED
    BY <1>6, <2>2, <2>3 DEF SayRestarting
<1>3. CASE StartService
  <2>1. /\ helper.pc = "start" /\ UNCHANGED <<request, status>> /\ ~service.up /\ binary = Target
    BY <1>3 DEF StartService, HelperAt, onDisk, UpdateInv, Stages
  <2>2. CASE service' = Started /\ HelperGoes("health")
    <3>1. service'.version = Target
      BY <1>0, <2>1, <2>2, ServiceMoves DEF UpdateTyped
    <3> QED
      BY <1>0, <2>1, <2>2, <3>1, HelperMoves, RunGoesOn DEF Working, PCs
  <2>3. CASE HelperGoes("undo_stop")
    BY <1>0, <2>1, <2>3, HelperMoves, RunGoesOn DEF Working, PCs
  <2> QED
    BY <1>3, <2>2, <2>3 DEF StartService
<1>4. CASE CheckHealth
  <2>1. /\ helper.pc = "health" /\ UNCHANGED <<request, status, service>>
    BY <1>4 DEF CheckHealth, HelperAt, onDisk
  <2>2. HelperGoes("mark") \/ HelperGoes("undo_stop")
    BY <1>4 DEF CheckHealth, AfterHealth
  <2>3. service'.version = Target
    BY <2>1 DEF StatusInv, Installed
  <2> QED
    BY <1>0, <2>1, <2>2, <2>3, HelperMoves, RunGoesOn DEF Working, PCs
<1>5. CASE WriteMarker
  <2>1. /\ helper.pc = "mark" /\ UNCHANGED <<request, status, service>>
    BY <1>5 DEF WriteMarker, HelperAt
  <2>2. HelperGoes("succeed") \/ HelperGoes("undo_stop")
    BY <1>5 DEF WriteMarker
  <2>3. service'.version = Target
    BY <2>1 DEF StatusInv, Installed
  <2> QED
    BY <1>0, <2>1, <2>2, <2>3, HelperMoves, RunGoesOn DEF Working, PCs
<1> QED
  BY <1>1, <1>2, <1>3, <1>4, <1>5, <1>6

(* Success: by the time it is written, marker, binary and service are what  *)
(* the update was to.                                                       *)
LEMMA SuccessTellsTrue ==
  ASSUME UpdateInv, StatusInv, Succeed \/ RemoveBackup \/ RemoveRequest
  PROVE  StatusInv'
<1>0. UpdateTyped /\ helper \in HelperStates /\ status \in StatusStates
  BY DEF UpdateInv, UpdateTyped
<1>1. CASE Succeed
  <2>1. /\ helper.pc = "succeed" /\ UNCHANGED <<request, service, marker, binary, halfUndone>>
    BY <1>1 DEF Succeed, HelperAt
  <2>2. CASE Set("succeeded", FALSE) /\ HelperGoes("clean")
    <3>1. helper'.pc = "clean" /\ Target' = Target
      BY <1>0, <2>2, HelperMoves DEF PCs
    <3>2. status'.state = "succeeded" /\ status'.target = Target /\ ~status'.rollback
      BY <2>2, SetSays
    <3>3. marker = Target /\ binary = Target /\ service.version = Target /\ request.version = Target
      BY <2>1 DEF UpdateInv, Stages, StatusInv, Installed, Progress, Working
    <3> QED
      BY <2>1, <3>1, <3>2, <3>3 DEF StatusInv, Progress, Installed, PutBack, OutcomeIsTrue, Working
  <2>3. CASE UNCHANGED status /\ HelperGoes("undo_stop")
    BY <1>0, <2>1, <2>3, HelperMoves, RunGoesOn DEF Working, PCs
  <2> QED
    BY <1>1, <2>2, <2>3 DEF Succeed
<1>2. CASE RemoveBackup \/ RemoveRequest
  <2>1. /\ helper'.pc \in {"finish", "idle"}
        /\ UNCHANGED <<service, status, marker, binary, halfUndone>>
    BY <1>0, <1>2, HelperMoves, HelperStops DEF RemoveBackup, RemoveRequest, PCs
  <2> QED
    BY <2>1 DEF StatusInv, Progress, Installed, PutBack, OutcomeIsTrue, Working
<1> QED
  BY <1>1, <1>2

(* The rollback counts as performed when no step of it has failed and the   *)
(* service is ready; then the binary and the marker are the older version.  *)
LEMMA RollbackTellsTrue ==
  ASSUME UpdateInv, StatusInv,
         UndoStop \/ UndoBinary \/ UndoMarker \/ UndoStart \/ UndoHealth \/ UndoEnds
  PROVE  StatusInv'
<1>0. UpdateTyped /\ helper \in HelperStates /\ status \in StatusStates /\ service \in ServiceStates
  BY DEF UpdateInv, UpdateTyped
<1>a. ASSUME NEW pc \in PCs, HelperGoes(pc)
      PROVE  helper'.pc = pc /\ helper'.undone = helper.undone /\ From' = From /\ Target' = Target
  <2>1. helper' = [target |-> helper.target, current |-> helper.current, file |-> helper.file,
                   undone |-> helper.undone, pc |-> pc]
    BY <1>0, <1>a DEF HelperGoes, HelperStates
  <2> QED
    BY <2>1 DEF From, Target
<1>b. ASSUME NEW pc \in PCs, helper' = [helper EXCEPT !.pc = pc, !.undone = FALSE]
      PROVE  helper'.pc = pc /\ helper'.undone = FALSE /\ From' = From /\ Target' = Target
  BY <1>0, <1>b DEF HelperStates, From, Target
<1>1. CASE UndoStop
  <2>1. helper.pc = "undo_stop" /\ HelperGoes("undo_binary") /\ UNCHANGED <<request, status>>
    BY <1>1 DEF UndoStop, HelperAt, onDisk
  <2> QED
    BY <1>0, <2>1, HelperMoves, RunGoesOn DEF Working, PCs
<1>2. CASE UndoBinary
  <2>1. helper.pc = "undo_binary" /\ UNCHANGED <<request, status>>
    BY <1>2 DEF UndoBinary, HelperAt
  <2>2. CASE HelperGoes("undo_marker")
    BY <1>0, <2>1, <2>2, HelperMoves, RunGoesOn DEF Working, PCs
  <2>3. CASE helper' = [helper EXCEPT !.pc = "undo_start", !.undone = FALSE]
    <3>1. helper'.pc = "undo_start" /\ helper'.undone = FALSE /\ Target' = Target
      BY <1>b, <2>3 DEF PCs
    <3>2. status.state # "succeeded"
      BY <2>1, ActiveIsOpen DEF StatusInv, Progress, Working
    <3> QED
      BY <2>1, <3>1, <3>2 DEF StatusInv, Progress, Installed, PutBack, OutcomeIsTrue, Working
  <2> QED
    BY <1>2, <2>2, <2>3 DEF UndoBinary
<1>3. CASE UndoMarker
  <2>1. helper.pc = "undo_marker" /\ UNCHANGED <<request, status, binary, halfUndone>>
    BY <1>3 DEF UndoMarker, HelperAt
  <2>2. /\ helper'.pc = "undo_start" /\ Target' = Target /\ From' = From
        /\ helper'.undone => marker' = From
    <3>1. CASE marker' = helper.current /\ HelperGoes("undo_start")
      BY <1>a, <3>1 DEF PCs, From
    <3>2. CASE helper' = [helper EXCEPT !.pc = "undo_start", !.undone = FALSE]
      BY <1>b, <3>2 DEF PCs
    <3> QED
      BY <1>3, <3>1, <3>2 DEF UndoMarker
  <2>3. ~halfUndone => binary = From
    BY <2>1 DEF UpdateInv, Saved
  <2>4. status.state # "succeeded"
    BY <2>1, ActiveIsOpen DEF StatusInv, Progress, Working
  <2> QED
    BY <2>1, <2>2, <2>3, <2>4 DEF StatusInv, Progress, Installed, PutBack, OutcomeIsTrue, Working
<1>4. CASE UndoStart
  <2>1. helper.pc = "undo_start" /\ UNCHANGED <<request, status, marker, binary, halfUndone>>
    BY <1>4 DEF UndoStart, HelperAt, onDisk
  <2>2. /\ helper'.pc \in {"undo_health", "undo_end"} /\ Target' = Target /\ From' = From
        /\ helper'.undone => helper.undone
    <3>1. CASE HelperGoes("undo_health")
      BY <1>a, <3>1 DEF PCs
    <3>2. CASE helper' = [helper EXCEPT !.pc = "undo_end", !.undone = FALSE]
      BY <1>b, <3>2 DEF PCs
    <3> QED
      BY <1>4, <3>1, <3>2 DEF UndoStart
  <2>3. status.state # "succeeded"
    BY <2>1, ActiveIsOpen DEF StatusInv, Progress, Working
  <2> QED
    BY <2>1, <2>2, <2>3 DEF StatusInv, Progress, Installed, PutBack, OutcomeIsTrue, Working
<1>5. CASE UndoHealth
  <2>1. helper.pc = "undo_health" /\ UNCHANGED <<service, request, marker, binary, halfUndone>>
    BY <1>5 DEF UndoHealth, HelperAt
  <2>2. PICK rollback \in {Undone(Serving), Undone(FALSE)} : Failed(rollback)
    BY <1>5 DEF UndoHealth
  <2>3. rollback => helper.undone /\ service.up
    BY <2>2 DEF Undone, Serving
  <2>4. helper'.pc = "finish"
    BY <1>a, <2>2 DEF Failed, FailApply, PCs
  <2>5. CASE Set("failed", rollback)
    <3>1. status'.state = "failed" /\ status'.target = Target /\ status'.rollback = rollback
      BY <2>5, SetSays
    <3>2. From < Target
      BY <2>1 DEF UpdateInv, Newer, Working
    <3>3. rollback /\ ~halfUndone => marker = From /\ binary = From
      BY <2>1, <2>3 DEF StatusInv, PutBack
    <3>4. OutcomeIsTrue'
      BY <2>1, <2>3, <3>1, <3>2, <3>3 DEF OutcomeIsTrue
    <3> QED
      BY <2>4, <3>4 DEF StatusInv, Progress, Installed, PutBack, Working
  <2>6. CASE UNCHANGED status
    <3>1. status'.state # "succeeded" /\ ~status'.rollback
      BY <2>1, <2>6, ActiveIsOpen DEF StatusInv, Progress, Working
    <3> QED
      BY <2>4, <3>1 DEF StatusInv, Progress, Installed, PutBack, OutcomeIsTrue, Working
  <2> QED
    BY <2>2, <2>5, <2>6 DEF Failed
<1>6. CASE UndoEnds
  <2>1. helper.pc = "undo_end" /\ Failed(FALSE)
    BY <1>6 DEF UndoEnds, HelperAt
  <2> QED
    BY <1>0, <2>1, FailureIsTrue DEF Working
<1> QED
  BY <1>1, <1>2, <1>3, <1>4, <1>5, <1>6

LEMMA StatusStep == ASSUME UpdateInv, StatusInv, [UpdateNext]_updateVars PROVE StatusInv'
<1>1. CASE UNCHANGED updateVars
  BY <1>1 DEF updateVars, onDisk, StatusInv, Progress, Installed, PutBack, OutcomeIsTrue, Working,
     From, Target
<1>2. CASE UpdateNext
  BY <1>2, OutsideTellsTrue, PreparationTellsTrue, InstallationTellsTrue, SuccessTellsTrue,
     RollbackTellsTrue DEF UpdateNext, Apply
<1> QED
  BY <1>1, <1>2

(* The status page is right about an outcome, after a success and after a   *)
(* rollback, and while an update is being installed says nothing else       *)
(* (apply.go:84-196, 300; manager.go:186-195).                              *)
THEOREM StatusIsRight == UpdateSpec => []StatusIsTrue
<1>1. UpdateInv /\ StatusInv => StatusIsTrue
  <2> SUFFICES ASSUME UpdateInv, StatusInv PROVE ProgressIsShown
    BY DEF StatusInv, StatusIsTrue
  <2> SUFFICES ASSUME helper.pc \in {"stop", "replace", "start_again", "restarting", "start", "health",
                                 "undo_stop"}
               PROVE  Active(Shown) /\ status.target = request.version
    BY DEF ProgressIsShown
  <2>1. Active(status.state) /\ request # NoRequest /\ status.target = request.version
    BY DEF UpdateInv, RequestIsHeld, StatusInv, Progress, Working
  <2> QED
    BY <2>1 DEF Shown
<1> QED
  BY <1>1, InvariantHolds, StatusStarts, StatusStep, PTL DEF UpdateSpec

(* A pending request is replaced by nobody: neither by a second             *)
(* administrator nor by the helper that works from it (manager.go:149).     *)
THEOREM RequestStays == UpdateSpec => RequestIsNotReplaced
<1>1. ASSUME [UpdateNext]_updateVars PROVE request # NoRequest => request' \in {request, NoRequest}
  <2>1. CASE UNCHANGED updateVars
    BY <2>1 DEF updateVars, onDisk
  <2>2. ASSUME NEW a \in Admins, Install(a) PROVE request # NoRequest => request' = request
    BY <2>2 DEF Install, NoConflict
  <2>3. CASE RemoveRequest
    BY <2>3 DEF RemoveRequest
  <2>4. CASE Apply /\ ~RemoveRequest
    BY <2>4 DEF Apply, ReadRequest, RequestRead, DownloadRelease, VerifyCandidate, PruneBackups, Backup,
       SayInstalling, StopService, ReplaceBinary, StartAgain, SayRestarting, StartService, CheckHealth,
       WriteMarker, Succeed, RemoveBackup, UndoStop, UndoBinary, UndoMarker, UndoStart, UndoHealth,
       UndoEnds, onDisk
  <2>5. CASE PublishRelease \/ StartHelper \/ Kill \/ Reboot \/ ServiceCrash
             \/ \E a \in Admins : FetchRelease(a)
    BY <2>5 DEF PublishRelease, StartHelper, Kill, Reboot, ServiceCrash, FetchRelease, onDisk
  <2> QED
    BY <1>1, <2>1, <2>2, <2>3, <2>4, <2>5 DEF UpdateNext
<1> QED
  BY <1>1, PTL DEF UpdateSpec, RequestIsNotReplaced
=============================================================================
