------------------------------ MODULE Services ------------------------------
(***************************************************************************)
(* The six services beside synchronisation, outbox and operations: change   *)
(* events, attachment cache, session pool, credentials, self-update and the *)
(* administrator's login.  They share no state, so a behaviour runs one of  *)
(* them, `part`, and leaves the others at their start.                      *)
(***************************************************************************)
EXTENDS EventHub, AttachmentCache, SessionPool, Credentials, Updater, Auth

VARIABLE part
Parts == {"events", "cache", "sessions", "credentials", "update", "login"}

servicesVars == <<part, hubVars, cacheVars, poolVars, credVars, updateVars, authVars>>

ServicesInit ==
  /\ part \in Parts
  /\ HubInit /\ CacheInit /\ PoolInit /\ CredInit /\ UpdateInit /\ AuthInit

ServicesNext ==
  \/ /\ part = "events" /\ HubNext
     /\ UNCHANGED <<part, cacheVars, poolVars, credVars, updateVars, authVars>>
  \/ /\ part = "cache" /\ CacheNext
     /\ UNCHANGED <<part, hubVars, poolVars, credVars, updateVars, authVars>>
  \/ /\ part = "sessions" /\ PoolNext
     /\ UNCHANGED <<part, hubVars, cacheVars, credVars, updateVars, authVars>>
  \/ /\ part = "credentials" /\ CredNext
     /\ UNCHANGED <<part, hubVars, cacheVars, poolVars, updateVars, authVars>>
  \/ /\ part = "update" /\ UpdateNext
     /\ UNCHANGED <<part, hubVars, cacheVars, poolVars, credVars, authVars>>
  \/ /\ part = "login" /\ AuthNext
     /\ UNCHANGED <<part, hubVars, cacheVars, poolVars, credVars, updateVars>>

(* The fairness of EventHub and Updater; the others state no liveness.      *)
ServicesSpec ==
  /\ ServicesInit /\ [][ServicesNext]_servicesVars
  /\ \A t \in Topics : WF_hubVars(part = "events" /\ Publish(t))
  /\ \A b \in Browsers : WF_hubVars(part = "events" /\ Listen(b))
  /\ WF_updateVars(part = "update" /\ StartHelper)
  /\ WF_updateVars(part = "update" /\ Apply)

(* The part that runs is well typed.                                        *)
ServicesTypeOK ==
  /\ part \in Parts
  /\ part = "events" => HubTypeOK
  /\ part = "cache" => CacheTypeOK
  /\ part = "sessions" => PoolTypeOK
  /\ part = "credentials" => CredTypeOK
  /\ part = "update" => UpdateTypeOK
  /\ part = "login" => AuthTypeOK
=============================================================================
