---------------------------- MODULE Credentials ----------------------------
(***************************************************************************)
(* The credentials and the status of an OAuth account: accountConfig        *)
(* (mailruntime/account.go), the status writes of synchronisation jobs and  *)
(* connection tests (mailruntime/sync.go, httpapi/account_handlers.go), and *)
(* the user's new authorisation (oauthflow/service.go,                      *)
(* httpapi/oauth_handlers.go).                                              *)
(*                                                                          *)
(* A token is a grant of the user and a rotation: the provider may answer a *)
(* refresh with a new refresh token and then no longer takes the old one.   *)
(***************************************************************************)
EXTENDS Integers, FiniteSets

CONSTANTS
  Callers,         \* goroutines that need the credentials: jobs, operations, requests
  Callbacks,       \* concurrent requests to the OAuth callback
  MaxGrants,       \* bound: authorisations, the account's first included
  MaxRotations,    \* bound: refresh tokens per grant
  MaxCalls,        \* bound: callers started, synchronisations the user asks for
  MaxCredFaults    \* bound: failed statements, lost answers, restarts of the service

Nobody == [nobody |-> TRUE]
ASSUME CredentialsAssumption ==
  /\ Nobody \notin Callers
  /\ {MaxGrants, MaxRotations} \subseteq Nat \ {0}
  /\ {MaxCalls, MaxCredFaults} \subseteq Nat

Grants == 1..MaxGrants
Tokens == Grants \X (1..MaxRotations)

VARIABLES
  account,         \* the accounts row: status, last_error_code, token
  current,         \* the provider: per grant, the rotation it takes, 0 before the grant
  revoked,         \* the provider: grants the user has withdrawn
  accountLock,     \* the caller that holds it, or Nobody
  caller,          \* per caller: what it does, the token it has read, its error
  discoverDue,     \* a discovery is queued
  marking,         \* syncAccount has queued it and not yet written its status
  states,          \* oauth_states: per grant still to come, "none", "issued" or "used"
  callback,        \* per callback: where it is and the state it was given
  exchanged,       \* history: exchanges per state
  stored,          \* history: the grant of the newest authorisation that was stored
  failedGrants,    \* history: grants of which a refresh or a write has failed or was cut off
  overlapped,      \* history: a caller was at work when that authorisation was stored
  calls, credFaults  \* so far (bounded)

provider == <<current, revoked>>
flow == <<states, callback, exchanged, stored, overlapped>>
credBounds == <<calls, credFaults>>
credVars == <<account, provider, accountLock, caller, discoverDue, marking, flow, failedGrants,
              credBounds>>

Foreground == {"discover", "sync"}
Background == {"reconcile", "backfill"}
Kinds == Foreground \cup Background \cup {"other", "test"}
Rotated(token) == <<token[1], token[2] + 1>>
IdleCaller == [at |-> "idle", kind |-> "other", token |-> <<1, 1>>, error |-> "none"]
IdleCallback == [at |-> "idle", state |-> 1]

CredInit ==
  /\ account = [status |-> "ready", code |-> "none", token |-> <<1, 1>>]
  /\ current = [g \in Grants |-> IF g = 1 THEN 1 ELSE 0] /\ revoked = {}
  /\ accountLock = Nobody /\ caller = [c \in Callers |-> IdleCaller]
  /\ discoverDue = TRUE /\ marking = FALSE
  /\ states = [g \in Grants |-> "none"] /\ callback = [k \in Callbacks |-> IdleCallback]
  /\ exchanged = [g \in Grants |-> 0] /\ stored = 1 /\ failedGrants = {} /\ overlapped = FALSE
  /\ calls = 0 /\ credFaults = 0

CredFault == credFaults < MaxCredFaults /\ credFaults' = credFaults + 1
Status(status, code) == account' = [account EXCEPT !.status = status, !.code = code]
Moves(c, at) == caller' = [caller EXCEPT ![c].at = at]
Works(c) ==
  caller' = [caller EXCEPT ![c] = [IdleCaller EXCEPT !.at = "connecting", !.kind = caller[c].kind]]
Fails(c, error) ==
  caller' = [caller EXCEPT ![c] = [IdleCaller EXCEPT !.at = "failed", !.kind = caller[c].kind,
                                                     !.error = error]]
Ends(c) == caller' = [caller EXCEPT ![c] = IdleCaller]
Busy(kinds) == \E c \in Callers : caller[c].at # "idle" /\ caller[c].kind \in kinds

-----------------------------------------------------------------------------
(* A caller starts.  The lanes let one foreground and one background job    *)
(* run (module SyncQueue); discoverAccount first writes 'syncing'.          *)
Start(c, kind) ==
  /\ caller[c].at = "idle" /\ calls < MaxCalls /\ calls' = calls + 1
  /\ kind \in Foreground => ~Busy(Foreground)
  /\ kind \in Background => ~Busy(Background)
  /\ IF kind = "discover" THEN discoverDue /\ discoverDue' = FALSE /\ Status("syncing", "none")
                          ELSE UNCHANGED <<discoverDue, account>>
  /\ caller' = [caller EXCEPT ![c] = [IdleCaller EXCEPT !.at = "locking", !.kind = kind]]
  /\ UNCHANGED <<provider, accountLock, marking, flow, failedGrants, credFaults>>

(* accountConfig: under the account's lock the row is read; its access      *)
(* token is good, or has expired and is refreshed.                          *)
LockIgnored == TRUE                  \* seeded fault: the account's lock is not taken
LockIsFree == accountLock = Nobody
ReadAccount(c) ==
  /\ caller[c].at = "locking" /\ LockIsFree
  /\ IF account.status = "reauth_required"
     THEN /\ Fails(c, IF account.code = "persist_failed" THEN "persist" ELSE "refresh")
          /\ UNCHANGED accountLock
     ELSE \/ Works(c) /\ UNCHANGED accountLock
          \/ /\ caller' = [caller EXCEPT ![c].at = "refreshing", ![c].token = account.token]
             /\ accountLock' = c
  /\ UNCHANGED <<account, provider, discoverDue, marking, flow, failedGrants, credBounds>>

(* RefreshToken: the provider answers with a new refresh token, or with an  *)
(* access token only; it refuses; or its answer is lost.                    *)
Accepted(token) == token[1] \notin revoked /\ current[token[1]] = token[2]
Rotate(token) ==
  /\ token[2] < MaxRotations /\ current' = [current EXCEPT ![token[1]] = token[2] + 1]
Refresh(c) ==
  LET token == caller[c].token IN
  /\ caller[c].at = "refreshing"
  /\ \/ /\ Accepted(token) /\ Rotate(token)
        /\ caller' = [caller EXCEPT ![c].at = "persisting", ![c].token = Rotated(token)]
        /\ UNCHANGED <<accountLock, failedGrants, credFaults>>
     \/ /\ Accepted(token) /\ Moves(c, "persisting")
        /\ UNCHANGED <<current, accountLock, failedGrants, credFaults>>
     \/ /\ ~Accepted(token) /\ Fails(c, "refresh") /\ accountLock' = Nobody
        /\ UNCHANGED <<current, failedGrants, credFaults>>
     \/ /\ CredFault /\ Fails(c, "refresh") /\ accountLock' = Nobody
        /\ failedGrants' = failedGrants \cup {token[1]}
        /\ (Accepted(token) /\ Rotate(token)) \/ UNCHANGED current
  /\ UNCHANGED <<account, revoked, discoverDue, marking, flow, calls>>

(* UpdateOAuthToken; if it fails the account asks for a new authorisation,  *)
(* if that can be written; if the token cannot be encrypted first, that is  *)
(* an error like any other.  Then the lock is released.                     *)
RefreshTokenLost(c) == account.token \* seeded fault: the old refresh token is written back
NewToken(c) == caller[c].token
Persist(c) ==
  /\ caller[c].at = "persisting" /\ accountLock' = Nobody
  /\ \/ /\ account' = [account EXCEPT !.token = NewToken(c)] /\ Works(c)
        /\ UNCHANGED <<failedGrants, credFaults>>
     \/ /\ CredFault /\ Fails(c, "persist")
        /\ failedGrants' = failedGrants \cup {caller[c].token[1]}
        /\ Status("reauth_required", "persist_failed") \/ UNCHANGED account
     \/ /\ CredFault /\ Fails(c, "other") /\ UNCHANGED account
        /\ failedGrants' = failedGrants \cup {caller[c].token[1]}
  /\ UNCHANGED <<provider, discoverDue, marking, flow, calls>>

(* runSyncJob, syncFolder, discoverAccount, testAccount: what a caller      *)
(* writes at its end.  With its credentials its work succeeds or fails for  *)
(* a reason of its own.  A failing background job shows only when the       *)
(* credentials are at fault.                                                *)
Outcomes(c) == IF caller[c].at = "connecting" THEN {"none", "other"} ELSE {caller[c].error}
Credential(error) == error \in {"refresh", "persist"}
Finish(c) ==
  LET kind == caller[c].kind IN
  /\ caller[c].at \in {"connecting", "failed"}
  /\ \E error \in Outcomes(c) :
       CASE error = "none" /\ kind \in {"discover", "sync", "reconcile", "test"} ->
              Status("ready", "none") /\ Ends(c)
         [] Credential(error) /\ kind \in Foreground \cup Background ->
              /\ Status("reauth_required",
                        IF error = "persist" THEN "persist_failed" ELSE "refresh_failed")
              /\ Ends(c)
         [] error = "other" /\ kind \in Foreground -> Status("error", "sync_failed") /\ Ends(c)
         [] error # "none" /\ kind = "test" /\ account.status # "reauth_required" ->
              Moves(c, "marking_error") /\ UNCHANGED account
         [] OTHER -> Ends(c) /\ UNCHANGED account
  /\ UNCHANGED <<provider, accountLock, discoverDue, marking, flow, failedGrants, credBounds>>

(* testAccount has looked at the status before it writes its own.           *)
MarkError(c) ==
  /\ caller[c].at = "marking_error" /\ Status("error", "connection_failed") /\ Ends(c)
  /\ UNCHANGED <<provider, accountLock, discoverDue, marking, flow, failedGrants, credBounds>>

(* syncAccount: queued first, marked afterwards.                            *)
SyncAccount ==
  /\ ~marking /\ calls < MaxCalls /\ calls' = calls + 1
  /\ discoverDue' = TRUE /\ marking' = TRUE
  /\ UNCHANGED <<account, provider, accountLock, caller, flow, failedGrants, credFaults>>
MarkSyncing ==
  /\ marking /\ marking' = FALSE /\ Status("syncing", "none")
  /\ UNCHANGED <<provider, accountLock, caller, discoverDue, flow, failedGrants, credBounds>>

-----------------------------------------------------------------------------
(* The user authorises the account again.  Begin stores a state ...         *)
Begin(g) ==
  /\ g # 1 /\ states[g] = "none" /\ \A h \in 2..(g - 1) : states[h] # "none"
  /\ states' = [states EXCEPT ![g] = "issued"]
  /\ UNCHANGED <<account, provider, accountLock, caller, discoverDue, marking, callback, exchanged,
                 stored, overlapped, failedGrants, credBounds>>

(* ... which a callback uses up, if it is the first to bring it (a browser  *)
(* may repeat the request) and brings it in time ...                        *)
AnyState(g) == states[g] # "none"    \* seeded fault: used_at is not looked at
Unused(g) == states[g] = "issued"
Consume(k, g) ==
  /\ callback[k].at = "idle" /\ Unused(g)
  /\ states' = [states EXCEPT ![g] = "used"]
  /\ callback' = [callback EXCEPT ![k] = [at |-> "exchanging", state |-> g]]
  /\ UNCHANGED <<account, provider, accountLock, caller, discoverDue, marking, exchanged, stored,
                 overlapped, failedGrants, credBounds>>

(* ... exchanges its code for a token ...                                   *)
Exchange(k) ==
  LET g == callback[k].state IN
  /\ callback[k].at = "exchanging" /\ exchanged' = [exchanged EXCEPT ![g] = @ + 1]
  /\ \/ /\ current' = [current EXCEPT ![g] = 1]
        /\ callback' = [callback EXCEPT ![k].at = "storing"] /\ UNCHANGED credFaults
     \/ /\ CredFault /\ callback' = [callback EXCEPT ![k] = IdleCallback]
        /\ UNCHANGED current
  /\ UNCHANGED <<account, revoked, accountLock, caller, discoverDue, marking, states, stored,
                 overlapped, failedGrants, calls>>

(* ... and ReplaceOAuthToken stores it, without the account's lock, and     *)
(* TriggerSync queues a discovery.                                          *)
Store(k) ==
  LET g == callback[k].state IN
  /\ callback[k].at = "storing" /\ callback' = [callback EXCEPT ![k] = IdleCallback]
  /\ \/ /\ account' = [status |-> "pending", code |-> "none", token |-> <<g, 1>>]
        /\ stored' = g /\ discoverDue' = TRUE /\ UNCHANGED credFaults
        /\ overlapped' = \E c \in Callers : caller[c].at # "idle"
     \/ CredFault /\ UNCHANGED <<account, stored, discoverDue, overlapped>>
  /\ UNCHANGED <<provider, accountLock, caller, marking, states, exchanged, failedGrants, calls>>

-----------------------------------------------------------------------------
(* The user withdraws a grant at the provider.                              *)
Revoke(g) ==
  /\ current[g] # 0 /\ revoked' = revoked \cup {g} /\ revoked' # revoked
  /\ UNCHANGED <<account, current, accountLock, caller, discoverDue, marking, flow, failedGrants,
                 credBounds>>

(* The service stops; at the start every account is discovered.             *)
Restarted ==
  /\ CredFault
  /\ failedGrants' = failedGrants \cup
       {caller[c].token[1] : c \in {c \in Callers : caller[c].at = "persisting"}}
  /\ accountLock' = Nobody /\ caller' = [c \in Callers |-> IdleCaller]
  /\ callback' = [k \in Callbacks |-> IdleCallback]
  /\ discoverDue' = TRUE /\ marking' = FALSE
  /\ UNCHANGED <<account, provider, states, exchanged, stored, overlapped, calls>>

Call(c) ==
  \/ ReadAccount(c) \/ Refresh(c) \/ Persist(c) \/ Finish(c) \/ MarkError(c)
  \/ \E kind \in Kinds : Start(c, kind)

CredNext ==
  \/ SyncAccount \/ MarkSyncing \/ Restarted
  \/ \E c \in Callers : Call(c)
  \/ \E g \in Grants : Begin(g) \/ Revoke(g)
  \/ \E k \in Callbacks : Exchange(k) \/ Store(k) \/ \E g \in Grants : Consume(k, g)

CredSpec == CredInit /\ [][CredNext]_credVars

-----------------------------------------------------------------------------
(* Types; the lock is held exactly while a token is refreshed and written.  *)
CredTypeOK ==
  /\ account \in [status : {"pending", "syncing", "ready", "error", "reauth_required"},
                  code : {"none", "refresh_failed", "persist_failed", "sync_failed",
                          "connection_failed"}, token : Tokens]
  /\ current \in [Grants -> 0..MaxRotations] /\ revoked \subseteq Grants
  /\ caller \in [Callers -> [at : {"idle", "locking", "refreshing", "persisting", "connecting",
                                   "failed", "marking_error"},
                             kind : Kinds, token : Tokens,
                             error : {"none", "other", "refresh", "persist"}]]
  /\ \A c \in Callers : caller[c].at \in {"refreshing", "persisting"} <=> accountLock = c
  /\ callback \in [Callbacks -> [at : {"idle", "exchanging", "storing"}, state : Grants]]
  /\ discoverDue \in BOOLEAN /\ marking \in BOOLEAN

(* Nobody at work, the stored token is the newest authorisation's and the   *)
(* one the provider takes: a rotated refresh token is not lost and not      *)
(* overwritten by an older one (account.go:81-117).  Except for a grant of  *)
(* which a refresh or a write has failed, and for an authorisation stored   *)
(* while a caller was at work: Persist then writes over it.                 *)
GrantIsKept ==
  accountLock = Nobody /\ ~overlapped =>
    /\ account.token[1] = stored
    /\ account.token[1] \in failedGrants \/ current[stored] = account.token[2]

(* The user is asked to authorise again for a reason: the grant was         *)
(* withdrawn, or one of its refreshes or writes failed (account.go:84-116,  *)
(* sync.go:270-287); same exception.                                        *)
ReauthIsForAReason ==
  account.status = "reauth_required" /\ ~overlapped => stored \in revoked \cup failedGrants

(* A state is good for one exchange (oauthflow/service.go:184-207).         *)
StatesWorkOnce == \A g \in Grants : exchanged[g] <= 1

CredentialsAreSound == GrantIsKept /\ ReauthIsForAReason /\ StatesWorkOnce

(* Without the exception: a new authorisation is not undone by a caller     *)
(* that had read the one before.  The code does not hold this.              *)
AuthorisationSticks == accountLock = Nobody => account.token[1] = stored
=============================================================================
