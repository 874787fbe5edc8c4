-------------------------- MODULE Credentials_proofs --------------------------
(***************************************************************************)
(* Proofs about module Credentials: for any number of callers, callbacks,   *)
(* grants and rotations, the newest authorisation and its refresh token are *)
(* kept, the user is asked for a new one for a reason, and a state is good  *)
(* for one exchange.                                                        *)
(***************************************************************************)
EXTENDS Credentials, TLAPS

-----------------------------------------------------------------------------
(* The inductive invariant.  Types; the lock is held exactly while a token  *)
(* is refreshed and written.                                                *)
AccountStatuses == {"pending", "syncing", "ready", "error", "reauth_required"}
ErrorCodes == {"none", "refresh_failed", "persist_failed", "sync_failed", "connection_failed"}
CallerPlaces == {"idle", "locking", "refreshing", "persisting", "connecting", "failed",
                 "marking_error"}
Errors == {"none", "other", "refresh", "persist"}
Accounts == [status : AccountStatuses, code : ErrorCodes, token : Tokens]
CallerStates == [at : CallerPlaces, kind : Kinds, token : Tokens, error : Errors]
CallbackStates == [at : {"idle", "exchanging", "storing"}, state : Grants]
HoldsLock(c) == caller[c].at \in {"refreshing", "persisting"}

CredTyped ==
  /\ account \in Accounts /\ caller \in [Callers -> CallerStates]
  /\ current \in [Grants -> 0..MaxRotations] /\ revoked \subseteq Grants
  /\ callback \in [Callbacks -> CallbackStates]
  /\ states \in [Grants -> {"none", "issued", "used"}] /\ exchanged \in [Grants -> Nat]
  /\ stored \in Grants /\ failedGrants \subseteq Grants
  /\ discoverDue \in BOOLEAN /\ marking \in BOOLEAN /\ overlapped \in BOOLEAN
LockIsRight == \A c \in Callers : HoldsLock(c) <=> accountLock = c

(* A state that was not brought back, or whose callback is not done, stands *)
(* for a grant that nobody has a token of yet; a callback has its state for *)
(* itself.                                                                  *)
Awaited(g) == states[g] = "issued" \/ (states[g] = "none" /\ g # 1)
Unknown(g) ==
  /\ g # stored /\ g # account.token[1]
  /\ \A c \in Callers : HoldsLock(c) => g # caller[c].token[1]
CallbackIsValid(k) ==
  callback[k].at # "idle" =>
    /\ states[callback[k].state] = "used" /\ Unknown(callback[k].state)
    /\ callback[k].at = "exchanging" => exchanged[callback[k].state] = 0
    /\ callback[k].at = "storing" => current[callback[k].state] = 1
StatesInv ==
  /\ \A g \in Grants : (Awaited(g) => Unknown(g)) /\ (states[g] # "used" => exchanged[g] = 0)
  /\ states[1] = "none" /\ StatesWorkOnce
  /\ \A k \in Callbacks : CallbackIsValid(k)
  /\ \A k, l \in Callbacks :
       k # l /\ callback[k].at # "idle" /\ callback[l].at # "idle" =>
         callback[k].state # callback[l].state

(* Unless the newest authorisation was stored while a caller was at work:   *)
(* a caller that refreshes has read its token, a caller that writes has the *)
(* rotation the provider takes, and with no caller writing the account has. *)
InReason == stored \in revoked \cup failedGrants
TakenNow(token) == stored \in failedGrants \/ current[stored] = token[2]
CallerIsTrue(c) ==
  /\ caller[c].at = "refreshing" => caller[c].token = account.token
  /\ caller[c].at = "persisting" => caller[c].token[1] = stored /\ TakenNow(caller[c].token)
  /\ caller[c].at = "failed" /\ Credential(caller[c].error) => InReason
Writing == \E c \in Callers : caller[c].at = "persisting"
GrantInv ==
  ~overlapped =>
    /\ account.token[1] = stored /\ (Writing \/ TakenNow(account.token))
    /\ account.status = "reauth_required" => InReason
    /\ \A c \in Callers : CallerIsTrue(c)

CredInv == CredTyped /\ LockIsRight /\ StatesInv /\ GrantInv

-----------------------------------------------------------------------------
(* Lemmas about the model's operators: what each does to the account, to    *)
(* the caller that takes the step, and that it moves no other caller.       *)
OtherCallersStay(c) == caller' \in [Callers -> CallerStates] /\ \A d \in Callers \ {c} : caller'[d] = caller[d]

LEMMA CredConstants ==
  /\ MaxGrants \in Nat /\ MaxGrants >= 1 /\ MaxRotations \in Nat /\ MaxRotations >= 1
  /\ 1 \in Grants /\ <<1, 1>> \in Tokens /\ Nobody \notin Callers /\ Grants \subseteq Nat
BY CredentialsAssumption DEF Grants, Tokens

LEMMA TokenParts ==
  ASSUME NEW token \in Tokens
  PROVE  /\ token[1] \in Grants /\ token[2] \in 1..MaxRotations /\ token = <<token[1], token[2]>>
BY DEF Tokens

LEMMA IdleFacts ==
  /\ IdleCaller \in CallerStates /\ IdleCaller.at = "idle"
  /\ IdleCallback \in CallbackStates /\ IdleCallback.at = "idle"
BY CredConstants DEF IdleCaller, CallerStates, CallerPlaces, Kinds, Foreground, Background, Errors,
                     IdleCallback, CallbackStates

LEMMA CallerTypes ==
  ASSUME CredTyped, NEW c \in Callers
  PROVE  /\ caller[c] \in CallerStates /\ caller[c].token \in Tokens /\ caller[c].kind \in Kinds
         /\ caller[c].at \in CallerPlaces /\ caller[c].error \in Errors
<1>1. caller[c] \in CallerStates
  BY DEF CredTyped
<1> QED
  BY <1>1 DEF CallerStates

LEMMA AccountTypes ==
  ASSUME CredTyped
  PROVE  account \in Accounts /\ account.token \in Tokens /\ account.status \in AccountStatuses
<1>1. account \in Accounts
  BY DEF CredTyped
<1> QED
  BY <1>1 DEF Accounts

LEMMA CallerReplaced ==
  ASSUME CredTyped, NEW c \in Callers, NEW s \in CallerStates, caller' = [caller EXCEPT ![c] = s]
  PROVE  OtherCallersStay(c) /\ caller'[c] = s
BY DEF CredTyped, OtherCallersStay

LEMMA CallerMoves ==
  ASSUME CredTyped, NEW c \in Callers, NEW at \in CallerPlaces, Moves(c, at)
  PROVE  /\ OtherCallersStay(c) /\ caller'[c].at = at /\ caller'[c].token = caller[c].token
         /\ caller'[c].error = caller[c].error
<1> DEFINE s == [caller[c] EXCEPT !.at = at]
<1>1. /\ s \in CallerStates /\ s.at = at /\ s.token = caller[c].token /\ s.error = caller[c].error
  BY DEF CredTyped, CallerStates
<1>2. caller' = [caller EXCEPT ![c] = s]
  BY DEF Moves
<1> HIDE DEF s
<1> QED
  BY <1>1, <1>2, CallerReplaced

LEMMA CallerWorks ==
  ASSUME CredTyped, NEW c \in Callers, Works(c)
  PROVE  OtherCallersStay(c) /\ caller'[c].at = "connecting"
<1> DEFINE s == [IdleCaller EXCEPT !.at = "connecting", !.kind = caller[c].kind]
<1>1. caller[c].kind \in Kinds /\ "connecting" \in CallerPlaces
  BY CallerTypes DEF CallerPlaces
<1>2. s.at = "connecting" /\ s \in CallerStates
  BY <1>1, IdleFacts DEF CallerStates
<1>3. caller' = [caller EXCEPT ![c] = s]
  BY DEF Works
<1> HIDE DEF s
<1> QED
  BY <1>2, <1>3, CallerReplaced

LEMMA CallerFails ==
  ASSUME CredTyped, NEW c \in Callers, NEW error \in Errors, Fails(c, error)
  PROVE  OtherCallersStay(c) /\ caller'[c].at = "failed" /\ caller'[c].error = error
<1> DEFINE s == [IdleCaller EXCEPT !.at = "failed", !.kind = caller[c].kind, !.error = error]
<1>1. caller[c].kind \in Kinds /\ "failed" \in CallerPlaces /\ error \in Errors
  BY CallerTypes DEF CallerPlaces
<1>2. s.at = "failed" /\ s.error = error /\ s \in CallerStates
  BY <1>1, IdleFacts DEF CallerStates
<1>3. caller' = [caller EXCEPT ![c] = s]
  BY DEF Fails
<1> HIDE DEF s
<1> QED
  BY <1>2, <1>3, CallerReplaced

LEMMA CallerEnds ==
  ASSUME CredTyped, NEW c \in Callers, Ends(c)
  PROVE  OtherCallersStay(c) /\ caller'[c].at = "idle"
<1>1. OtherCallersStay(c) /\ caller'[c] = IdleCaller
  BY IdleFacts, CallerReplaced DEF Ends
<1> QED
  BY <1>1, IdleFacts

LEMMA CallerStarts ==
  ASSUME CredTyped, NEW c \in Callers, NEW kind \in Kinds, Start(c, kind)
  PROVE  OtherCallersStay(c) /\ caller'[c].at = "locking"
<1> DEFINE s == [IdleCaller EXCEPT !.at = "locking", !.kind = kind]
<1>1. "locking" \in CallerPlaces
  BY DEF CallerPlaces
<1>2. s.at = "locking" /\ s \in CallerStates
  BY <1>1, IdleFacts DEF CallerStates
<1>3. caller' = [caller EXCEPT ![c] = s]
  BY DEF Start
<1> HIDE DEF s
<1> QED
  BY <1>2, <1>3, CallerReplaced

LEMMA CallerTakes ==
  ASSUME CredTyped, NEW c \in Callers, NEW at \in CallerPlaces, NEW token \in Tokens,
         caller' = [caller EXCEPT ![c].at = at, ![c].token = token]
  PROVE  OtherCallersStay(c) /\ caller'[c].at = at /\ caller'[c].token = token
<1> DEFINE s == [caller[c] EXCEPT !.at = at, !.token = token]
<1>1. caller[c] \in CallerStates
  BY CallerTypes
<1>2. s.at = at /\ s.token = token /\ s \in CallerStates
  BY <1>1 DEF CallerStates
<1>3. caller' = [caller EXCEPT ![c] = s]
  BY <1>1 DEF CredTyped, CallerStates
<1> HIDE DEF s
<1> QED
  BY <1>2, <1>3, CallerReplaced

LEMMA StatusWritten ==
  ASSUME CredTyped, NEW status \in AccountStatuses, NEW code \in ErrorCodes, Status(status, code)
  PROVE  account' \in Accounts /\ account'.status = status /\ account'.token = account.token
<1>1. account \in Accounts
  BY DEF CredTyped
<1>2. account'.status = status /\ account'.token = account.token /\ account' \in Accounts
  BY <1>1 DEF Status, Accounts
<1> QED
  BY <1>2

LEMMA TokenWritten ==
  ASSUME CredTyped, NEW token \in Tokens, account' = [account EXCEPT !.token = token]
  PROVE  account' \in Accounts /\ account'.status = account.status /\ account'.token = token
<1>1. account \in Accounts
  BY DEF CredTyped
<1> QED
  BY <1>1 DEF Accounts

-----------------------------------------------------------------------------
(* What each step of a caller does, in those terms.  A quiet step neither   *)
(* takes nor gives back the lock and has nothing to do with the provider.   *)
ReasonToAsk(c) ==
  account.status = "reauth_required" \/ (caller[c].at = "failed" /\ Credential(caller[c].error))
QuietStep(c) ==
  /\ OtherCallersStay(c) /\ ~HoldsLock(c) /\ caller'[c].at \notin {"refreshing", "persisting"}
  /\ account' \in Accounts /\ account'.token = account.token
  /\ account'.status = "reauth_required" => ReasonToAsk(c)
  /\ caller'[c].at = "failed" => account.status = "reauth_required"
  /\ UNCHANGED <<accountLock, provider, flow, failedGrants>>
TakesLock(c) ==
  /\ OtherCallersStay(c) /\ ~HoldsLock(c) /\ accountLock = Nobody /\ accountLock' = c
  /\ caller'[c].at = "refreshing" /\ caller'[c].token = account.token
  /\ UNCHANGED <<account, provider, flow, failedGrants>>

LEMMA StartFacts ==
  ASSUME CredTyped, NEW c \in Callers, NEW kind \in Kinds, Start(c, kind)
  PROVE  QuietStep(c) /\ discoverDue' \in BOOLEAN /\ UNCHANGED marking
<1>1. OtherCallersStay(c) /\ caller'[c].at = "locking"
  BY CallerStarts
<1>2. caller[c].at = "idle" /\ UNCHANGED <<accountLock, provider, flow, failedGrants, marking>>
  BY DEF Start
<1>3. /\ account' \in Accounts /\ account'.token = account.token /\ discoverDue' \in BOOLEAN
      /\ account'.status = "reauth_required" => account.status = "reauth_required"
  <2>1. CASE kind = "discover"
    <3>1. Status("syncing", "none") /\ discoverDue' = FALSE
      BY <2>1 DEF Start
    <3> QED
      BY <3>1, StatusWritten DEF AccountStatuses, ErrorCodes
  <2>2. CASE kind # "discover"
    <3>1. UNCHANGED <<account, discoverDue>>
      BY <2>2 DEF Start
    <3> QED
      BY <3>1 DEF CredTyped
  <2> QED
    BY <2>1, <2>2
<1> QED
  BY <1>1, <1>2, <1>3 DEF QuietStep, HoldsLock, ReasonToAsk

LEMMA ReadFacts ==
  ASSUME CredTyped, NEW c \in Callers, ReadAccount(c)
  PROVE  /\ QuietStep(c) \/ TakesLock(c)
         /\ UNCHANGED <<account, discoverDue, marking>> /\ caller[c].at = "locking"
<1>1. /\ UNCHANGED <<account, provider, flow, failedGrants, discoverDue, marking>>
      /\ accountLock = Nobody /\ caller[c].at = "locking"
  BY DEF ReadAccount, LockIsFree
<1>2. account' \in Accounts
  BY <1>1, AccountTypes
<1>3. CASE account.status = "reauth_required"
  <2>1. PICK error \in {"refresh", "persist"} : Fails(c, error)
    BY <1>3 DEF ReadAccount
  <2>2. OtherCallersStay(c) /\ caller'[c].at = "failed" /\ UNCHANGED accountLock
    BY <1>3, <2>1, CallerFails DEF ReadAccount, Errors
  <2> QED
    BY <1>1, <1>2, <1>3, <2>2 DEF QuietStep, HoldsLock, ReasonToAsk
<1>4. CASE Works(c) /\ UNCHANGED accountLock
  <2>1. OtherCallersStay(c) /\ caller'[c].at = "connecting"
    BY <1>4, CallerWorks
  <2> QED
    BY <1>1, <1>2, <1>4, <2>1 DEF QuietStep, HoldsLock, ReasonToAsk
<1>5. CASE /\ caller' = [caller EXCEPT ![c].at = "refreshing", ![c].token = account.token]
           /\ accountLock' = c
  <2>1. "refreshing" \in CallerPlaces /\ account.token \in Tokens
    BY AccountTypes DEF CallerPlaces
  <2>2. OtherCallersStay(c) /\ caller'[c].at = "refreshing" /\ caller'[c].token = account.token
    BY <1>5, <2>1, CallerTakes
  <2> QED
    BY <1>1, <1>5, <2>2 DEF TakesLock, HoldsLock
<1> QED
  BY <1>3, <1>4, <1>5 DEF ReadAccount

LEMMA FinishFacts ==
  ASSUME CredTyped, NEW c \in Callers, Finish(c) \/ MarkError(c)
  PROVE  QuietStep(c) /\ UNCHANGED <<discoverDue, marking>>
<1>1. /\ UNCHANGED <<accountLock, provider, flow, failedGrants, discoverDue, marking>>
      /\ caller[c].at \in {"connecting", "failed", "marking_error"}
  BY DEF Finish, MarkError
<1>2. /\ \/ Ends(c) \/ Moves(c, "marking_error")
      /\ \/ UNCHANGED account
         \/ Status("ready", "none") \/ Status("error", "sync_failed")
         \/ Status("error", "connection_failed")
         \/ /\ caller[c].at = "failed" /\ Credential(caller[c].error)
            /\ \/ Status("reauth_required", "persist_failed")
               \/ Status("reauth_required", "refresh_failed")
  <2>1. CASE MarkError(c)
    BY <2>1 DEF MarkError
  <2>2. CASE Finish(c)
    <3> DEFINE kind == caller[c].kind
    <3>1. caller[c].at \in {"connecting", "failed"}
      BY <2>2 DEF Finish
    <3>2. PICK error \in Outcomes(c) :
       CASE error = "none" /\ kind \in {"discover", "sync", "reconcile", "test"} ->
              Status("ready", "none") /\ Ends(c)
         [] Credential(error) /\ kind \in Foreground \cup Background ->
              /\ Status("reauth_required",
                        IF error = "persist" THEN "persist_failed" ELSE "refresh_failed")
              /\ Ends(c)
         [] error = "other" /\ kind \in Foreground -> Status("error", "sync_failed") /\ Ends(c)
         [] error # "none" /\ kind = "test" /\ account.status # "reauth_required" ->
              Moves(c, "marking_error") /\ UNCHANGED account
         [] OTHER -> Ends(c) /\ UNCHANGED account
      BY <2>2 DEF Finish
    <3>3. Credential(error) => caller[c].at = "failed" /\ error = caller[c].error
      BY <3>1, <3>2 DEF Outcomes, Credential
    <3> QED
      BY <3>2, <3>3
  <2> QED
    BY <2>1, <2>2
<1>3. OtherCallersStay(c) /\ caller'[c].at \in {"idle", "marking_error"}
  BY <1>2, CallerEnds, CallerMoves DEF CallerPlaces
<1>4. /\ account' \in Accounts /\ account'.token = account.token
      /\ account'.status = "reauth_required" => ReasonToAsk(c)
  <2>1. CASE UNCHANGED account
    BY <2>1, AccountTypes DEF ReasonToAsk
  <2>2. CASE \/ Status("ready", "none") \/ Status("error", "sync_failed")
             \/ Status("error", "connection_failed")
    BY <2>2, StatusWritten DEF AccountStatuses, ErrorCodes
  <2>3. CASE /\ caller[c].at = "failed" /\ Credential(caller[c].error)
             /\ \/ Status("reauth_required", "persist_failed")
                \/ Status("reauth_required", "refresh_failed")
    BY <2>3, StatusWritten DEF AccountStatuses, ErrorCodes, ReasonToAsk
  <2> QED
    BY <1>2, <2>1, <2>2, <2>3
<1> QED
  BY <1>1, <1>3, <1>4 DEF QuietStep, HoldsLock

(* A refresh ends with the rotation the provider takes, or is refused, or   *)
(* its answer is lost.                                                      *)
Refreshes(c) ==
  LET token == caller[c].token IN
  /\ OtherCallersStay(c) /\ caller[c].at = "refreshing"
  /\ current' \in [Grants -> 0..MaxRotations]
  /\ \A g \in Grants \ {token[1]} : current'[g] = current[g]
  /\ UNCHANGED <<account, revoked, flow>>
  /\ \/ /\ caller'[c].at = "persisting" /\ caller'[c].token[1] = token[1]
        /\ current'[token[1]] = caller'[c].token[2] /\ UNCHANGED <<accountLock, failedGrants>>
     \/ /\ caller'[c].at = "failed" /\ accountLock' = Nobody
        /\ ~Accepted(token) /\ UNCHANGED <<current, failedGrants>>
     \/ /\ caller'[c].at = "failed" /\ accountLock' = Nobody
        /\ failedGrants' = failedGrants \cup {token[1]}

LEMMA RefreshFacts ==
  ASSUME CredTyped, NEW c \in Callers, Refresh(c)
  PROVE  Refreshes(c) /\ UNCHANGED <<discoverDue, marking>>
<1> DEFINE token == caller[c].token
<1>1. /\ caller[c].at = "refreshing" /\ UNCHANGED <<account, revoked, flow, discoverDue, marking>>
  BY DEF Refresh
<1>2. /\ token \in Tokens /\ token[1] \in Grants /\ token[2] \in 1..MaxRotations
      /\ current \in [Grants -> 0..MaxRotations] /\ MaxRotations \in Nat
  BY CallerTypes, TokenParts, CredConstants DEF CredTyped
<1>3. "persisting" \in CallerPlaces
  BY DEF CallerPlaces
<1>4. CASE /\ Accepted(token) /\ Rotate(token)
           /\ caller' = [caller EXCEPT ![c].at = "persisting", ![c].token = Rotated(token)]
           /\ UNCHANGED <<accountLock, failedGrants, credFaults>>
  <2> DEFINE new == <<token[1], token[2] + 1>>
  <2>1. token[2] < MaxRotations /\ current' = [current EXCEPT ![token[1]] = token[2] + 1]
    BY <1>4 DEF Rotate
  <2> HIDE DEF token
  <2>2. new \in Tokens /\ Rotated(token) = new /\ new[1] = token[1] /\ new[2] = token[2] + 1
    BY <1>2, <2>1 DEF Tokens, Rotated
  <2>3. /\ current' \in [Grants -> 0..MaxRotations] /\ current'[token[1]] = new[2]
        /\ \A g \in Grants \ {token[1]} : current'[g] = current[g]
    BY <1>2, <2>1, <2>2
  <2> HIDE DEF new
  <2>4. OtherCallersStay(c) /\ caller'[c].at = "persisting" /\ caller'[c].token = new
    BY <1>3, <1>4, <2>2, CallerTakes, ZenonT(30) DEF token
  <2> QED
    BY <1>1, <1>4, <2>2, <2>3, <2>4 DEF Refreshes, token
<1>5. CASE /\ Accepted(token) /\ Moves(c, "persisting")
           /\ UNCHANGED <<current, accountLock, failedGrants, credFaults>>
  <2>1. OtherCallersStay(c) /\ caller'[c].at = "persisting" /\ caller'[c].token = token
    BY <1>3, <1>5, CallerMoves
  <2> QED
    BY <1>1, <1>2, <1>5, <2>1 DEF Refreshes, Accepted
<1>6. CASE /\ ~Accepted(token) /\ Fails(c, "refresh") /\ accountLock' = Nobody
           /\ UNCHANGED <<current, failedGrants, credFaults>>
  <2>1. OtherCallersStay(c) /\ caller'[c].at = "failed"
    BY <1>6, CallerFails DEF Errors
  <2> QED
    BY <1>1, <1>2, <1>6, <2>1 DEF Refreshes
<1>7. CASE /\ CredFault /\ Fails(c, "refresh") /\ accountLock' = Nobody
           /\ failedGrants' = failedGrants \cup {token[1]}
           /\ (Accepted(token) /\ Rotate(token)) \/ UNCHANGED current
  <2>1. OtherCallersStay(c) /\ caller'[c].at = "failed"
    BY <1>7, CallerFails DEF Errors
  <2>2. /\ current' \in [Grants -> 0..MaxRotations]
        /\ \A g \in Grants \ {token[1]} : current'[g] = current[g]
    <3>1. CASE Rotate(token)
      <4>1. token[2] < MaxRotations /\ current' = [current EXCEPT ![token[1]] = token[2] + 1]
        BY <3>1 DEF Rotate
      <4> HIDE DEF token
      <4> QED
        BY <1>2, <4>1
    <3>2. CASE UNCHANGED current
      BY <1>2, <3>2
    <3> QED
      BY <1>7, <3>1, <3>2
  <2> QED
    BY <1>1, <1>7, <2>1, <2>2 DEF Refreshes
<1> QED
  BY <1>4, <1>5, <1>6, <1>7 DEF Refresh

Persists(c) ==
  /\ OtherCallersStay(c) /\ caller[c].at = "persisting" /\ accountLock' = Nobody /\ account' \in Accounts
  /\ UNCHANGED <<provider, flow>>
  /\ \/ /\ caller'[c].at = "connecting" /\ UNCHANGED failedGrants
        /\ account'.token = caller[c].token /\ account'.status = account.status
     \/ /\ caller'[c].at = "failed" /\ account'.token = account.token
        /\ failedGrants' = failedGrants \cup {caller[c].token[1]}

LEMMA PersistFacts ==
  ASSUME CredTyped, NEW c \in Callers, Persist(c)
  PROVE  Persists(c) /\ UNCHANGED <<discoverDue, marking>>
<1>1. /\ caller[c].at = "persisting" /\ accountLock' = Nobody
      /\ UNCHANGED <<provider, flow, discoverDue, marking>>
  BY DEF Persist
<1>2. caller[c].token \in Tokens
  BY CallerTypes
<1>3. CASE /\ account' = [account EXCEPT !.token = NewToken(c)] /\ Works(c)
           /\ UNCHANGED failedGrants
  <2>1. OtherCallersStay(c) /\ caller'[c].at = "connecting"
    BY <1>3, CallerWorks
  <2>2. account' \in Accounts /\ account'.status = account.status
        /\ account'.token = caller[c].token
    BY <1>2, <1>3, TokenWritten DEF NewToken
  <2> QED
    BY <1>1, <1>3, <2>1, <2>2 DEF Persists
<1>4. CASE /\ Fails(c, "persist") /\ failedGrants' = failedGrants \cup {caller[c].token[1]}
           /\ Status("reauth_required", "persist_failed") \/ UNCHANGED account
  <2>1. OtherCallersStay(c) /\ caller'[c].at = "failed"
    BY <1>4, CallerFails DEF Errors
  <2>2. account' \in Accounts /\ account'.token = account.token
    BY <1>4, StatusWritten, AccountTypes DEF AccountStatuses, ErrorCodes
  <2> QED
    BY <1>1, <1>4, <2>1, <2>2 DEF Persists
<1>5. CASE /\ Fails(c, "other") /\ failedGrants' = failedGrants \cup {caller[c].token[1]}
           /\ UNCHANGED account
  <2>1. OtherCallersStay(c) /\ caller'[c].at = "failed"
    BY <1>5, CallerFails DEF Errors
  <2>2. account' \in Accounts /\ account'.token = account.token
    BY <1>5, AccountTypes
  <2> QED
    BY <1>1, <1>5, <2>1, <2>2 DEF Persists
<1> QED
  BY <1>3, <1>4, <1>5 DEF Persist

-----------------------------------------------------------------------------
(* A step of a caller keeps each part of the invariant.                     *)
CallerSteps(c) == QuietStep(c) \/ TakesLock(c) \/ Refreshes(c) \/ Persists(c)

LEMMA CallersKeepTypes ==
  ASSUME CredTyped, NEW c \in Callers, CallerSteps(c), discoverDue' \in BOOLEAN, marking' \in BOOLEAN
  PROVE  CredTyped'
<1>1. caller' \in [Callers -> CallerStates]
  BY DEF CallerSteps, QuietStep, TakesLock, Refreshes, Persists, OtherCallersStay
<1>2. account' \in Accounts
  BY AccountTypes DEF CallerSteps, QuietStep, TakesLock, Refreshes, Persists
<1>3. current' \in [Grants -> 0..MaxRotations] /\ UNCHANGED revoked
  BY DEF CallerSteps, QuietStep, TakesLock, Refreshes, Persists, CredTyped, provider
<1>4. caller[c].token[1] \in Grants
  BY CallerTypes, TokenParts
<1>5. failedGrants' \subseteq Grants
  BY <1>4 DEF CallerSteps, QuietStep, TakesLock, Refreshes, Persists, CredTyped
<1>6. UNCHANGED flow
  BY DEF CallerSteps, QuietStep, TakesLock, Refreshes, Persists
<1> QED
  BY <1>1, <1>2, <1>3, <1>5, <1>6 DEF CredTyped, flow

LEMMA CallersKeepLock ==
  ASSUME LockIsRight, NEW c \in Callers, CallerSteps(c)
  PROVE  LockIsRight'
<1>1. OtherCallersStay(c)
  BY DEF CallerSteps, QuietStep, TakesLock, Refreshes, Persists
<1>2. \A d \in Callers \ {c} : HoldsLock(d)' <=> HoldsLock(d)
  BY <1>1 DEF OtherCallersStay, HoldsLock
<1>3. Nobody \notin Callers
  BY CredConstants
<1>4. CASE QuietStep(c)
  <2>1. ~HoldsLock(c) /\ ~HoldsLock(c)' /\ accountLock' = accountLock
    BY <1>4 DEF QuietStep, HoldsLock
  <2> QED
    BY <1>2, <2>1 DEF LockIsRight
<1>5. CASE TakesLock(c)
  <2>1. accountLock = Nobody /\ accountLock' = c /\ HoldsLock(c)'
    BY <1>5 DEF TakesLock, HoldsLock
  <2> QED
    BY <1>2, <1>3, <2>1 DEF LockIsRight
<1>6. CASE Refreshes(c) \/ Persists(c)
  <2>1. /\ HoldsLock(c)
        /\ \/ HoldsLock(c)' /\ accountLock' = accountLock
           \/ ~HoldsLock(c)' /\ accountLock' = Nobody
    BY <1>6 DEF Refreshes, Persists, HoldsLock
  <2> QED
    BY <1>2, <1>3, <2>1 DEF LockIsRight
<1> QED
  BY <1>4, <1>5, <1>6 DEF CallerSteps

(* A token in use stands for a grant that is known already.                 *)
LEMMA UnknownStays ==
  ASSUME CredTyped, NEW c \in Callers, CallerSteps(c), NEW g \in Grants, Unknown(g)
  PROVE  Unknown(g)' /\ current'[g] = current[g]
<1>1. OtherCallersStay(c) /\ UNCHANGED stored
  BY DEF CallerSteps, QuietStep, TakesLock, Refreshes, Persists, flow
<1>2. g # account'.token[1]
  BY DEF CallerSteps, QuietStep, TakesLock, Refreshes, Persists, Unknown, HoldsLock
<1>3. HoldsLock(c)' => g # caller'[c].token[1]
  BY DEF CallerSteps, QuietStep, TakesLock, Refreshes, Persists, Unknown, HoldsLock
<1>4. \A d \in Callers : HoldsLock(d)' => g # caller'[d].token[1]
  BY <1>1, <1>3 DEF OtherCallersStay, Unknown, HoldsLock
<1>5. current'[g] = current[g]
  BY DEF CallerSteps, QuietStep, TakesLock, Refreshes, Persists, Unknown, HoldsLock, provider
<1> QED
  BY <1>1, <1>2, <1>4, <1>5 DEF Unknown

LEMMA StatesFrame ==
  ASSUME CredTyped, StatesInv, UNCHANGED <<states, exchanged, callback>>,
         \A g \in Grants : Unknown(g) => Unknown(g)' /\ current'[g] = current[g]
  PROVE  StatesInv'
<1>1. \A k \in Callbacks : callback[k].state \in Grants
  BY DEF CredTyped, CallbackStates
<1>2. \A k \in Callbacks : CallbackIsValid(k)'
  BY <1>1 DEF StatesInv, CallbackIsValid
<1>3. \A g \in Grants : Awaited(g)' => Unknown(g)'
  BY DEF StatesInv, Awaited
<1> QED
  BY <1>2, <1>3 DEF StatesInv, StatesWorkOnce

LEMMA CallersKeepStates ==
  ASSUME CredTyped, StatesInv, NEW c \in Callers, CallerSteps(c)
  PROVE  StatesInv'
<1>1. UNCHANGED <<states, exchanged, callback>>
  BY DEF CallerSteps, QuietStep, TakesLock, Refreshes, Persists, flow
<1>2. \A g \in Grants : Unknown(g) => Unknown(g)' /\ current'[g] = current[g]
  BY UnknownStays
<1> QED
  BY <1>1, <1>2, StatesFrame

LEMMA OnlyHolder ==
  ASSUME LockIsRight, NEW c \in Callers, HoldsLock(c), NEW d \in Callers \ {c}
  PROVE  ~HoldsLock(d)
BY DEF LockIsRight

LEMMA QuietKeepsGrant ==
  ASSUME GrantInv, NEW c \in Callers, QuietStep(c) \/ TakesLock(c)
  PROVE  GrantInv'
<1> SUFFICES ASSUME ~overlapped'
             PROVE  /\ account'.token[1] = stored' /\ (Writing' \/ TakenNow(account.token)')
                    /\ account'.status = "reauth_required" => InReason'
                    /\ \A d \in Callers : CallerIsTrue(d)'
  BY DEF GrantInv
<1>1. /\ OtherCallersStay(c) /\ UNCHANGED <<current, revoked, failedGrants, stored, overlapped>>
      /\ account'.token = account.token /\ caller'[c].at # "persisting"
      /\ caller[c].at # "persisting"
  BY DEF QuietStep, TakesLock, provider, flow, HoldsLock
<1>2. /\ account.token[1] = stored /\ (Writing \/ TakenNow(account.token))
      /\ account.status = "reauth_required" => InReason
      /\ \A d \in Callers : CallerIsTrue(d)
  BY <1>1 DEF GrantInv
<1>3. InReason' = InReason /\ \A token : TakenNow(token)' = TakenNow(token)
  BY <1>1 DEF InReason, TakenNow
<1>4. account'.status = "reauth_required" => InReason
  BY <1>2 DEF QuietStep, TakesLock, ReasonToAsk, CallerIsTrue
<1>5. \A d \in Callers \ {c} : CallerIsTrue(d)'
  BY <1>1, <1>2, <1>3 DEF OtherCallersStay, CallerIsTrue, TakenNow
<1>6. CallerIsTrue(c)'
  BY <1>1, <1>2, <1>3 DEF QuietStep, TakesLock, CallerIsTrue
<1>7. Writing' \/ TakenNow(account.token)
  <2>1. CASE TakenNow(account.token)
    BY <2>1
  <2>2. CASE Writing
    <3>1. PICK d \in Callers : caller[d].at = "persisting"
      BY <2>2 DEF Writing
    <3>2. d # c
      BY <1>1, <3>1
    <3> QED
      BY <1>1, <3>1, <3>2 DEF OtherCallersStay, Writing
  <2> QED
    BY <1>2, <2>1, <2>2
<1>8. TakenNow(account.token)' <=> TakenNow(account.token)
  BY <1>1 DEF TakenNow
<1> QED
  BY <1>1, <1>2, <1>3, <1>4, <1>5, <1>6, <1>7, <1>8

LEMMA RefreshKeepsGrant ==
  ASSUME LockIsRight, GrantInv, NEW c \in Callers, Refreshes(c)
  PROVE  GrantInv'
<1> SUFFICES ASSUME ~overlapped'
             PROVE  /\ account'.token[1] = stored' /\ (Writing' \/ TakenNow(account.token)')
                    /\ account'.status = "reauth_required" => InReason'
                    /\ \A d \in Callers : CallerIsTrue(d)'
  BY DEF GrantInv
<1> DEFINE token == caller[c].token
<1>1. /\ OtherCallersStay(c) /\ caller[c].at = "refreshing" /\ HoldsLock(c)
      /\ UNCHANGED <<account, revoked, stored, overlapped>>
  BY DEF Refreshes, flow, HoldsLock
<1>2. /\ account.token[1] = stored /\ (Writing \/ TakenNow(account.token))
      /\ account.status = "reauth_required" => InReason
      /\ \A d \in Callers : CallerIsTrue(d)
  BY <1>1 DEF GrantInv
<1>3. token = account.token /\ token[1] = stored
  BY <1>1, <1>2 DEF CallerIsTrue
<1>4. \A d \in Callers \ {c} : caller[d].at \notin {"refreshing", "persisting"}
  BY <1>1, OnlyHolder DEF HoldsLock
<1>5. ~Writing
  BY <1>1, <1>4 DEF Writing
<1>6. InReason => InReason'
  BY <1>1 DEF InReason, Refreshes
<1>7. \A d \in Callers \ {c} : CallerIsTrue(d)'
  BY <1>1, <1>2, <1>4, <1>6 DEF OtherCallersStay, CallerIsTrue
<1>8. CASE /\ caller'[c].at = "persisting" /\ caller'[c].token[1] = token[1]
           /\ current'[token[1]] = caller'[c].token[2]
  <2>1. Writing'
    BY <1>8 DEF Writing
  <2>2. CallerIsTrue(c)'
    BY <1>1, <1>3, <1>8 DEF CallerIsTrue, TakenNow
  <2> QED
    BY <1>1, <1>2, <1>6, <1>7, <2>1, <2>2
<1>9. CASE /\ caller'[c].at = "failed" /\ ~Accepted(token) /\ UNCHANGED <<current, failedGrants>>
  <2>1. TakenNow(account.token)' /\ TakenNow(account.token)
    BY <1>1, <1>2, <1>5, <1>9 DEF TakenNow
  <2>2. InReason
    BY <1>3, <1>9, <2>1 DEF InReason, TakenNow, Accepted
  <2>3. CallerIsTrue(c)'
    BY <1>6, <1>9, <2>2 DEF CallerIsTrue
  <2> QED
    BY <1>1, <1>2, <1>6, <1>7, <2>1, <2>3
<1>10. CASE caller'[c].at = "failed" /\ failedGrants' = failedGrants \cup {token[1]}
  <2>1. TakenNow(account.token)' /\ InReason'
    BY <1>1, <1>3, <1>10 DEF TakenNow, InReason
  <2>2. CallerIsTrue(c)'
    BY <1>10, <2>1 DEF CallerIsTrue
  <2> QED
    BY <1>1, <1>2, <1>7, <2>1, <2>2
<1> QED
  BY <1>8, <1>9, <1>10 DEF Refreshes

LEMMA PersistKeepsGrant ==
  ASSUME LockIsRight, GrantInv, NEW c \in Callers, Persists(c)
  PROVE  GrantInv'
<1> SUFFICES ASSUME ~overlapped'
             PROVE  /\ account'.token[1] = stored' /\ (Writing' \/ TakenNow(account.token)')
                    /\ account'.status = "reauth_required" => InReason'
                    /\ \A d \in Callers : CallerIsTrue(d)'
  BY DEF GrantInv
<1> DEFINE token == caller[c].token
<1>1. /\ OtherCallersStay(c) /\ caller[c].at = "persisting" /\ HoldsLock(c)
      /\ UNCHANGED <<current, revoked, stored, overlapped>>
  BY DEF Persists, flow, provider, HoldsLock
<1>2. /\ account.token[1] = stored /\ (account.status = "reauth_required" => InReason)
      /\ \A d \in Callers : CallerIsTrue(d)
  BY <1>1 DEF GrantInv
<1>3. token[1] = stored /\ TakenNow(token)
  BY <1>1, <1>2 DEF CallerIsTrue
<1>4. \A d \in Callers \ {c} : caller[d].at \notin {"refreshing", "persisting"}
  BY <1>1, OnlyHolder DEF HoldsLock
<1>5. InReason => InReason'
  BY <1>1 DEF InReason, Persists
<1>6. \A d \in Callers \ {c} : CallerIsTrue(d)'
  BY <1>1, <1>2, <1>4, <1>5 DEF OtherCallersStay, CallerIsTrue
<1>7. CASE /\ caller'[c].at = "connecting" /\ UNCHANGED failedGrants
           /\ account'.token = token /\ account'.status = account.status
  <2>1. TakenNow(account.token)'
    BY <1>1, <1>3, <1>7 DEF TakenNow
  <2>2. CallerIsTrue(c)'
    BY <1>7 DEF CallerIsTrue
  <2> QED
    BY <1>1, <1>2, <1>3, <1>5, <1>6, <1>7, <2>1, <2>2
<1>8. CASE /\ caller'[c].at = "failed" /\ account'.token = account.token
           /\ failedGrants' = failedGrants \cup {token[1]}
  <2>1. TakenNow(account.token)' /\ InReason'
    BY <1>1, <1>3, <1>8 DEF TakenNow, InReason
  <2>2. CallerIsTrue(c)'
    BY <1>8, <2>1 DEF CallerIsTrue
  <2> QED
    BY <1>1, <1>2, <1>6, <1>8, <2>1, <2>2
<1> QED
  BY <1>7, <1>8 DEF Persists

LEMMA CallersKeep ==
  ASSUME CredInv, NEW c \in Callers, Call(c)
  PROVE  CredInv'
<1>1. CallerSteps(c) /\ discoverDue' \in BOOLEAN /\ marking' \in BOOLEAN
  <2>1. CredTyped /\ discoverDue \in BOOLEAN /\ marking \in BOOLEAN
    BY DEF CredInv, CredTyped
  <2>2. CASE ReadAccount(c)
    BY <2>1, <2>2, ReadFacts DEF CallerSteps
  <2>3. CASE Refresh(c)
    BY <2>1, <2>3, RefreshFacts DEF CallerSteps
  <2>4. CASE Persist(c)
    BY <2>1, <2>4, PersistFacts DEF CallerSteps
  <2>5. CASE Finish(c) \/ MarkError(c)
    BY <2>1, <2>5, FinishFacts DEF CallerSteps
  <2>6. ASSUME NEW kind \in Kinds, Start(c, kind)
        PROVE  CallerSteps(c) /\ discoverDue' \in BOOLEAN /\ marking' \in BOOLEAN
    BY <2>1, <2>6, StartFacts DEF CallerSteps
  <2> QED
    BY <2>2, <2>3, <2>4, <2>5, <2>6 DEF Call
<1>2. CredTyped'
  BY <1>1, CallersKeepTypes DEF CredInv
<1>3. LockIsRight'
  BY <1>1, CallersKeepLock DEF CredInv
<1>4. StatesInv'
  BY <1>1, CallersKeepStates DEF CredInv
<1>5. GrantInv'
  BY <1>1, QuietKeepsGrant, RefreshKeepsGrant, PersistKeepsGrant DEF CredInv, CallerSteps
<1> QED
  BY <1>2, <1>3, <1>4, <1>5 DEF CredInv

-----------------------------------------------------------------------------
(* The user's authorisation, and what else happens around the callers.      *)
LEMMA GrantFrame ==
  ASSUME GrantInv, UNCHANGED <<caller, stored, overlapped, failedGrants>>,
         account'.token = account.token, revoked \subseteq revoked',
         account'.status = "reauth_required" => account.status = "reauth_required",
         current'[stored] = current[stored]
  PROVE  GrantInv'
<1>1. InReason => InReason'
  BY DEF InReason
<1>2. \A token : TakenNow(token)' <=> TakenNow(token)
  BY DEF TakenNow
<1>3. (TakenNow(account.token)' <=> TakenNow(account.token)) /\ Writing' = Writing
  BY DEF TakenNow, Writing
<1>4. \A d \in Callers : CallerIsTrue(d) => CallerIsTrue(d)'
  BY <1>1 DEF CallerIsTrue, TakenNow
<1> QED
  BY <1>1, <1>3, <1>4 DEF GrantInv

LEMMA LockFrame ==
  ASSUME LockIsRight, UNCHANGED <<caller, accountLock>>
  PROVE  LockIsRight'
BY DEF LockIsRight, HoldsLock

LEMMA MarkingKeeps ==
  ASSUME CredInv, SyncAccount \/ MarkSyncing
  PROVE  CredInv'
<1>1. UNCHANGED <<provider, accountLock, caller, flow, failedGrants>>
  BY DEF SyncAccount, MarkSyncing
<1>2. /\ account' \in Accounts /\ account'.token = account.token
      /\ account'.status = "reauth_required" => account.status = "reauth_required"
      /\ discoverDue' \in BOOLEAN /\ marking' \in BOOLEAN
  <2>1. CASE SyncAccount
    BY <2>1, AccountTypes DEF SyncAccount, CredInv, CredTyped
  <2>2. CASE MarkSyncing
    <3>1. Status("syncing", "none") /\ marking' = FALSE /\ UNCHANGED discoverDue
      BY <2>2 DEF MarkSyncing
    <3>2. "syncing" \in AccountStatuses /\ "none" \in ErrorCodes
      BY DEF AccountStatuses, ErrorCodes
    <3> QED
      BY <3>1, <3>2, StatusWritten DEF CredInv, CredTyped
  <2> QED
    BY <2>1, <2>2
<1>3. CredTyped'
  BY <1>1, <1>2 DEF CredInv, CredTyped, provider, flow
<1>4. LockIsRight' /\ GrantInv'
  BY <1>1, <1>2, LockFrame, GrantFrame DEF CredInv, provider, flow
<1>5. \A g \in Grants : Unknown(g) => Unknown(g)' /\ current'[g] = current[g]
  BY <1>1, <1>2 DEF Unknown, HoldsLock, provider, flow
<1>6. StatesInv'
  BY <1>1, <1>5, StatesFrame DEF CredInv, flow
<1> QED
  BY <1>3, <1>4, <1>6 DEF CredInv

LEMMA RevocationKeeps ==
  ASSUME CredInv, NEW g \in Grants, Revoke(g)
  PROVE  CredInv'
<1>1. /\ revoked' = revoked \cup {g}
      /\ UNCHANGED <<account, current, accountLock, caller, discoverDue, marking, flow, failedGrants>>
  BY DEF Revoke
<1>2. CredTyped'
  BY <1>1 DEF CredInv, CredTyped, flow
<1>3. LockIsRight' /\ GrantInv'
  BY <1>1, LockFrame, GrantFrame DEF CredInv, flow
<1>4. \A h \in Grants : Unknown(h) => Unknown(h)' /\ current'[h] = current[h]
  BY <1>1 DEF Unknown, HoldsLock, flow
<1>5. StatesInv'
  BY <1>1, <1>4, StatesFrame DEF CredInv, flow
<1> QED
  BY <1>2, <1>3, <1>5 DEF CredInv

LEMMA BeginKeeps ==
  ASSUME CredInv, NEW g \in Grants, Begin(g)
  PROVE  CredInv'
<1>1. /\ states' = [states EXCEPT ![g] = "issued"] /\ states[g] = "none" /\ g # 1
      /\ UNCHANGED <<account, provider, accountLock, caller, discoverDue, marking, callback,
                     exchanged, stored, overlapped, failedGrants>>
  BY DEF Begin
<1>2. CredTyped'
  BY <1>1 DEF CredInv, CredTyped, provider
<1>3. LockIsRight' /\ GrantInv'
  BY <1>1, LockFrame, GrantFrame DEF CredInv, provider
<1>4. \A h : Unknown(h)' <=> Unknown(h)
  BY <1>1 DEF Unknown, HoldsLock
<1>5. /\ states'[g] = "issued" /\ \A h \in Grants \ {g} : states'[h] = states[h]
      /\ \A k \in Callbacks : callback[k].state \in Grants
  BY <1>1 DEF CredInv, CredTyped, CallbackStates
<1>6. \A k \in Callbacks : CallbackIsValid(k)'
  BY <1>1, <1>4, <1>5 DEF CredInv, StatesInv, CallbackIsValid, provider
<1>7. \A h \in Grants : (Awaited(h)' => Unknown(h)') /\ (states'[h] # "used" => exchanged[h] = 0)
  BY <1>1, <1>4, <1>5 DEF CredInv, StatesInv, Awaited
<1>8. StatesInv'
  BY <1>1, <1>5, <1>6, <1>7, CredConstants DEF CredInv, StatesInv, StatesWorkOnce
<1> QED
  BY <1>2, <1>3, <1>8 DEF CredInv

(* A step of one callback leaves the others, and what it does to its own.   *)
OtherCallbacksStay(k) ==
  /\ callback' \in [Callbacks -> CallbackStates]
  /\ \A l \in Callbacks \ {k} : callback'[l] = callback[l]

LEMMA CallbackReplaced ==
  ASSUME CredTyped, NEW k \in Callbacks, NEW s \in CallbackStates,
         callback' = [callback EXCEPT ![k] = s]
  PROVE  OtherCallbacksStay(k) /\ callback'[k] = s
BY DEF CredTyped, OtherCallbacksStay

LEMMA CallbackTypes ==
  ASSUME CredTyped, NEW k \in Callbacks
  PROVE  callback[k] \in CallbackStates /\ callback[k].state \in Grants
BY DEF CredTyped, CallbackStates

LEMMA ConsumeKeeps ==
  ASSUME CredInv, NEW k \in Callbacks, NEW g \in Grants, Consume(k, g)
  PROVE  CredInv'
<1> DEFINE s == [at |-> "exchanging", state |-> g]
<1>1. /\ callback[k].at = "idle" /\ states[g] = "issued" /\ states' = [states EXCEPT ![g] = "used"]
      /\ callback' = [callback EXCEPT ![k] = s]
      /\ UNCHANGED <<account, provider, accountLock, caller, discoverDue, marking, exchanged,
                     stored, overlapped, failedGrants>>
  BY DEF Consume, Unused
<1>2. s \in CallbackStates /\ s.at = "exchanging" /\ s.state = g
  BY DEF CallbackStates
<1> HIDE DEF s
<1>3. OtherCallbacksStay(k) /\ callback'[k] = s
  BY <1>1, <1>2, CallbackReplaced DEF CredInv
<1>4. CredTyped'
  BY <1>1, <1>3 DEF CredInv, CredTyped, provider, OtherCallbacksStay
<1>5. LockIsRight' /\ GrantInv'
  BY <1>1, LockFrame, GrantFrame DEF CredInv, provider
<1>6. \A h : Unknown(h)' <=> Unknown(h)
  BY <1>1 DEF Unknown, HoldsLock
<1>7. /\ states'[g] = "used" /\ \A h \in Grants \ {g} : states'[h] = states[h]
      /\ \A l \in Callbacks : callback[l].state \in Grants
      /\ UNCHANGED current
  BY <1>1, CallbackTypes DEF CredInv, CredTyped, provider
<1>8. Unknown(g) /\ exchanged[g] = 0 /\ g # 1
  BY <1>1 DEF CredInv, StatesInv, Awaited
<1>9. \A l \in Callbacks \ {k} : callback[l].at # "idle" => callback[l].state # g
  BY <1>1 DEF CredInv, StatesInv, CallbackIsValid
<1>10. CallbackIsValid(k)'
  BY <1>1, <1>2, <1>3, <1>6, <1>7, <1>8 DEF CallbackIsValid
<1>11. \A l \in Callbacks \ {k} : CallbackIsValid(l)'
  BY <1>1, <1>3, <1>6, <1>7, <1>9 DEF CredInv, StatesInv, CallbackIsValid, OtherCallbacksStay
<1>12. \A h \in Grants : (Awaited(h)' => Unknown(h)') /\ (states'[h] # "used" => exchanged[h] = 0)
  BY <1>1, <1>6, <1>7 DEF CredInv, StatesInv, Awaited
<1>13. \A l, m \in Callbacks :
         l # m /\ callback'[l].at # "idle" /\ callback'[m].at # "idle" =>
           callback'[l].state # callback'[m].state
  BY <1>2, <1>3, <1>9 DEF CredInv, StatesInv, OtherCallbacksStay
<1>14. states'[1] = "none" /\ StatesWorkOnce'
  BY <1>1, <1>7, <1>8, CredConstants DEF CredInv, StatesInv, StatesWorkOnce
<1>15. StatesInv'
  BY <1>1, <1>10, <1>11, <1>12, <1>13, <1>14 DEF StatesInv
<1> QED
  BY <1>4, <1>5, <1>15 DEF CredInv

LEMMA ExchangeKeeps ==
  ASSUME CredInv, NEW k \in Callbacks, Exchange(k)
  PROVE  CredInv'
<1> DEFINE g == callback[k].state
<1>1. /\ callback[k].at = "exchanging" /\ exchanged' = [exchanged EXCEPT ![g] = @ + 1]
      /\ UNCHANGED <<account, revoked, accountLock, caller, discoverDue, marking, states, stored,
                     overlapped, failedGrants>>
  BY DEF Exchange
<1>2. /\ g \in Grants /\ states[g] = "used" /\ Unknown(g) /\ exchanged[g] = 0
      /\ \A l \in Callbacks \ {k} : callback[l].at # "idle" => callback[l].state # g
      /\ \A l \in Callbacks : callback[l].state \in Grants
  BY <1>1, CallbackTypes DEF CredInv, StatesInv, CallbackIsValid
<1>3. /\ OtherCallbacksStay(k) /\ current' \in [Grants -> 0..MaxRotations]
      /\ \A h \in Grants \ {g} : current'[h] = current[h]
      /\ \/ callback'[k].at = "idle"
         \/ callback'[k].at = "storing" /\ callback'[k].state = g /\ current'[g] = 1
  <2>1. CASE /\ current' = [current EXCEPT ![g] = 1]
             /\ callback' = [callback EXCEPT ![k].at = "storing"]
    <3> DEFINE s == [callback[k] EXCEPT !.at = "storing"]
    <3>1. s \in CallbackStates /\ s.at = "storing" /\ s.state = g
      BY CallbackTypes DEF CredInv, CallbackStates
    <3>2. callback' = [callback EXCEPT ![k] = s]
      BY <2>1
    <3> HIDE DEF s
    <3>3. OtherCallbacksStay(k) /\ callback'[k] = s
      BY <3>1, <3>2, CallbackReplaced DEF CredInv
    <3> HIDE DEF g
    <3>4. /\ current' \in [Grants -> 0..MaxRotations] /\ current'[g] = 1
          /\ \A h \in Grants \ {g} : current'[h] = current[h]
      BY <1>2, <2>1, CredConstants DEF CredInv, CredTyped
    <3> QED
      BY <3>1, <3>3, <3>4
  <2>2. CASE callback' = [callback EXCEPT ![k] = IdleCallback] /\ UNCHANGED current
    <3>1. OtherCallbacksStay(k) /\ callback'[k] = IdleCallback
      BY <2>2, IdleFacts, CallbackReplaced DEF CredInv
    <3> QED
      BY <2>2, <3>1, IdleFacts DEF CredInv, CredTyped
  <2> QED
    BY <2>1, <2>2 DEF Exchange
<1> HIDE DEF g
<1>4. /\ exchanged' \in [Grants -> Nat] /\ exchanged'[g] = 1
      /\ \A h \in Grants \ {g} : exchanged'[h] = exchanged[h]
  BY <1>1, <1>2 DEF CredInv, CredTyped
<1>5. CredTyped'
  BY <1>1, <1>3, <1>4 DEF CredInv, CredTyped, OtherCallbacksStay
<1>6. current'[stored] = current[stored]
  BY <1>2, <1>3 DEF CredInv, CredTyped, Unknown
<1>7. LockIsRight' /\ GrantInv'
  BY <1>1, <1>6, LockFrame, GrantFrame DEF CredInv
<1>8. \A h : Unknown(h)' <=> Unknown(h)
  BY <1>1 DEF Unknown, HoldsLock
<1>9. CallbackIsValid(k)'
  BY <1>1, <1>2, <1>3, <1>8 DEF CallbackIsValid
<1>10. \A l \in Callbacks \ {k} : CallbackIsValid(l)'
  BY <1>1, <1>2, <1>3, <1>4, <1>8 DEF CredInv, StatesInv, CallbackIsValid, OtherCallbacksStay
<1>11. \A h \in Grants : (Awaited(h)' => Unknown(h)') /\ (states'[h] # "used" => exchanged'[h] = 0)
  BY <1>1, <1>2, <1>4, <1>8 DEF CredInv, StatesInv, Awaited
<1>12. \A l, m \in Callbacks :
         l # m /\ callback'[l].at # "idle" /\ callback'[m].at # "idle" =>
           callback'[l].state # callback'[m].state
  BY <1>2, <1>3 DEF CredInv, StatesInv, OtherCallbacksStay
<1>13. states'[1] = "none" /\ StatesWorkOnce'
  BY <1>1, <1>4 DEF CredInv, StatesInv, StatesWorkOnce
<1>14. StatesInv'
  BY <1>1, <1>9, <1>10, <1>11, <1>12, <1>13 DEF StatesInv
<1> QED
  BY <1>5, <1>7, <1>14 DEF CredInv

LEMMA StoreKeeps ==
  ASSUME CredInv, NEW k \in Callbacks, Store(k)
  PROVE  CredInv'
<1> DEFINE g == callback[k].state
<1>1. /\ callback[k].at = "storing" /\ callback' = [callback EXCEPT ![k] = IdleCallback]
      /\ UNCHANGED <<provider, accountLock, caller, marking, states, exchanged, failedGrants>>
  BY DEF Store
<1>2. /\ g \in Grants /\ states[g] = "used" /\ Unknown(g) /\ current[g] = 1
      /\ \A l \in Callbacks \ {k} : callback[l].at # "idle" => callback[l].state # g
      /\ \A l \in Callbacks : callback[l].state \in Grants
  BY <1>1, CallbackTypes DEF CredInv, StatesInv, CallbackIsValid
<1>3. OtherCallbacksStay(k) /\ callback'[k].at = "idle"
  BY <1>1, IdleFacts, CallbackReplaced DEF CredInv
<1>4. \/ UNCHANGED <<account, stored, discoverDue, overlapped>>
      \/ /\ account' = [status |-> "pending", code |-> "none", token |-> <<g, 1>>] /\ stored' = g
         /\ discoverDue' = TRUE /\ overlapped' = \E c \in Callers : caller[c].at # "idle"
  BY DEF Store
<1> HIDE DEF g
<1>5. /\ account' \in Accounts /\ stored' \in Grants /\ discoverDue' \in BOOLEAN
      /\ overlapped' \in BOOLEAN
  <2>1. [status |-> "pending", code |-> "none", token |-> <<g, 1>>] \in Accounts
    BY <1>2, CredConstants DEF Accounts, AccountStatuses, ErrorCodes, Tokens
  <2> QED
    BY <1>2, <1>4, <2>1 DEF CredInv, CredTyped
<1>6. CredTyped'
  BY <1>1, <1>3, <1>5 DEF CredInv, CredTyped, provider, OtherCallbacksStay
<1>7. LockIsRight'
  BY <1>1, LockFrame DEF CredInv
<1>8. GrantInv'
  <2>1. CASE UNCHANGED <<account, stored, discoverDue, overlapped>>
    BY <1>1, <2>1, GrantFrame DEF CredInv, provider
  <2>2. CASE /\ account' = [status |-> "pending", code |-> "none", token |-> <<g, 1>>]
             /\ stored' = g /\ overlapped' = \E c \in Callers : caller[c].at # "idle"
    <3> SUFFICES ASSUME ~overlapped'
                 PROVE  GrantInv'
      BY DEF GrantInv
    <3>1. \A c \in Callers : caller'[c].at = "idle"
      BY <1>1, <2>2
    <3>2. \A c \in Callers : CallerIsTrue(c)'
      BY <3>1 DEF CallerIsTrue
    <3>3. account'.token[1] = stored' /\ account'.status = "pending" /\ TakenNow(account.token)'
      BY <1>1, <1>2, <2>2 DEF TakenNow, provider
    <3> QED
      BY <3>2, <3>3 DEF GrantInv
  <2> QED
    BY <1>4, <2>1, <2>2
<1>9. \A h \in Grants \ {g} : Unknown(h) => Unknown(h)'
  <2>1. \/ account'.token[1] = account.token[1] /\ stored' = stored
        \/ account'.token[1] = g /\ stored' = g
    <3>1. CASE account' = [status |-> "pending", code |-> "none", token |-> <<g, 1>>] /\ stored' = g
      <4>1. account'.token = <<g, 1>>
        BY <3>1
      <4> QED
        BY <3>1, <4>1
    <3>2. CASE UNCHANGED <<account, stored>>
      BY <3>2
    <3> QED
      BY <1>4, <3>1, <3>2
  <2> QED
    BY <1>1, <2>1 DEF Unknown, HoldsLock
<1>10. \A l \in Callbacks : CallbackIsValid(l)'
  BY <1>1, <1>2, <1>3, <1>9 DEF CredInv, StatesInv, CallbackIsValid, OtherCallbacksStay, provider
<1>11. \A h \in Grants : (Awaited(h)' => Unknown(h)') /\ (states'[h] # "used" => exchanged'[h] = 0)
  BY <1>1, <1>2, <1>9 DEF CredInv, StatesInv, Awaited
<1>12. \A l, m \in Callbacks :
         l # m /\ callback'[l].at # "idle" /\ callback'[m].at # "idle" =>
           callback'[l].state # callback'[m].state
  BY <1>3 DEF CredInv, StatesInv, OtherCallbacksStay
<1>13. states'[1] = "none" /\ StatesWorkOnce'
  BY <1>1 DEF CredInv, StatesInv, StatesWorkOnce
<1>14. StatesInv'
  BY <1>10, <1>11, <1>12, <1>13 DEF StatesInv
<1> QED
  BY <1>6, <1>7, <1>8, <1>14 DEF CredInv

LEMMA RestartKeeps ==
  ASSUME CredInv, Restarted
  PROVE  CredInv'
<1> DEFINE cut == {caller[c].token[1] : c \in {c \in Callers : caller[c].at = "persisting"}}
<1>1. /\ failedGrants' = failedGrants \cup cut /\ accountLock' = Nobody
      /\ caller' = [c \in Callers |-> IdleCaller]
      /\ callback' = [k \in Callbacks |-> IdleCallback] /\ discoverDue' = TRUE /\ marking' = FALSE
      /\ UNCHANGED <<account, provider, states, exchanged, stored, overlapped>>
  BY DEF Restarted
<1>2. cut \subseteq Grants
  BY CallerTypes, TokenParts DEF CredInv
<1>3. \A c \in Callers : caller[c].at = "persisting" => caller[c].token[1] \in cut
  OBVIOUS
<1> HIDE DEF cut
<1>4. /\ caller' \in [Callers -> CallerStates] /\ \A c \in Callers : caller'[c].at = "idle"
      /\ callback' \in [Callbacks -> CallbackStates]
      /\ \A k \in Callbacks : callback'[k].at = "idle"
  BY <1>1, IdleFacts
<1>5. CredTyped'
  BY <1>1, <1>2, <1>4 DEF CredInv, CredTyped, provider
<1>6. LockIsRight'
  BY <1>1, <1>4, CredConstants DEF LockIsRight, HoldsLock
<1>7. \A g : Unknown(g) => Unknown(g)'
  BY <1>1, <1>4 DEF Unknown, HoldsLock
<1>8. StatesInv'
  BY <1>1, <1>4, <1>7 DEF CredInv, StatesInv, StatesWorkOnce, Awaited, CallbackIsValid
<1>9. GrantInv'
  <2> SUFFICES ASSUME ~overlapped
               PROVE  /\ account.token[1] = stored /\ TakenNow(account.token)'
                      /\ account.status = "reauth_required" => InReason'
                      /\ \A c \in Callers : CallerIsTrue(c)'
    BY <1>1 DEF GrantInv
  <2>1. /\ account.token[1] = stored /\ (Writing \/ TakenNow(account.token))
        /\ account.status = "reauth_required" => InReason
        /\ \A c \in Callers : CallerIsTrue(c)
    BY DEF CredInv, GrantInv
  <2>2. InReason => InReason'
    BY <1>1 DEF InReason, provider
  <2>3. TakenNow(account.token)'
    <3>1. CASE Writing
      <4>1. PICK c \in Callers : caller[c].at = "persisting"
        BY <3>1 DEF Writing
      <4>2. stored \in failedGrants'
        BY <1>1, <1>3, <2>1, <4>1 DEF CallerIsTrue
      <4> QED
        BY <1>1, <4>2 DEF TakenNow
    <3>2. CASE TakenNow(account.token)
      BY <1>1, <3>2 DEF TakenNow, provider
    <3> QED
      BY <2>1, <3>1, <3>2
  <2>4. \A c \in Callers : CallerIsTrue(c)'
    BY <1>4 DEF CallerIsTrue
  <2> QED
    BY <2>1, <2>2, <2>3, <2>4
<1> QED
  BY <1>5, <1>6, <1>8, <1>9 DEF CredInv

-----------------------------------------------------------------------------
(* The induction.                                                           *)
LEMMA CredStarts ==
  ASSUME CredInit
  PROVE  CredInv
<1>1. /\ \A c \in Callers : caller[c] = IdleCaller
      /\ \A k \in Callbacks : callback[k] = IdleCallback
      /\ accountLock = Nobody /\ states = [g \in Grants |-> "none"]
      /\ exchanged = [g \in Grants |-> 0] /\ stored = 1
      /\ account = [status |-> "ready", code |-> "none", token |-> <<1, 1>>]
      /\ current = [g \in Grants |-> IF g = 1 THEN 1 ELSE 0]
  BY DEF CredInit
<1>2. \A c \in Callers : caller[c].at = "idle"
  BY <1>1, IdleFacts
<1>3. account \in Accounts /\ account.token = <<1, 1>> /\ account.status = "ready"
  BY <1>1, CredConstants DEF Accounts, AccountStatuses, ErrorCodes
<1>4. CredTyped
  <2>1. caller \in [Callers -> CallerStates] /\ callback \in [Callbacks -> CallbackStates]
    BY IdleFacts DEF CredInit
  <2>2. current \in [Grants -> 0..MaxRotations]
    BY <1>1, CredConstants
  <2>3. /\ states \in [Grants -> {"none", "issued", "used"}] /\ exchanged \in [Grants -> Nat]
        /\ stored \in Grants
    BY <1>1, CredConstants
  <2>4. /\ revoked = {} /\ failedGrants = {} /\ discoverDue = TRUE /\ marking = FALSE
        /\ overlapped = FALSE
    BY DEF CredInit
  <2> QED
    BY <1>3, <2>1, <2>2, <2>3, <2>4 DEF CredTyped
<1>5. LockIsRight
  BY <1>1, <1>2, CredConstants DEF LockIsRight, HoldsLock
<1>6. \A g : g # 1 => Unknown(g)
  BY <1>1, <1>2, <1>3 DEF Unknown, HoldsLock
<1>7. StatesInv
  BY <1>1, <1>6, IdleFacts, CredConstants DEF StatesInv, StatesWorkOnce, Awaited, CallbackIsValid
<1>8. GrantInv
  <2>1. current[1] = 1
    BY <1>1, CredConstants
  <2> QED
    BY <1>1, <1>2, <1>3, <2>1 DEF GrantInv, TakenNow, CallerIsTrue
<1> QED
  BY <1>4, <1>5, <1>7, <1>8 DEF CredInv

LEMMA CredSteps ==
  ASSUME CredInv, [CredNext]_credVars
  PROVE  CredInv'
<1>1. CASE UNCHANGED credVars
  BY <1>1 DEF credVars, provider, flow, credBounds, CredInv, CredTyped, LockIsRight, HoldsLock,
     StatesInv, StatesWorkOnce, Awaited, Unknown, CallbackIsValid, GrantInv, Writing, TakenNow,
     InReason, CallerIsTrue
<1>2. CASE CredNext
  BY <1>2, MarkingKeeps, RestartKeeps, CallersKeep, BeginKeeps, RevocationKeeps, ExchangeKeeps,
     StoreKeeps, ConsumeKeeps DEF CredNext
<1> QED
  BY <1>1, <1>2

(* The inductive invariant holds in every behaviour.                        *)
THEOREM CredentialsAreTrue == CredSpec => []CredInv
<1>1. CredInit => CredInv
  BY CredStarts
<1>2. CredInv /\ [CredNext]_credVars => CredInv'
  BY CredSteps
<1> QED
  BY <1>1, <1>2, PTL DEF CredSpec

(* The variables keep their types, and the lock is held by the one caller   *)
(* that refreshes or writes a token (account.go:71-117).                    *)
THEOREM CredentialTypes == CredSpec => []CredTypeOK
<1>1. ASSUME CredInv
      PROVE  CredTypeOK
  <2>1. /\ account \in Accounts /\ current \in [Grants -> 0..MaxRotations] /\ revoked \subseteq Grants
        /\ caller \in [Callers -> CallerStates] /\ callback \in [Callbacks -> CallbackStates]
        /\ discoverDue \in BOOLEAN /\ marking \in BOOLEAN
    BY <1>1 DEF CredInv, CredTyped
  <2>2. \A c \in Callers : caller[c].at \in {"refreshing", "persisting"} <=> accountLock = c
    BY <1>1 DEF CredInv, LockIsRight, HoldsLock
  <2> QED
    BY <2>1, <2>2 DEF CredTypeOK, Accounts, AccountStatuses, ErrorCodes, CallerStates, CallerPlaces,
                      Errors, CallbackStates
<1> QED
  BY <1>1, CredentialsAreTrue, PTL

(* The newest authorisation and the refresh token the provider takes are    *)
(* kept, the user is asked again for a reason, and a state is good for one  *)
(* exchange, whoever refreshes, writes and restarts (account.go:81-117,     *)
(* sync.go:270-287, oauthflow/service.go:184-207).                          *)
THEOREM CredentialsStaySound == CredSpec => []CredentialsAreSound
<1>1. ASSUME CredInv
      PROVE  CredentialsAreSound
  <2>1. StatesWorkOnce
    BY <1>1 DEF CredInv, StatesInv
  <2>2. ReauthIsForAReason
    BY <1>1 DEF CredInv, GrantInv, InReason, ReauthIsForAReason
  <2>3. ASSUME accountLock = Nobody
        PROVE  ~Writing
    BY <1>1, <2>3, CredConstants DEF CredInv, LockIsRight, HoldsLock, Writing
  <2>4. GrantIsKept
    BY <1>1, <2>3 DEF CredInv, GrantInv, TakenNow, GrantIsKept
  <2> QED
    BY <2>1, <2>2, <2>4 DEF CredentialsAreSound
<1> QED
  BY <1>1, CredentialsAreTrue, PTL
=============================================================================
