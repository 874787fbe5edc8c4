--------------------------------- MODULE Auth ---------------------------------
(***************************************************************************)
(* The administrator: the bootstrap token of a fresh installation           *)
(* (internal/bootstrap/tokenfile.go), setup, login in two steps, sessions   *)
(* and recovery (internal/auth, internal/store/auth_repository.go), as the  *)
(* handlers of internal/httpapi/auth_handlers.go and the command line       *)
(* admin-recover run them.                                                  *)
(*                                                                          *)
(* One step is one read or one transaction of the store, one call of the    *)
(* in-memory limiter, or one change of the token file.  Visitors run        *)
(* concurrently; the recovery tool is another process on the same database. *)
(* Time is an event: a token, a challenge or a limiter entry gets old.      *)
(***************************************************************************)
EXTENDS Integers, Sequences, FiniteSets

CONSTANTS
  Visitors,        \* concurrent HTTP requests
  Tools,           \* concurrent runs of admin-recover
  Codes,           \* recovery codes of the administrator
  MaxAttempts,     \* maxChallengeAttempts
  MaxFailures,     \* maxFailures of the rate limiter
  MaxTokens,       \* bound: starts of an installation without administrator
  MaxEnrolments,   \* bound: calls of BeginSetup
  MaxChallenges,   \* bound: password logins that succeed
  MaxTries,        \* bound: login requests
  MaxRestarts      \* bound: times the server process ends

ASSUME AuthAssumption ==
  /\ IsFiniteSet(Visitors)
  /\ {MaxTokens, MaxEnrolments, MaxChallenges, MaxTries, MaxRestarts} \subseteq Nat
  /\ {MaxAttempts, MaxFailures} \subseteq Nat \ {0}

VARIABLES
  startup,         \* the server process: "down", "issued" or "serving"
  file,            \* bootstrap-token: which setup token it holds, 0 if absent
  tokens,          \* rows of setup_tokens
  admin,           \* the row of admins
  challenges,      \* rows of auth_challenges
  loggedIn,        \* rows of sessions, named after the challenge that granted them
  used,            \* recovery_codes with used_at
  failures,        \* limiter entries of the client inside the window
  req,             \* per request: what its handler is doing
  tool,            \* per recovery: the code it has looked up, if any
  wrong, granted,  \* history: wrong codes and sessions per challenge
  applied,         \* history: recoveries per code
  enrolments, tries, restarts  \* so far (bounded)

db == <<tokens, admin, challenges, loggedIn, used>>
history == <<wrong, granted, applied>>
authBounds == <<enrolments, tries, restarts>>
authVars == <<startup, file, db, failures, req, tool, history, authBounds>>

SetupTokens == 1..MaxTokens
Challenges == 1..MaxChallenges
NoRow == [username |-> 0, secret |-> 0]         \* not enrolled
NoAdmin == [username |-> 0, secret |-> 0, verified |-> 0]
IdleRequest == [pc |-> "idle", token |-> 0, row |-> NoRow, challenge |-> 0]

Configured == admin # NoAdmin
Live(t) == t \in DOMAIN tokens /\ tokens[t].state = "live"

AuthInit ==
  /\ startup = "down" /\ file = 0 /\ tokens = <<>> /\ admin = NoAdmin
  /\ challenges = <<>> /\ loggedIn = {} /\ used = {} /\ failures = 0
  /\ req = [r \in Visitors |-> IdleRequest] /\ tool = [p \in Tools |-> {}]
  /\ wrong = [c \in Challenges |-> 0] /\ granted = [c \in Challenges |-> 0]
  /\ applied = [k \in Codes |-> 0] /\ enrolments = 0 /\ tries = 0 /\ restarts = 0

-----------------------------------------------------------------------------
(* Start: bootstrap.Prepare.  An installed token that is no longer needed   *)
(* is removed before the server listens; otherwise a new one replaces all   *)
(* the older ones, and then the file.                                       *)
KeepFile == file                     \* seeded fault: left to the handler of setup
RemovedFile == 0
StartConfigured ==
  /\ startup = "down" /\ Configured /\ startup' = "serving" /\ file' = RemovedFile
  /\ UNCHANGED <<db, failures, req, tool, history, authBounds>>

OlderStayLive == tokens              \* seeded fault: older tokens are not looked at
OlderUsed ==
  [t \in DOMAIN tokens |->
     IF tokens[t].state = "live" THEN [tokens[t] EXCEPT !.state = "used"] ELSE tokens[t]]
IssueBootstrapToken ==
  /\ startup = "down" /\ ~Configured /\ Len(tokens) < MaxTokens /\ startup' = "issued"
  /\ tokens' = Append(OlderUsed, [state |-> "live", row |-> NoRow])
  /\ UNCHANGED <<file, admin, challenges, loggedIn, used, failures, req, tool, history, authBounds>>

InstallTokenFile ==
  /\ startup = "issued" /\ startup' = "serving" /\ file' = Len(tokens)
  /\ UNCHANGED <<db, failures, req, tool, history, authBounds>>

(* The process ends: its requests and the limiter go with it.               *)
Stop ==
  /\ startup # "down" /\ restarts < MaxRestarts /\ restarts' = restarts + 1
  /\ startup' = "down" /\ failures' = 0 /\ req' = [r \in Visitors |-> IdleRequest]
  /\ UNCHANGED <<file, db, tool, history, enrolments, tries>>

-----------------------------------------------------------------------------
Idle(r) == startup = "serving" /\ req[r].pc = "idle"
VisitorAt(r, pc) == req[r].pc = pc
VisitorGoes(r, pc) == req' = [req EXCEPT ![r].pc = pc]
Return(r) == req' = [req EXCEPT ![r] = IdleRequest]

(* BeginSetup: validSetupToken, then SetSetupEnrollment, which checks again *)
(* that the token is neither used nor expired.                              *)
ReadToken(r, t) ==
  /\ Idle(r) /\ Live(t) /\ enrolments < MaxEnrolments
  /\ req' = [req EXCEPT ![r].pc = "enrol", ![r].token = t]
  /\ UNCHANGED <<startup, file, db, failures, tool, history, authBounds>>
SetSetupEnrollment(r) ==
  /\ VisitorAt(r, "enrol") /\ Return(r)
  /\ enrolments < MaxEnrolments /\ enrolments' = enrolments + 1
  /\ tokens' =
       IF Live(req[r].token)
       THEN [tokens EXCEPT ![req[r].token].row =
               [username |-> enrolments', secret |-> enrolments']]
       ELSE tokens
  /\ UNCHANGED <<startup, file, admin, challenges, loggedIn, used, failures, tool, history,
                 tries, restarts>>

(* CompleteSetup: the row is read, the code verified against its secret ... *)
ReadEnrolment(r, t) ==
  /\ Idle(r) /\ Live(t) /\ tokens[t].row # NoRow
  /\ req' = [req EXCEPT ![r].pc = "complete", ![r].token = t, ![r].row = tokens[t].row]
  /\ UNCHANGED <<startup, file, db, failures, tool, history, authBounds>>

(* ... and the administrator created from what was read, if the token is    *)
(* still unused and there is no administrator yet: not the statement, but   *)
(* the UNIQUE singleton of the table refuses a second one.                  *)
SingletonIsFree == ~Configured
AdminFromBoth(row, now) ==           \* seeded fault: the name is taken from the row as it is now
  [username |-> now.username, secret |-> row.secret, verified |-> row.secret]
AdminFrom(row, now) ==
  [username |-> row.username, secret |-> row.secret, verified |-> row.secret]
LeftLive(row) == row                 \* seeded fault: the token is not consumed
Consumed(row) == [row EXCEPT !.state = "used"]
CompleteSetup(r) ==
  LET t == req[r].token IN
  /\ VisitorAt(r, "complete")
  /\ \/ /\ Live(t) /\ SingletonIsFree
        /\ tokens' = [tokens EXCEPT ![t] = Consumed(@)]
        /\ admin' = AdminFrom(req[r].row, tokens[t].row) /\ VisitorGoes(r, "remove")
     \/ ~(Live(t) /\ SingletonIsFree) /\ Return(r) /\ UNCHANGED <<tokens, admin>>
  /\ UNCHANGED <<startup, file, challenges, loggedIn, used, failures, tool, history, authBounds>>
RemoveTokenFile(r) ==
  /\ VisitorAt(r, "remove") /\ Return(r) /\ file' = 0
  /\ UNCHANGED <<startup, db, failures, tool, history, authBounds>>

-----------------------------------------------------------------------------
(* LoginPassword.  Allow, a slow password check, and RecordFailure or Reset *)
(* are three separate calls.                                                *)
AllowOneMore == failures <= MaxFailures        \* seeded fault: off by one
Allow == failures < MaxFailures
DummyMatches == TRUE                 \* seeded fault: the stand-in hash may match
SomeoneToMatch == Configured
AllowLogin(r) ==
  /\ Idle(r) /\ Allow /\ tries < MaxTries /\ tries' = tries + 1
  /\ VisitorGoes(r, "password")
  /\ UNCHANGED <<startup, file, db, failures, tool, history, enrolments, restarts>>
RecordFailure(r) ==
  /\ VisitorAt(r, "password") /\ Return(r) /\ failures' = failures + 1
  /\ UNCHANGED <<startup, file, db, tool, history, authBounds>>
Reset(r) ==
  /\ VisitorAt(r, "password") /\ SomeoneToMatch /\ VisitorGoes(r, "challenge") /\ failures' = 0
  /\ UNCHANGED <<startup, file, db, tool, history, authBounds>>
CreateAuthChallenge(r) ==
  /\ VisitorAt(r, "challenge") /\ Return(r) /\ Len(challenges) < MaxChallenges
  /\ challenges' = Append(challenges, [state |-> "live", attempts |-> 0])
  /\ UNCHANGED <<startup, file, tokens, admin, loggedIn, used, failures, tool, history, authBounds>>

(* LoginTOTP: the challenge is read and the time taken once; the code is    *)
(* then checked, and the outcome written.                                   *)
MayBeAnsweredUncounted(c) == c.state = "live"         \* seeded fault: attempts are not compared
MayBeAnswered(c) == c.state = "live" /\ c.attempts < MaxAttempts
ReadChallenge(r, c) ==
  /\ Idle(r) /\ c \in DOMAIN challenges /\ MayBeAnswered(challenges[c])
  /\ tries < MaxTries /\ tries' = tries + 1
  /\ req' = [req EXCEPT ![r].pc = "totp", ![r].challenge = c]
  /\ UNCHANGED <<startup, file, db, failures, tool, history, enrolments, restarts>>
IncrementAttempts(r) ==
  LET c == req[r].challenge IN
  /\ VisitorAt(r, "totp") /\ Return(r) /\ wrong' = [wrong EXCEPT ![c] = @ + 1]
  /\ challenges' =
       IF challenges[c].state \in {"live", "expired"}
       THEN [challenges EXCEPT ![c].attempts = @ + 1] ELSE challenges
  /\ UNCHANGED <<startup, file, tokens, admin, loggedIn, used, failures, tool, granted,
                 applied, authBounds>>

(* ConsumeChallengeAndCreateSession: unused, not pruned, and not expired at *)
(* the time the handler took before.                                        *)
ConsumableAgain(c) == c.attempts < MaxAttempts  \* seeded fault: used_at is not looked at
Consumable(c) == c.state \in {"live", "expired"} /\ c.attempts < MaxAttempts
ConsumeChallenge(r) ==
  LET c == req[r].challenge IN
  /\ VisitorAt(r, "totp") /\ Return(r)
  /\ IF Consumable(challenges[c])
     THEN /\ challenges' = [challenges EXCEPT ![c].state = "used"]
          /\ loggedIn' = loggedIn \cup {c} /\ granted' = [granted EXCEPT ![c] = @ + 1]
     ELSE UNCHANGED <<challenges, loggedIn, granted>>
  /\ UNCHANGED <<startup, file, tokens, admin, used, failures, tool, wrong, applied, authBounds>>

(* Logout, or a request that finds its session expired.                     *)
DeleteSession(c) ==
  /\ startup = "serving" /\ c \in loggedIn /\ loggedIn' = loggedIn \ {c}
  /\ UNCHANGED <<startup, file, tokens, admin, challenges, used, failures, req, tool,
                 history, authBounds>>

-----------------------------------------------------------------------------
(* Recover: the code is looked up, the new password hashed, and then one    *)
(* transaction uses the code and ends every session.                        *)
LookUpCode(p, k) ==
  /\ Configured /\ tool[p] = {} /\ k \notin used
  /\ tool' = [tool EXCEPT ![p] = {k}]
  /\ UNCHANGED <<startup, file, db, failures, req, history, authBounds>>
UnusedCodeUnchecked(k) == TRUE           \* seeded fault: only the look-up asks for used_at
UnusedCode(k) == k \notin used
ApplyRecovery(p) ==
  /\ tool' = [tool EXCEPT ![p] = {}]
  /\ \E k \in tool[p] :
       IF UnusedCode(k)
       THEN used' = used \cup {k} /\ loggedIn' = {} /\ applied' = [applied EXCEPT ![k] = @ + 1]
       ELSE UNCHANGED <<used, loggedIn, applied>>
  /\ UNCHANGED <<startup, file, tokens, admin, challenges, failures, req, wrong, granted,
                 authBounds>>

-----------------------------------------------------------------------------
(* Time.                                                                    *)
TokenExpires(t) ==
  /\ Live(t) /\ tokens' = [tokens EXCEPT ![t].state = "expired"]
  /\ UNCHANGED <<startup, file, admin, challenges, loggedIn, used, failures, req, tool,
                 history, authBounds>>
ChallengeExpires(c) ==
  /\ c \in DOMAIN challenges /\ challenges[c].state = "live"
  /\ challenges' = [challenges EXCEPT ![c].state = "expired"]
  /\ UNCHANGED <<startup, file, tokens, admin, loggedIn, used, failures, req, tool,
                 history, authBounds>>
FailureAges ==
  /\ failures > 0 /\ failures' = failures - 1
  /\ UNCHANGED <<startup, file, db, req, tool, history, authBounds>>

(* PruneExpiredAuth, hourly.                                                *)
PrunedRows(rows) ==
  [i \in DOMAIN rows |->
     IF rows[i].state \in {"used", "expired"} THEN [rows[i] EXCEPT !.state = "gone"] ELSE rows[i]]
PruneExpiredAuth ==
  /\ startup = "serving" /\ tokens' = PrunedRows(tokens) /\ challenges' = PrunedRows(challenges)
  /\ loggedIn' \in SUBSET loggedIn           \* sessions whose time is over
  /\ UNCHANGED <<startup, file, admin, used, failures, req, tool, history, authBounds>>

Setup(r) ==
  \/ \E t \in SetupTokens : ReadToken(r, t) \/ ReadEnrolment(r, t)
  \/ SetSetupEnrollment(r) \/ CompleteSetup(r) \/ RemoveTokenFile(r)
Login(r) ==
  \/ AllowLogin(r) \/ RecordFailure(r) \/ Reset(r) \/ CreateAuthChallenge(r)
  \/ \E c \in Challenges : ReadChallenge(r, c)
  \/ IncrementAttempts(r) \/ ConsumeChallenge(r)

AuthNext ==
  \/ StartConfigured \/ IssueBootstrapToken \/ InstallTokenFile \/ Stop
  \/ \E r \in Visitors : Setup(r) \/ Login(r)
  \/ \E c \in Challenges : DeleteSession(c) \/ ChallengeExpires(c)
  \/ \E p \in Tools : ApplyRecovery(p) \/ \E k \in Codes : LookUpCode(p, k)
  \/ \E t \in SetupTokens : TokenExpires(t)
  \/ FailureAges \/ PruneExpiredAuth

AuthSpec == AuthInit /\ [][AuthNext]_authVars

-----------------------------------------------------------------------------
States == {"live", "used", "expired", "gone"}
Enrolments == 0..MaxEnrolments
Rows == [username : Enrolments, secret : Enrolments]
(* Types; a session was granted by a challenge of an existing administrator. *)
AuthTypeOK ==
  /\ startup \in {"down", "issued", "serving"} /\ file \in 0..Len(tokens)
  /\ Len(tokens) <= MaxTokens
  /\ \A t \in DOMAIN tokens : tokens[t].state \in States /\ tokens[t].row \in Rows
  /\ admin \in [username : Enrolments, secret : Enrolments, verified : Enrolments]
  /\ Len(challenges) <= MaxChallenges
  /\ \A c \in DOMAIN challenges : challenges[c].state \in States /\ challenges[c].attempts \in Nat
  /\ loggedIn \subseteq DOMAIN challenges /\ (challenges # <<>> => Configured)
  /\ used \subseteq Codes /\ failures \in Nat /\ tool \in [Tools -> SUBSET Codes]
  /\ \A r \in Visitors :
       req[r].pc \in {"idle", "enrol", "complete", "remove", "password", "challenge", "totp"}
  /\ enrolments \in Enrolments /\ tries \in 0..MaxTries /\ restarts \in 0..MaxRestarts

(* Once there is an administrator no setup token can be used any more,      *)
(* however many starts have issued one (auth_repository.go:21, 78).         *)
SetupIsClosed == Configured => \A t \in DOMAIN tokens : ~Live(t)

(* The administrator's name, secret and the code that was verified belong   *)
(* to one enrolment, also when BeginSetup is repeated in between            *)
(* (service.go:171-215).                                                    *)
EnrolmentIsWhole ==
  admin.username = admin.secret /\ admin.secret = admin.verified

(* While setup is open the file holds the newest token and none is usable   *)
(* that the file does not show; once it is done the file is gone, or being  *)
(* removed, also when the process ended between the commit and the removal  *)
(* (tokenfile.go:34-38, 71-80, auth_handlers.go:53).                        *)
TokenFileIsRight ==
  startup = "serving" =>
    IF Configured THEN file # 0 => \E r \in Visitors : VisitorAt(r, "remove")
    ELSE file = Len(tokens) /\ \A t \in DOMAIN tokens : Live(t) => t = file

(* Setup leaves one whole administrator and no way back in.                 *)
SetupIsSound == SetupIsClosed /\ EnrolmentIsWhole /\ TokenFileIsRight

(* A challenge grants one session at most, whatever requests answer it at   *)
(* the same time (auth_repository.go:173-193).                              *)
ChallengeGrantsOnce == \A c \in Challenges : granted[c] <= 1

(* Concurrent answers all read the attempts before one of them is counted:  *)
(* a challenge takes at most maxChallengeAttempts wrong codes and one more  *)
(* per other request in flight (service.go:278-290).                        *)
WrongCodesAreBounded ==
  \A c \in Challenges : wrong[c] <= MaxAttempts + Cardinality(Visitors) - 1

(* In the same way the limiter lets maxFailures wrong passwords of a window *)
(* through and one more per other request in flight (limiter.go:37-58).     *)
FailuresAreBounded == failures <= MaxFailures + Cardinality(Visitors) - 1

(* What a guesser gets out of concurrent requests.                          *)
GuessesAreBounded == WrongCodesAreBounded /\ FailuresAreBounded

(* A recovery code works once, also for two recoveries that have both found *)
(* it unused (auth_repository.go:245-252).                                  *)
RecoveryCodeWorksOnce == \A k \in Codes : applied[k] <= 1

(* A session that ended, by logout or by a recovery, does not come back.    *)
EndedSessionsStayEnded ==
  [][\A c \in Challenges : granted[c] > 0 /\ c \notin loggedIn => c \notin loggedIn']_authVars

(* What was used up or ended stays so.                                      *)
SecretsWorkOnce == [](ChallengeGrantsOnce /\ RecoveryCodeWorksOnce) /\ EndedSessionsStayEnded
=============================================================================
