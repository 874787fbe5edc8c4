----------------------------- MODULE Auth_proofs -----------------------------
(***************************************************************************)
(* Proofs about module Auth: for any number of requests, recoveries, codes, *)
(* attempts and failures, setup leaves one whole administrator and no way   *)
(* back in, concurrent guesses stay bounded, and what was used up or ended  *)
(* stays so.                                                                *)
(***************************************************************************)
EXTENDS Auth, FiniteSetTheorems, TLAPS

-----------------------------------------------------------------------------
(* The inductive invariant.  Types, the rows of the tables as records.      *)
TokenRows == [state : States, row : Rows]
ChallengeRows == [state : States, attempts : Nat]
Places == {"idle", "enrol", "complete", "remove", "password", "challenge", "totp"}
AuthRequests == [pc : Places, token : 0..MaxTokens, row : Rows, challenge : 0..MaxChallenges]

SetupTyped ==
  /\ startup \in {"down", "issued", "serving"} /\ file \in 0..Len(tokens)
  /\ tokens \in Seq(TokenRows) /\ Len(tokens) <= MaxTokens
  /\ admin \in [username : Enrolments, secret : Enrolments, verified : Enrolments]
  /\ enrolments \in Enrolments
LoginTyped ==
  /\ challenges \in Seq(ChallengeRows) /\ Len(challenges) <= MaxChallenges
  /\ loggedIn \subseteq DOMAIN challenges /\ failures \in Nat
  /\ wrong \in [Challenges -> Nat] /\ granted \in [Challenges -> Nat]
  /\ tries \in 0..MaxTries /\ restarts \in 0..MaxRestarts
RecoveryTyped ==
  /\ used \subseteq Codes /\ tool \in [Tools -> SUBSET Codes] /\ applied \in [Codes -> Nat]
RequestsTyped == req \in [Visitors -> AuthRequests]
AuthTyped == SetupTyped /\ LoginTyped /\ RecoveryTyped /\ RequestsTyped

(* What a request has read still names a row, and a request lives in a      *)
(* process that serves.                                                     *)
Whole(row) == row.username = row.secret
RequestIsValid(r) ==
  /\ req[r].pc # "idle" => startup = "serving"
  /\ req[r].pc \in {"enrol", "complete"} => req[r].token \in DOMAIN tokens
  /\ req[r].pc = "complete" => req[r].row # NoRow /\ Whole(req[r].row)
  /\ req[r].pc \in {"remove", "challenge"} => Configured
  /\ req[r].pc = "totp" => req[r].challenge \in DOMAIN challenges
RequestsAreValid == \A r \in Visitors : RequestIsValid(r)

(* Only the newest token can be live, every enrolment is whole, and a new   *)
(* token is issued only while there is no administrator.                    *)
SetupInv ==
  /\ SetupIsSound
  /\ \A t \in DOMAIN tokens : Whole(tokens[t].row) /\ (Live(t) => t = Len(tokens))
  /\ startup = "issued" => ~Configured
  /\ challenges # <<>> => Configured

(* A request in flight may still add the one wrong code, or the one failed  *)
(* password, that it was let in for.                                        *)
Passing == {r \in Visitors : req[r].pc = "password"}
Answering(c) == {r \in Visitors : req[r].pc = "totp" /\ req[r].challenge = c}
GuessesInFlight ==
  /\ failures + Cardinality(Passing) <= MaxFailures + Cardinality(Visitors) - 1
  /\ \A c \in Challenges :
       wrong[c] + Cardinality(Answering(c)) <= MaxAttempts + Cardinality(Visitors) - 1

(* An unused challenge has granted nothing and counts its wrong codes; one  *)
(* that does not exist yet has neither.                                     *)
ChallengesCount ==
  /\ \A c \in DOMAIN challenges : challenges[c].state \in {"live", "expired"} =>
       granted[c] = 0 /\ wrong[c] = challenges[c].attempts
  /\ \A c \in Challenges \ DOMAIN challenges : granted[c] = 0 /\ wrong[c] = 0
  /\ ChallengeGrantsOnce
CodesCount == \A k \in Codes : applied[k] <= 1 /\ (k \notin used => applied[k] = 0)

AuthInv ==
  /\ AuthTyped /\ RequestsAreValid /\ SetupInv /\ GuessesInFlight /\ ChallengesCount /\ CodesCount

-----------------------------------------------------------------------------
(* Lemmas about the model's operators.  A handler's step moves its request  *)
(* and no other one.                                                        *)
OthersStay(r) == req' \in [Visitors -> AuthRequests] /\ \A v \in Visitors \ {r} : req'[v] = req[v]
Moved(r, place, token, row, challenge) ==
  /\ OthersStay(r) /\ req'[r].pc = place /\ req'[r].token = token /\ req'[r].row = row
  /\ req'[r].challenge = challenge

LEMMA Constants ==
  /\ MaxTokens \in Nat /\ MaxEnrolments \in Nat /\ MaxChallenges \in Nat /\ MaxTries \in Nat
  /\ MaxRestarts \in Nat /\ MaxAttempts \in Nat /\ MaxAttempts >= 1
  /\ MaxFailures \in Nat /\ MaxFailures >= 1
  /\ Cardinality(Visitors) \in Nat /\ IsFiniteSet(Visitors)
<1>1. IsFiniteSet(Visitors) /\ Cardinality(Visitors) \in Nat
  BY AuthAssumption, FS_CardinalityType
<1> QED
  BY <1>1, AuthAssumption

LEMMA Sets ==
  /\ NoRow \in Rows /\ Whole(NoRow) /\ IdleRequest \in AuthRequests /\ IdleRequest.pc = "idle"
  /\ NoAdmin \in [username : Enrolments, secret : Enrolments, verified : Enrolments]
  /\ SetupTokens = 1..MaxTokens /\ Challenges = 1..MaxChallenges
BY Constants DEF NoRow, Rows, Whole, IdleRequest, AuthRequests, Places, NoAdmin, Enrolments,
                 SetupTokens, Challenges

LEMMA RequestReplaced ==
  ASSUME RequestsTyped, NEW r \in Visitors, NEW s \in AuthRequests, req' = [req EXCEPT ![r] = s]
  PROVE  Moved(r, s.pc, s.token, s.row, s.challenge)
BY DEF RequestsTyped, Moved, OthersStay

LEMMA RequestReturns ==
  ASSUME RequestsTyped, NEW r \in Visitors, Return(r)
  PROVE  Moved(r, "idle", 0, NoRow, 0)
<1>1. Moved(r, IdleRequest.pc, IdleRequest.token, IdleRequest.row, IdleRequest.challenge)
  BY Sets, RequestReplaced DEF Return
<1> QED
  BY <1>1 DEF IdleRequest

LEMMA RequestGoes ==
  ASSUME RequestsTyped, NEW r \in Visitors, NEW place \in Places, VisitorGoes(r, place)
  PROVE  Moved(r, place, req[r].token, req[r].row, req[r].challenge)
<1> DEFINE s == [req[r] EXCEPT !.pc = place]
<1>1. s \in AuthRequests /\ s.pc = place /\ s.token = req[r].token /\ s.row = req[r].row
      /\ s.challenge = req[r].challenge
  BY DEF RequestsTyped, AuthRequests
<1>2. req' = [req EXCEPT ![r] = s]
  BY DEF VisitorGoes
<1> HIDE DEF s
<1>3. Moved(r, s.pc, s.token, s.row, s.challenge)
  BY <1>1, <1>2, RequestReplaced
<1> QED
  BY <1>1, <1>3

LEMMA RequestReads ==
  ASSUME RequestsTyped, NEW r \in Visitors
  PROVE  /\ \A t \in SetupTokens : ReadToken(r, t) =>
              Moved(r, "enrol", t, req[r].row, req[r].challenge)
         /\ \A t \in SetupTokens : ReadEnrolment(r, t) /\ tokens[t].row \in Rows =>
              Moved(r, "complete", t, tokens[t].row, req[r].challenge)
         /\ \A c \in Challenges : ReadChallenge(r, c) =>
              Moved(r, "totp", req[r].token, req[r].row, c)
<1>a. req[r] \in AuthRequests
  BY DEF RequestsTyped
<1>b. SetupTokens \subseteq 0..MaxTokens /\ Challenges \subseteq 0..MaxChallenges
  BY Sets, Constants
<1>c. {"enrol", "complete", "totp"} \subseteq Places
  BY DEF Places
<1>1. ASSUME NEW t \in SetupTokens, ReadToken(r, t)
      PROVE  Moved(r, "enrol", t, req[r].row, req[r].challenge)
  <2>0. PICK s : s = [req[r] EXCEPT !.pc = "enrol", !.token = t]
    OBVIOUS
  <2>1. s \in AuthRequests /\ s.pc = "enrol" /\ s.token = t /\ s.row = req[r].row
        /\ s.challenge = req[r].challenge
    BY <1>a, <1>b, <1>c, <2>0 DEF AuthRequests
  <2>2. req' = [req EXCEPT ![r] = s]
    BY <2>0, <1>1 DEF ReadToken, RequestsTyped, AuthRequests
  <2>3. Moved(r, s.pc, s.token, s.row, s.challenge)
    BY <2>1, <2>2, RequestReplaced
  <2> QED
    BY <2>1, <2>3
<1>2. ASSUME NEW t \in SetupTokens, ReadEnrolment(r, t), tokens[t].row \in Rows
      PROVE  Moved(r, "complete", t, tokens[t].row, req[r].challenge)
  <2>0. PICK s : s = [req[r] EXCEPT !.pc = "complete", !.token = t, !.row = tokens[t].row]
    OBVIOUS
  <2>1. s \in AuthRequests /\ s.pc = "complete" /\ s.token = t /\ s.row = tokens[t].row
        /\ s.challenge = req[r].challenge
    BY <1>2, <1>a, <1>b, <1>c, <2>0 DEF AuthRequests
  <2>2. req' = [req EXCEPT ![r] = s]
    BY <2>0, <1>2 DEF ReadEnrolment, RequestsTyped, AuthRequests
  <2>3. Moved(r, s.pc, s.token, s.row, s.challenge)
    BY <2>1, <2>2, RequestReplaced
  <2> QED
    BY <2>1, <2>3
<1>3. ASSUME NEW c \in Challenges, ReadChallenge(r, c)
      PROVE  Moved(r, "totp", req[r].token, req[r].row, c)
  <2>0. PICK s : s = [req[r] EXCEPT !.pc = "totp", !.challenge = c]
    OBVIOUS
  <2>1. s \in AuthRequests /\ s.pc = "totp" /\ s.token = req[r].token /\ s.row = req[r].row
        /\ s.challenge = c
    BY <1>a, <1>b, <1>c, <2>0 DEF AuthRequests
  <2>2. req' = [req EXCEPT ![r] = s]
    BY <2>0, <1>3 DEF ReadChallenge, RequestsTyped, AuthRequests
  <2>3. Moved(r, s.pc, s.token, s.row, s.challenge)
    BY <2>1, <2>2, RequestReplaced
  <2> QED
    BY <2>1, <2>3
<1> QED
  BY <1>1, <1>2, <1>3

(* Counting requests: a step of one request changes a count by what that    *)
(* request was and is.                                                      *)
One(condition) == IF condition THEN 1 ELSE 0

LEMMA CountOne ==
  ASSUME NEW S, IsFiniteSet(S), NEW P \in SUBSET S, NEW Q \in SUBSET S, NEW x \in S,
         P \ {x} = Q \ {x}
  PROVE  /\ Cardinality(P) \in Nat /\ Cardinality(Q) \in Nat /\ Cardinality(P) <= Cardinality(S)
         /\ Cardinality(Q) + One(x \in P) = Cardinality(P) + One(x \in Q)
<1> DEFINE R == P \ {x}
<1>1. IsFiniteSet(P) /\ IsFiniteSet(Q) /\ IsFiniteSet(R) /\ Cardinality(P) <= Cardinality(S)
  BY FS_Subset
<1>2. Cardinality(P) \in Nat /\ Cardinality(Q) \in Nat /\ Cardinality(R) \in Nat
  BY <1>1, FS_CardinalityType
<1>3. Cardinality(P) = Cardinality(R) + One(x \in P)
  <2>1. CASE x \in P
    <3>1. P = R \cup {x} /\ x \notin R
      BY <2>1
    <3> HIDE DEF R
    <3> QED
      BY <1>1, <1>2, <2>1, <3>1, FS_AddElement DEF One
  <2>2. CASE x \notin P
    <3>1. P = R
      BY <2>2
    <3> HIDE DEF R
    <3> QED
      BY <1>2, <2>2, <3>1 DEF One
  <2> QED
    BY <2>1, <2>2
<1>4. Cardinality(Q) = Cardinality(R) + One(x \in Q)
  <2>1. CASE x \in Q
    <3>1. Q = R \cup {x} /\ x \notin R
      BY <2>1
    <3> HIDE DEF R
    <3> QED
      BY <1>1, <1>2, <2>1, <3>1, FS_AddElement DEF One
  <2>2. CASE x \notin Q
    <3>1. Q = R
      BY <2>2
    <3> HIDE DEF R
    <3> QED
      BY <1>2, <2>2, <3>1 DEF One
  <2> QED
    BY <2>1, <2>2
<1> HIDE DEF R
<1> QED
  BY <1>1, <1>2, <1>3, <1>4 DEF One

LEMMA RequestsCount ==
  ASSUME NEW r \in Visitors, OthersStay(r), NEW c
  PROVE  /\ Cardinality(Passing) \in Nat /\ Cardinality(Passing') \in Nat
         /\ Cardinality(Passing) <= Cardinality(Visitors)
         /\ Cardinality(Passing') + One(req[r].pc = "password")
              = Cardinality(Passing) + One(req'[r].pc = "password")
         /\ Cardinality(Passing') <= Cardinality(Visitors)
         /\ Cardinality(Answering(c)) \in Nat /\ Cardinality(Answering(c)') \in Nat
         /\ Cardinality(Answering(c)) <= Cardinality(Visitors)
         /\ Cardinality(Answering(c)') <= Cardinality(Visitors)
         /\ Cardinality(Answering(c)') + One(req[r].pc = "totp" /\ req[r].challenge = c)
              = Cardinality(Answering(c)) + One(req'[r].pc = "totp" /\ req'[r].challenge = c)
<1> DEFINE P == Passing
           Q == Passing'
           M == Answering(c)
           N == Answering(c)'
<1>1. /\ P \in SUBSET Visitors /\ Q \in SUBSET Visitors /\ P \ {r} = Q \ {r}
      /\ (r \in P <=> req[r].pc = "password") /\ (r \in Q <=> req'[r].pc = "password")
  BY DEF Passing, OthersStay
<1>2. /\ M \in SUBSET Visitors /\ N \in SUBSET Visitors /\ M \ {r} = N \ {r}
      /\ (r \in M <=> req[r].pc = "totp" /\ req[r].challenge = c)
      /\ (r \in N <=> req'[r].pc = "totp" /\ req'[r].challenge = c)
  BY DEF Answering, OthersStay
<1> HIDE DEF P, Q, M, N
<1>3. /\ Cardinality(P) \in Nat /\ Cardinality(Q) \in Nat
      /\ Cardinality(P) <= Cardinality(Visitors) /\ Cardinality(Q) <= Cardinality(Visitors)
      /\ Cardinality(Q) + One(r \in P) = Cardinality(P) + One(r \in Q)
  BY <1>1, CountOne, Constants
<1>4. /\ Cardinality(M) \in Nat /\ Cardinality(N) \in Nat
      /\ Cardinality(M) <= Cardinality(Visitors) /\ Cardinality(N) <= Cardinality(Visitors)
      /\ Cardinality(N) + One(r \in M) = Cardinality(M) + One(r \in N)
  BY <1>2, CountOne, Constants
<1>5. /\ One(r \in P) = One(req[r].pc = "password")
      /\ One(r \in Q) = One(req'[r].pc = "password")
      /\ One(r \in M) = One(req[r].pc = "totp" /\ req[r].challenge = c)
      /\ One(r \in N) = One(req'[r].pc = "totp" /\ req'[r].challenge = c)
  BY <1>1, <1>2 DEF One
<1> QED
  BY <1>3, <1>4, <1>5 DEF P, Q, M, N

LEMMA NobodyCounts ==
  ASSUME \A r \in Visitors : req[r].pc = "idle", NEW c
  PROVE  Cardinality(Passing) = 0 /\ Cardinality(Answering(c)) = 0
<1>1. Passing = {} /\ Answering(c) = {}
  BY DEF Passing, Answering
<1> QED
  BY <1>1, FS_EmptySet

(* The tables.  Except for a new row, a step of setup keeps every token,    *)
(* makes none live again and leaves whole enrolments whole; a step of login *)
(* keeps every challenge, and those that can still be used their attempts.  *)
TokensKept ==
  /\ tokens' \in Seq(TokenRows) /\ Len(tokens') = Len(tokens)
  /\ \A t \in DOMAIN tokens :
       /\ tokens'[t].state = "live" => tokens[t].state = "live"
       /\ Whole(tokens[t].row) => Whole(tokens'[t].row)
ChallengesKept ==
  /\ challenges' \in Seq(ChallengeRows) /\ Len(challenges') = Len(challenges)
  /\ \A c \in DOMAIN challenges : challenges'[c].state \in {"live", "expired"} =>
       /\ challenges[c].state \in {"live", "expired"}
       /\ challenges'[c].attempts = challenges[c].attempts

LEMMA TableOf ==
  ASSUME NEW S, NEW old \in Seq(S), NEW new, NEW T,
         new = [i \in DOMAIN old |-> new[i]], \A i \in DOMAIN old : new[i] \in T
  PROVE  /\ new \in Seq(T) /\ Len(new) = Len(old) /\ DOMAIN new = DOMAIN old
         /\ DOMAIN old = 1..Len(old) /\ Len(old) \in Nat
<1>1. DOMAIN old = 1..Len(old) /\ Len(old) \in Nat
  OBVIOUS
<1>2. new \in [1..Len(old) -> T]
  BY <1>1
<1> QED
  BY <1>1, <1>2

LEMMA TokenTypes ==
  ASSUME SetupTyped, NEW t \in DOMAIN tokens
  PROVE  tokens[t] \in TokenRows /\ tokens[t].row \in Rows
<1>1. tokens[t] \in TokenRows
  BY DEF SetupTyped
<1> QED
  BY <1>1 DEF TokenRows

LEMMA RowStates ==
  ASSUME NEW row \in TokenRows
  PROVE  \A s \in States : /\ [row EXCEPT !.state = s] \in TokenRows
                           /\ [row EXCEPT !.state = s].state = s
                           /\ [row EXCEPT !.state = s].row = row.row
BY DEF TokenRows

LEMMA RowEnrolled ==
  ASSUME NEW row \in TokenRows
  PROVE  \A e \in Rows : /\ [row EXCEPT !.row = e] \in TokenRows
                         /\ [row EXCEPT !.row = e].state = row.state
                         /\ [row EXCEPT !.row = e].row = e
BY DEF TokenRows

LEMMA ChallengeStates ==
  ASSUME NEW row \in ChallengeRows
  PROVE  \A s \in States : /\ [row EXCEPT !.state = s] \in ChallengeRows
                           /\ [row EXCEPT !.state = s].state = s
                           /\ [row EXCEPT !.state = s].attempts = row.attempts
BY DEF ChallengeRows

LEMMA StateNames ==
  /\ "live" \in States /\ "used" \in States /\ "expired" \in States /\ "gone" \in States
  /\ "live" # "used" /\ "live" # "expired" /\ "live" # "gone" /\ "expired" # "used"
  /\ "gone" # "used" /\ "gone" # "expired"
BY DEF States

LEMMA OlderAreUsed ==
  ASSUME SetupTyped
  PROVE  /\ OlderUsed \in Seq(TokenRows) /\ Len(OlderUsed) = Len(tokens)
         /\ \A t \in 1..Len(tokens) :
              OlderUsed[t].state # "live" /\ OlderUsed[t].row = tokens[t].row
<1>1. tokens \in Seq(TokenRows) /\ \A t \in DOMAIN tokens : tokens[t] \in TokenRows
  BY DEF SetupTyped
<1>2. \A t \in DOMAIN tokens : /\ OlderUsed[t] \in TokenRows /\ OlderUsed[t].state # "live"
                               /\ OlderUsed[t].row = tokens[t].row
  <2> TAKE t \in DOMAIN tokens
  <2>1. CASE tokens[t].state = "live"
    <3>1. OlderUsed[t] = [tokens[t] EXCEPT !.state = "used"]
      BY <2>1 DEF OlderUsed
    <3> QED
      BY <1>1, <3>1, RowStates, StateNames
  <2>2. CASE tokens[t].state # "live"
    <3>1. OlderUsed[t] = tokens[t]
      BY <2>2 DEF OlderUsed
    <3> QED
      BY <1>1, <2>2, <3>1
  <2> QED
    BY <2>1, <2>2
<1>3. OlderUsed = [t \in DOMAIN tokens |-> OlderUsed[t]]
  BY DEF OlderUsed
<1> QED
  BY <1>1, <1>2, <1>3, TableOf

LEMMA Unchanged ==
  /\ SetupTyped /\ UNCHANGED tokens => TokensKept
  /\ LoginTyped /\ UNCHANGED challenges => ChallengesKept
BY DEF TokensKept, ChallengesKept, SetupTyped, LoginTyped

LEMMA PruningKeeps ==
  ASSUME SetupTyped, LoginTyped, PruneExpiredAuth
  PROVE  TokensKept /\ ChallengesKept /\ loggedIn' \subseteq loggedIn
<1>1. tokens \in Seq(TokenRows) /\ \A t \in DOMAIN tokens : tokens[t] \in TokenRows
  BY DEF SetupTyped
<1>2. challenges \in Seq(ChallengeRows) /\ \A c \in DOMAIN challenges : challenges[c] \in ChallengeRows
  BY DEF LoginTyped
<1>3. \A t \in DOMAIN tokens : /\ tokens'[t] \in TokenRows /\ tokens'[t].row = tokens[t].row
                               /\ tokens'[t].state = "live" => tokens[t].state = "live"
  <2> TAKE t \in DOMAIN tokens
  <2>1. CASE tokens[t].state \in {"used", "expired"}
    <3>1. tokens'[t] = [tokens[t] EXCEPT !.state = "gone"]
      BY <2>1 DEF PruneExpiredAuth, PrunedRows
    <3> QED
      BY <1>1, <3>1, RowStates, StateNames
  <2>2. CASE tokens[t].state \notin {"used", "expired"}
    <3>1. tokens'[t] = tokens[t]
      BY <2>2 DEF PruneExpiredAuth, PrunedRows
    <3> QED
      BY <1>1, <3>1
  <2> QED
    BY <2>1, <2>2
<1>4. \A c \in DOMAIN challenges :
        /\ challenges'[c] \in ChallengeRows /\ challenges'[c].attempts = challenges[c].attempts
        /\ challenges'[c].state \in {"live", "expired"} => challenges[c].state \in {"live", "expired"}
  <2> TAKE c \in DOMAIN challenges
  <2>1. CASE challenges[c].state \in {"used", "expired"}
    <3>1. challenges'[c] = [challenges[c] EXCEPT !.state = "gone"]
      BY <2>1 DEF PruneExpiredAuth, PrunedRows
    <3> QED
      BY <1>2, <3>1, ChallengeStates, StateNames
  <2>2. CASE challenges[c].state \notin {"used", "expired"}
    <3>1. challenges'[c] = challenges[c]
      BY <2>2 DEF PruneExpiredAuth, PrunedRows
    <3> QED
      BY <1>2, <3>1
  <2> QED
    BY <2>1, <2>2
<1>5. tokens' = [t \in DOMAIN tokens |-> tokens'[t]]
  BY DEF PruneExpiredAuth, PrunedRows
<1>6. challenges' = [c \in DOMAIN challenges |-> challenges'[c]]
  BY DEF PruneExpiredAuth, PrunedRows
<1>7. tokens' \in Seq(TokenRows) /\ Len(tokens') = Len(tokens)
  BY <1>1, <1>3, <1>5, TableOf
<1>8. challenges' \in Seq(ChallengeRows) /\ Len(challenges') = Len(challenges)
  BY <1>2, <1>4, <1>6, TableOf
<1> QED
  BY <1>3, <1>4, <1>7, <1>8 DEF PruneExpiredAuth, TokensKept, ChallengesKept

LEMMA TokenReplaced ==
  ASSUME SetupTyped, NEW t \in DOMAIN tokens, NEW n \in TokenRows,
         tokens' = [tokens EXCEPT ![t] = n],
         n.state = "live" => tokens[t].state = "live", Whole(tokens[t].row) => Whole(n.row)
  PROVE  TokensKept
<1>1. tokens \in Seq(TokenRows) /\ \A u \in DOMAIN tokens : tokens[u] \in TokenRows
  BY DEF SetupTyped
<1>2. /\ tokens' = [u \in DOMAIN tokens |-> tokens'[u]]
      /\ \A u \in DOMAIN tokens : tokens'[u] = IF u = t THEN n ELSE tokens[u]
  OBVIOUS
<1>3. tokens' \in Seq(TokenRows) /\ Len(tokens') = Len(tokens)
  BY <1>1, <1>2, TableOf
<1> QED
  BY <1>2, <1>3 DEF TokensKept

LEMMA ChallengeReplaced ==
  ASSUME LoginTyped, NEW c \in DOMAIN challenges, NEW n \in ChallengeRows,
         challenges' = [challenges EXCEPT ![c] = n]
  PROVE  /\ challenges' \in Seq(ChallengeRows) /\ Len(challenges') = Len(challenges)
         /\ DOMAIN challenges' = DOMAIN challenges
         /\ \A d \in DOMAIN challenges : challenges'[d] = IF d = c THEN n ELSE challenges[d]
<1>1. challenges \in Seq(ChallengeRows) /\ \A d \in DOMAIN challenges : challenges[d] \in ChallengeRows
  BY DEF LoginTyped
<1>2. /\ challenges' = [d \in DOMAIN challenges |-> challenges'[d]]
      /\ \A d \in DOMAIN challenges : challenges'[d] = IF d = c THEN n ELSE challenges[d]
  OBVIOUS
<1>3. challenges' \in Seq(ChallengeRows) /\ Len(challenges') = Len(challenges)
      /\ DOMAIN challenges' = DOMAIN challenges
  BY <1>1, <1>2, TableOf
<1> QED
  BY <1>2, <1>3

LEMMA EnrolmentKeeps ==
  ASSUME SetupTyped, NEW r \in Visitors, SetSetupEnrollment(r)
  PROVE  TokensKept /\ enrolments' \in Enrolments
<1> DEFINE t == req[r].token
           e == [username |-> enrolments', secret |-> enrolments']
<1>1. enrolments' \in Enrolments
  BY Constants, SMTT(30) DEF SetSetupEnrollment, SetupTyped, Enrolments
<1>2. e \in Rows /\ Whole(e)
  BY <1>1 DEF Rows, Whole
<1>3. CASE Live(t)
  <2> DEFINE n == [tokens[t] EXCEPT !.row = e]
  <2>1. t \in DOMAIN tokens /\ tokens[t] \in TokenRows
    BY <1>3 DEF Live, SetupTyped
  <2>2. tokens' = [tokens EXCEPT ![t] = n]
    BY <1>3, <2>1 DEF SetSetupEnrollment
  <2>3. n \in TokenRows /\ n.state = tokens[t].state /\ n.row = e
    BY <1>2, <2>1, RowEnrolled
  <2> HIDE DEF n, e, t
  <2>4. TokensKept
    BY <1>2, <2>1, <2>2, <2>3, TokenReplaced
  <2> QED
    BY <1>1, <2>4
<1>4. CASE ~Live(t)
  BY <1>1, <1>4, Unchanged DEF SetSetupEnrollment
<1> QED
  BY <1>3, <1>4

LEMMA TokenStateKeeps ==
  ASSUME SetupTyped, NEW t \in DOMAIN tokens, NEW s \in States \ {"live"},
         tokens' = [tokens EXCEPT ![t] = [@ EXCEPT !.state = s]]
  PROVE  TokensKept /\ tokens'[t].state = s
<1> DEFINE n == [tokens[t] EXCEPT !.state = s]
<1>1. tokens[t] \in TokenRows
  BY DEF SetupTyped
<1>2. n \in TokenRows /\ n.state = s /\ n.row = tokens[t].row
  BY <1>1, RowStates
<1>3. tokens' = [tokens EXCEPT ![t] = n] /\ tokens'[t] = n
  OBVIOUS
<1> HIDE DEF n
<1> QED
  BY <1>2, <1>3, TokenReplaced

LEMMA CompletionFacts ==
  ASSUME SetupTyped, RequestsTyped, NEW r \in Visitors, RequestIsValid(r), CompleteSetup(r)
  PROVE  /\ TokensKept /\ startup = "serving"
         /\ \/ /\ Live(req[r].token) /\ ~Configured /\ tokens'[req[r].token].state = "used"
               /\ admin' = AdminFrom(req[r].row, tokens[req[r].token].row)
               /\ Moved(r, "remove", req[r].token, req[r].row, req[r].challenge)
            \/ UNCHANGED <<tokens, admin>> /\ Moved(r, "idle", 0, NoRow, 0)
<1> DEFINE t == req[r].token
<1>0. startup = "serving"
  BY DEF CompleteSetup, SingletonIsFree, VisitorAt, RequestIsValid
<1>1. CASE Live(t) /\ ~Configured
  <2>1. /\ t \in DOMAIN tokens /\ tokens' = [tokens EXCEPT ![t] = [@ EXCEPT !.state = "used"]]
        /\ VisitorGoes(r, "remove") /\ admin' = AdminFrom(req[r].row, tokens[t].row)
    BY <1>1 DEF CompleteSetup, SingletonIsFree, Live, Consumed
  <2>2. TokensKept /\ tokens'[t].state = "used"
    BY <2>1, TokenStateKeeps, StateNames
  <2>3. Moved(r, "remove", req[r].token, req[r].row, req[r].challenge)
    BY <2>1, RequestGoes DEF Places
  <2> QED
    BY <1>0, <1>1, <2>1, <2>2, <2>3
<1>2. CASE ~(Live(t) /\ ~Configured)
  <2>1. UNCHANGED <<tokens, admin>> /\ Return(r)
    BY <1>2 DEF CompleteSetup, SingletonIsFree
  <2> QED
    BY <1>0, <2>1, RequestReturns, Unchanged
<1> QED
  BY <1>1, <1>2

LEMMA ChallengeStateKeeps ==
  ASSUME LoginTyped, NEW c \in DOMAIN challenges, NEW s \in States \ {"live"},
         challenges[c].state \in {"live", "expired"} \/ s \notin {"live", "expired"},
         challenges' = [challenges EXCEPT ![c].state = s]
  PROVE  ChallengesKept /\ challenges'[c].state = s
<1> DEFINE n == [challenges[c] EXCEPT !.state = s]
<1>1. challenges[c] \in ChallengeRows
  BY DEF LoginTyped
<1>2. n \in ChallengeRows /\ n.state = s /\ n.attempts = challenges[c].attempts
  BY <1>1, ChallengeStates
<1>3. challenges' = [challenges EXCEPT ![c] = n] /\ challenges'[c] = n
  OBVIOUS
<1> HIDE DEF n
<1>4. /\ challenges' \in Seq(ChallengeRows) /\ Len(challenges') = Len(challenges)
      /\ \A d \in DOMAIN challenges : challenges'[d] = IF d = c THEN n ELSE challenges[d]
  BY <1>2, <1>3, ChallengeReplaced
<1> QED
  BY <1>2, <1>3, <1>4 DEF ChallengesKept

LEMMA ExpiryFacts ==
  ASSUME LoginTyped, NEW c, ChallengeExpires(c)
  PROVE  ChallengesKept
BY ChallengeStateKeeps, StateNames DEF ChallengeExpires

LEMMA CreationFacts ==
  ASSUME LoginTyped, NEW r, CreateAuthChallenge(r)
  PROVE  /\ challenges' \in Seq(ChallengeRows) /\ Len(challenges') = Len(challenges) + 1
         /\ Len(challenges') <= MaxChallenges /\ Len(challenges) \in Nat
         /\ DOMAIN challenges = 1..Len(challenges) /\ DOMAIN challenges' = 1..Len(challenges')
         /\ \A c \in DOMAIN challenges : challenges'[c] = challenges[c]
         /\ challenges'[Len(challenges')].attempts = 0
<1> DEFINE n == [state |-> "live", attempts |-> 0]
<1>1. n \in ChallengeRows /\ n.attempts = 0
  BY StateNames DEF ChallengeRows
<1>2. challenges' = Append(challenges, n) /\ challenges \in Seq(ChallengeRows)
  BY DEF CreateAuthChallenge, LoginTyped
<1>3. Len(challenges) < MaxChallenges
  BY DEF CreateAuthChallenge
<1> HIDE DEF n
<1> QED
  BY <1>1, <1>2, <1>3, Constants

LEMMA AttemptFacts ==
  ASSUME LoginTyped, NEW r \in Visitors, RequestIsValid(r), IncrementAttempts(r)
  PROVE  /\ req[r].challenge \in DOMAIN challenges
         /\ challenges' \in Seq(ChallengeRows) /\ Len(challenges') = Len(challenges)
         /\ DOMAIN challenges' = DOMAIN challenges
         /\ \A d \in DOMAIN challenges : d # req[r].challenge => challenges'[d] = challenges[d]
         /\ challenges'[req[r].challenge].state = challenges[req[r].challenge].state
         /\ challenges[req[r].challenge].state \in {"live", "expired"} =>
              challenges'[req[r].challenge].attempts = challenges[req[r].challenge].attempts + 1
<1> DEFINE c == req[r].challenge
<1>1. c \in DOMAIN challenges
  BY DEF IncrementAttempts, VisitorAt, RequestIsValid
<1>2. CASE challenges[c].state \in {"live", "expired"}
  <2> DEFINE n == [challenges[c] EXCEPT !.attempts = @ + 1]
  <2>1. challenges[c] \in ChallengeRows
    BY <1>1 DEF LoginTyped
  <2>2. /\ n \in ChallengeRows /\ n.state = challenges[c].state
        /\ n.attempts = challenges[c].attempts + 1
    BY <2>1 DEF ChallengeRows
  <2>3. challenges' = [challenges EXCEPT ![c] = n]
    BY <1>1, <1>2, <2>1 DEF IncrementAttempts
  <2> HIDE DEF n, c
  <2>4. /\ challenges' \in Seq(ChallengeRows) /\ Len(challenges') = Len(challenges)
        /\ DOMAIN challenges' = DOMAIN challenges
        /\ \A d \in DOMAIN challenges : challenges'[d] = IF d = c THEN n ELSE challenges[d]
    BY <1>1, <2>2, <2>3, ChallengeReplaced
  <2> QED
    BY <1>1, <2>2, <2>4 DEF c
<1>3. CASE challenges[c].state \notin {"live", "expired"}
  <2>1. challenges' = challenges
    BY <1>3 DEF IncrementAttempts
  <2> QED
    BY <1>1, <1>3, <2>1 DEF LoginTyped
<1> QED
  BY <1>2, <1>3

LEMMA ConsumptionFacts ==
  ASSUME LoginTyped, NEW r \in Visitors, RequestIsValid(r), ConsumeChallenge(r)
  PROVE  /\ ChallengesKept /\ req[r].challenge \in DOMAIN challenges
         /\ \/ /\ challenges[req[r].challenge].state \in {"live", "expired"}
               /\ challenges'[req[r].challenge].state = "used"
               /\ loggedIn' = loggedIn \cup {req[r].challenge}
               /\ granted' = [granted EXCEPT ![req[r].challenge] = @ + 1]
            \/ UNCHANGED <<challenges, loggedIn, granted>>
<1> DEFINE c == req[r].challenge
<1>1. c \in DOMAIN challenges
  BY DEF ConsumeChallenge, VisitorAt, RequestIsValid
<1>2. CASE Consumable(challenges[c])
  <2>1. /\ challenges' = [challenges EXCEPT ![c].state = "used"]
        /\ challenges[c].state \in {"live", "expired"}
        /\ loggedIn' = loggedIn \cup {c} /\ granted' = [granted EXCEPT ![c] = @ + 1]
    BY <1>2 DEF ConsumeChallenge, Consumable
  <2>2. ChallengesKept /\ challenges'[c].state = "used"
    BY <1>1, <2>1, ChallengeStateKeeps, StateNames
  <2> QED
    BY <1>1, <2>1, <2>2
<1>3. CASE ~Consumable(challenges[c])
  <2>1. UNCHANGED <<challenges, loggedIn, granted>>
    BY <1>3 DEF ConsumeChallenge
  <2> QED
    BY <1>1, <2>1, Unchanged
<1> QED
  BY <1>2, <1>3

-----------------------------------------------------------------------------
(* Setup.  Most steps leave the process, the file and the administrator     *)
(* alone and only lose live tokens.                                         *)
RemoversStay == \A r \in Visitors : req[r].pc = "remove" => req'[r].pc = "remove"

LEMMA SetupFrame ==
  ASSUME SetupTyped, SetupInv, TokensKept, UNCHANGED <<startup, file, admin>>,
         enrolments' \in Enrolments, RemoversStay, challenges' # <<>> => Configured
  PROVE  SetupTyped' /\ SetupInv'
<1>1. SetupTyped'
  BY DEF SetupTyped, TokensKept
<1>2. /\ DOMAIN tokens' = DOMAIN tokens /\ Configured' = Configured
      /\ \A t : Live(t)' => Live(t)
  BY DEF SetupTyped, TokensKept, Configured, Live
<1>3. SetupIsClosed' /\ EnrolmentIsWhole'
  BY <1>2 DEF SetupInv, SetupIsSound, SetupIsClosed, EnrolmentIsWhole
<1>4. TokenFileIsRight'
  <2> SUFFICES ASSUME startup = "serving"
               PROVE  IF Configured THEN file # 0 => (\E r \in Visitors : VisitorAt(r, "remove"))'
                      ELSE file = Len(tokens') /\ \A t \in DOMAIN tokens' : Live(t)' => t = file
    BY <1>2 DEF TokenFileIsRight
  <2>1. CASE Configured
    BY <2>1 DEF SetupInv, SetupIsSound, TokenFileIsRight, VisitorAt, RemoversStay
  <2>2. CASE ~Configured
    BY <2>2, <1>2 DEF SetupInv, SetupIsSound, TokenFileIsRight, TokensKept
  <2> QED
    BY <2>1, <2>2
<1>5. \A t \in DOMAIN tokens' : Whole(tokens'[t].row) /\ (Live(t)' => t = Len(tokens'))
  BY <1>2 DEF SetupInv, TokensKept
<1> QED
  BY <1>1, <1>2, <1>3, <1>4, <1>5 DEF SetupInv, SetupIsSound

LEMMA ChallengesNotEmpty ==
  ASSUME LoginTyped, SetupInv, ChallengesKept
  PROVE  challenges' # <<>> => Configured
<1>1. challenges' # <<>> => challenges # <<>>
  BY DEF LoginTyped, ChallengesKept
<1> QED
  BY <1>1 DEF SetupInv

LEMMA StartsKeepSetup ==
  ASSUME AuthTyped, SetupInv
  PROVE  /\ StartConfigured => SetupTyped' /\ SetupInv'
         /\ IssueBootstrapToken => SetupTyped' /\ SetupInv'
         /\ InstallTokenFile => SetupTyped' /\ SetupInv'
         /\ Stop => SetupTyped' /\ SetupInv'
<1>1. ASSUME StartConfigured
      PROVE  SetupTyped' /\ SetupInv'
  <2>1. UNCHANGED <<tokens, admin, challenges, enrolments, req>> /\ file' = 0 /\ Configured
        /\ startup' = "serving"
    BY <1>1 DEF StartConfigured, RemovedFile, db, authBounds
  <2>2. SetupTyped'
    BY <2>1 DEF AuthTyped, SetupTyped
  <2> QED
    BY <2>1, <2>2 DEF SetupInv, SetupIsSound, SetupIsClosed, EnrolmentIsWhole, TokenFileIsRight,
                      Configured, Live
<1>2. ASSUME IssueBootstrapToken
      PROVE  SetupTyped' /\ SetupInv'
  <2> DEFINE n == [state |-> "live", row |-> NoRow]
             older == OlderUsed
  <2>1. /\ UNCHANGED <<file, admin, challenges, enrolments>> /\ startup' = "issued"
        /\ ~Configured /\ tokens' = Append(older, n) /\ Len(tokens) < MaxTokens
    BY <1>2 DEF IssueBootstrapToken, authBounds
  <2>2. /\ older \in Seq(TokenRows) /\ Len(older) = Len(tokens) /\ Len(tokens) \in Nat
        /\ \A t \in 1..Len(tokens) : older[t].state # "live" /\ older[t].row = tokens[t].row
    BY OlderAreUsed DEF AuthTyped, SetupTyped
  <2>3. n \in TokenRows /\ n.row = NoRow
    BY Sets, StateNames DEF TokenRows
  <2> HIDE DEF n, older
  <2>4. /\ tokens' \in Seq(TokenRows) /\ Len(tokens') = Len(tokens) + 1
        /\ DOMAIN tokens' = 1..(Len(tokens) + 1)
        /\ \A t \in 1..Len(tokens) : tokens'[t] = older[t]
        /\ tokens'[Len(tokens) + 1] = n
    BY <2>1, <2>2, <2>3
  <2>5. SetupTyped'
    BY <2>1, <2>2, <2>4, Constants DEF AuthTyped, SetupTyped
  <2>6. \A t \in DOMAIN tokens : Whole(tokens[t].row)
    BY DEF SetupInv
  <2>7. DOMAIN tokens = 1..Len(tokens)
    BY DEF AuthTyped, SetupTyped
  <2>8. \A t \in DOMAIN tokens' : Whole(tokens'[t].row) /\ (Live(t)' => t = Len(tokens'))
    <3> TAKE t \in DOMAIN tokens'
    <3>1. CASE t = Len(tokens) + 1
      BY <3>1, <2>3, <2>4, Sets
    <3>2. CASE t # Len(tokens) + 1
      <4>1. t \in 1..Len(tokens)
        BY <3>2, <2>2, <2>4
      <4> QED
        BY <4>1, <2>2, <2>4, <2>6, <2>7 DEF Live
    <3> QED
      BY <3>1, <3>2
  <2>9. ~Configured' /\ startup' # "serving" /\ (challenges' # <<>> => Configured')
        /\ EnrolmentIsWhole'
    BY <2>1 DEF Configured, SetupInv, SetupIsSound, EnrolmentIsWhole
  <2> QED
    BY <2>5, <2>8, <2>9 DEF SetupInv, SetupIsSound, SetupIsClosed, TokenFileIsRight
<1>3. ASSUME InstallTokenFile
      PROVE  SetupTyped' /\ SetupInv'
  <2>1. /\ UNCHANGED <<tokens, admin, challenges, enrolments>> /\ startup' = "serving"
        /\ file' = Len(tokens) /\ ~Configured
    BY <1>3 DEF InstallTokenFile, db, authBounds, SetupInv
  <2>2. SetupTyped' /\ ~Configured' /\ \A t : Live(t)' = Live(t)
    BY <2>1 DEF AuthTyped, SetupTyped, Configured, Live
  <2> QED
    BY <2>1, <2>2 DEF SetupInv, SetupIsSound, SetupIsClosed, EnrolmentIsWhole, TokenFileIsRight
<1>4. ASSUME Stop
      PROVE  SetupTyped' /\ SetupInv'
  <2>1. UNCHANGED <<file, tokens, admin, challenges, enrolments>> /\ startup' = "down"
    BY <1>4 DEF Stop, db
  <2>2. SetupTyped' /\ Configured' = Configured /\ \A t : Live(t)' = Live(t)
    BY <2>1 DEF AuthTyped, SetupTyped, Configured, Live
  <2> QED
    BY <2>1, <2>2 DEF SetupInv, SetupIsSound, SetupIsClosed, EnrolmentIsWhole, TokenFileIsRight
<1> QED
  BY <1>1, <1>2, <1>3, <1>4

LEMMA AdministratorFacts ==
  ASSUME RequestsTyped, NEW r \in Visitors, RequestIsValid(r), VisitorAt(r, "complete"), NEW now,
         admin' = AdminFrom(req[r].row, now)
  PROVE  /\ admin' \in [username : Enrolments, secret : Enrolments, verified : Enrolments]
         /\ EnrolmentIsWhole' /\ Configured'
<1>1. req[r].row \in Rows /\ req[r].row # NoRow /\ Whole(req[r].row)
  BY DEF RequestsTyped, AuthRequests, RequestIsValid, VisitorAt
<1>2. req[r].row.username # 0
  BY <1>1 DEF Rows, NoRow, Whole
<1> QED
  BY <1>1, <1>2 DEF AdminFrom, Rows, Whole, EnrolmentIsWhole, Configured, NoAdmin

LEMMA CompletionKeepsSetup ==
  ASSUME AuthTyped, RequestsAreValid, SetupInv, NEW r \in Visitors, CompleteSetup(r)
  PROVE  SetupTyped' /\ SetupInv'
<1> DEFINE t == req[r].token
<1>1. RequestIsValid(r) /\ VisitorAt(r, "complete")
      /\ UNCHANGED <<startup, file, challenges, enrolments>>
  BY DEF RequestsAreValid, CompleteSetup, authBounds
<1>2. TokensKept /\ startup = "serving"
  BY <1>1, CompletionFacts DEF AuthTyped
<1>3. CASE /\ Live(t) /\ ~Configured /\ tokens'[t].state = "used"
           /\ admin' = AdminFrom(req[r].row, tokens[t].row)
           /\ Moved(r, "remove", req[r].token, req[r].row, req[r].challenge)
  <2>3. /\ admin' \in [username : Enrolments, secret : Enrolments, verified : Enrolments]
        /\ EnrolmentIsWhole' /\ Configured'
    BY <1>1, <1>3, AdministratorFacts DEF AuthTyped
  <2>4. \A u \in DOMAIN tokens' : ~Live(u)'
    <3> SUFFICES ASSUME NEW u \in DOMAIN tokens, tokens'[u].state = "live"
                 PROVE  FALSE
      BY <1>2 DEF AuthTyped, SetupTyped, TokensKept, Live
    <3>1. Live(u)
      BY <1>2 DEF TokensKept, Live
    <3>2. u = t
      BY <1>3, <3>1 DEF SetupInv, Live
    <3> QED
      BY <1>3, <3>2
  <2>5. r \in Visitors /\ VisitorAt(r, "remove")'
    BY <1>3 DEF Moved, VisitorAt
  <2>6. SetupTyped'
    BY <1>1, <1>2, <2>3 DEF AuthTyped, SetupTyped, TokensKept
  <2>7. \A u \in DOMAIN tokens' : Whole(tokens'[u].row)
    BY <1>2 DEF SetupInv, AuthTyped, SetupTyped, TokensKept
  <2> QED
    BY <1>1, <1>2, <2>3, <2>4, <2>5, <2>6, <2>7
       DEF SetupInv, SetupIsSound, SetupIsClosed, TokenFileIsRight
<1>4. CASE UNCHANGED <<tokens, admin>> /\ Moved(r, "idle", 0, NoRow, 0)
  <2>1. RemoversStay
    BY <1>1, <1>4 DEF Moved, OthersStay, RemoversStay, VisitorAt
  <2>2. challenges' # <<>> => Configured
    BY <1>1 DEF SetupInv
  <2> QED
    BY <1>1, <1>2, <1>4, <2>1, <2>2, SetupFrame DEF AuthTyped, SetupTyped
<1> QED
  BY <1>1, <1>3, <1>4, CompletionFacts DEF AuthTyped

LEMMA RemovalKeepsSetup ==
  ASSUME AuthTyped, RequestsAreValid, SetupInv, NEW r \in Visitors, RemoveTokenFile(r)
  PROVE  SetupTyped' /\ SetupInv'
<1>1. /\ UNCHANGED <<startup, tokens, admin, challenges, enrolments>> /\ file' = 0 /\ Configured
      /\ startup = "serving"
  BY DEF RemoveTokenFile, VisitorAt, RequestsAreValid, RequestIsValid, db, authBounds
<1>2. SetupTyped' /\ Configured' = Configured /\ \A t : Live(t)' = Live(t)
  BY <1>1 DEF AuthTyped, SetupTyped, Configured, Live
<1> QED
  BY <1>1, <1>2 DEF SetupInv, SetupIsSound, SetupIsClosed, EnrolmentIsWhole, TokenFileIsRight

(* What the steps of a request do to it, and what the others leave alone.   *)
VisitorStep(r) == Setup(r) \/ Login(r)
LEMMA VisitorMoves ==
  ASSUME AuthTyped, RequestsAreValid, SetupInv, NEW r \in Visitors, VisitorStep(r)
  PROVE  OthersStay(r)
<1> USE DEF Moved
<1>1. RequestsTyped /\ SetupTyped /\ RequestIsValid(r)
  BY DEF AuthTyped, RequestsAreValid
<1>2. ASSUME NEW t \in SetupTokens, ReadToken(r, t) \/ ReadEnrolment(r, t)
      PROVE  OthersStay(r)
  <2>1. ReadEnrolment(r, t) => tokens[t].row \in Rows
    BY <1>1, TokenTypes DEF ReadEnrolment, Live
  <2> QED
    BY <1>1, <1>2, <2>1, RequestReads
<1>3. CASE CompleteSetup(r)
  BY <1>1, <1>3, CompletionFacts
<1>4. ASSUME NEW c \in Challenges, ReadChallenge(r, c)
      PROVE  OthersStay(r)
  BY <1>1, <1>4, RequestReads
<1>5. CASE AllowLogin(r) \/ Reset(r)
  <2>1. PICK place \in {"password", "challenge"} : VisitorGoes(r, place)
    BY <1>5 DEF AllowLogin, Reset
  <2> QED
    BY <1>1, <2>1, RequestGoes DEF Places
<1>6. CASE \/ SetSetupEnrollment(r) \/ RemoveTokenFile(r) \/ RecordFailure(r)
           \/ CreateAuthChallenge(r) \/ IncrementAttempts(r) \/ ConsumeChallenge(r)
  <2>1. Return(r)
    BY <1>6 DEF SetSetupEnrollment, RemoveTokenFile, RecordFailure, CreateAuthChallenge,
                IncrementAttempts, ConsumeChallenge
  <2> QED
    BY <1>1, <2>1, RequestReturns
<1> QED
  BY <1>2, <1>3, <1>4, <1>5, <1>6 DEF VisitorStep, Setup, Login

(* A step of one request leaves what the others rely on.                    *)
Grows ==
  /\ startup' = startup /\ DOMAIN tokens \subseteq DOMAIN tokens' /\ (Configured => Configured')
  /\ DOMAIN challenges \subseteq DOMAIN challenges'

LEMMA OneRequestKept ==
  ASSUME RequestsAreValid, NEW r \in Visitors, OthersStay(r), Grows, RequestIsValid(r)'
  PROVE  RequestsTyped' /\ RequestsAreValid'
<1>1. ASSUME NEW v \in Visitors \ {r}
      PROVE  RequestIsValid(v)'
  BY DEF RequestsAreValid, OthersStay, Grows, RequestIsValid
<1>2. RequestsAreValid'
  BY <1>1 DEF RequestsAreValid
<1> QED
  BY <1>2 DEF OthersStay, RequestsTyped

LEMMA KeptGrows ==
  ASSUME SetupTyped, LoginTyped, TokensKept, ChallengesKept, startup' = startup,
         Configured => Configured'
  PROVE  Grows
BY DEF SetupTyped, LoginTyped, TokensKept, ChallengesKept, Grows

LEMMA VisitorsStayValid ==
  ASSUME AuthTyped, RequestsAreValid, SetupInv, NEW r \in Visitors, VisitorStep(r)
  PROVE  RequestsTyped' /\ RequestsAreValid'
<1>1. RequestsTyped /\ SetupTyped /\ LoginTyped /\ RequestIsValid(r) /\ OthersStay(r)
  BY VisitorMoves DEF AuthTyped, RequestsAreValid
<1>2. UNCHANGED <<startup, admin, tokens, challenges>> => Grows
  BY DEF Grows, Configured
<1> SUFFICES Grows /\ RequestIsValid(r)'
  BY <1>1, OneRequestKept
<1>3. ASSUME NEW t \in SetupTokens, ReadToken(r, t)
      PROVE  Grows /\ RequestIsValid(r)'
  <2>1. UNCHANGED <<startup, admin, tokens, challenges>> /\ startup = "serving" /\ t \in DOMAIN tokens
    BY <1>3 DEF ReadToken, Idle, Live, db
  <2>2. Moved(r, "enrol", t, req[r].row, req[r].challenge)
    BY <1>1, <1>3, RequestReads
  <2> QED
    BY <1>2, <2>1, <2>2 DEF Moved, RequestIsValid
<1>4. ASSUME NEW t \in SetupTokens, ReadEnrolment(r, t)
      PROVE  Grows /\ RequestIsValid(r)'
  <2>1. /\ UNCHANGED <<startup, admin, tokens, challenges>> /\ startup = "serving"
        /\ t \in DOMAIN tokens /\ tokens[t].row # NoRow
    BY <1>4 DEF ReadEnrolment, Idle, Live, db
  <2>2. tokens[t].row \in Rows /\ Whole(tokens[t].row)
    BY <1>1, <2>1, TokenTypes DEF SetupInv
  <2>3. Moved(r, "complete", t, tokens[t].row, req[r].challenge)
    BY <1>1, <1>4, <2>2, RequestReads
  <2> QED
    BY <1>2, <2>1, <2>2, <2>3 DEF Moved, RequestIsValid
<1>5. ASSUME NEW c \in Challenges, ReadChallenge(r, c)
      PROVE  Grows /\ RequestIsValid(r)'
  <2>1. /\ UNCHANGED <<startup, admin, tokens, challenges>> /\ startup = "serving"
        /\ c \in DOMAIN challenges
    BY <1>5 DEF ReadChallenge, Idle, db
  <2>2. Moved(r, "totp", req[r].token, req[r].row, c)
    BY <1>1, <1>5, RequestReads
  <2> QED
    BY <1>2, <2>1, <2>2 DEF Moved, RequestIsValid
<1>6. CASE CompleteSetup(r)
  <2>1. /\ TokensKept /\ startup' = "serving" /\ startup = "serving" /\ UNCHANGED challenges
        /\ VisitorAt(r, "complete")
    BY <1>1, <1>6, CompletionFacts DEF CompleteSetup, SingletonIsFree
  <2>2. ChallengesKept
    BY <1>1, <2>1, Unchanged
  <2>3. CASE /\ ~Configured /\ admin' = AdminFrom(req[r].row, tokens[req[r].token].row)
             /\ Moved(r, "remove", req[r].token, req[r].row, req[r].challenge)
    <3>1. Configured'
      BY <1>1, <2>1, <2>3, AdministratorFacts
    <3>2. Grows
      BY <1>1, <2>1, <2>2, <3>1, KeptGrows
    <3> QED
      BY <2>1, <2>3, <3>1, <3>2 DEF Moved, RequestIsValid
  <2>4. CASE UNCHANGED <<tokens, admin>> /\ Moved(r, "idle", 0, NoRow, 0)
    BY <1>2, <2>1, <2>4 DEF Moved, RequestIsValid
  <2> QED
    BY <1>1, <1>6, <2>3, <2>4, CompletionFacts
<1>7. CASE AllowLogin(r)
  <2>1. /\ UNCHANGED <<startup, admin, tokens, challenges>> /\ startup = "serving"
        /\ VisitorGoes(r, "password")
    BY <1>7 DEF AllowLogin, Idle, db
  <2>2. req'[r].pc = "password"
    BY <1>1, <2>1, RequestGoes DEF Places, Moved
  <2> QED
    BY <1>2, <2>1, <2>2 DEF RequestIsValid
<1>8. CASE Reset(r)
  <2>1. /\ UNCHANGED <<startup, admin, tokens, challenges>> /\ startup = "serving" /\ Configured
        /\ VisitorGoes(r, "challenge")
    BY <1>1, <1>8 DEF Reset, VisitorAt, RequestIsValid, SomeoneToMatch, db
  <2>2. req'[r].pc = "challenge"
    BY <1>1, <2>1, RequestGoes DEF Places, Moved
  <2> QED
    BY <1>2, <2>1, <2>2 DEF RequestIsValid, Configured
<1>9. CASE \/ SetSetupEnrollment(r) \/ RemoveTokenFile(r) \/ RecordFailure(r)
           \/ CreateAuthChallenge(r) \/ IncrementAttempts(r) \/ ConsumeChallenge(r)
  <2>1. Return(r) /\ UNCHANGED <<startup, admin>>
    BY <1>9 DEF SetSetupEnrollment, RemoveTokenFile, RecordFailure, CreateAuthChallenge,
                IncrementAttempts, ConsumeChallenge, db
  <2>2. req'[r].pc = "idle"
    BY <1>1, <2>1, RequestReturns DEF Moved
  <2>3. DOMAIN tokens \subseteq DOMAIN tokens'
    <3>1. CASE SetSetupEnrollment(r)
      BY <1>1, <3>1, EnrolmentKeeps DEF TokensKept, SetupTyped
    <3>2. CASE ~SetSetupEnrollment(r)
      BY <1>9, <3>2 DEF RemoveTokenFile, RecordFailure, CreateAuthChallenge,
                        IncrementAttempts, ConsumeChallenge, db
    <3> QED
      BY <3>1, <3>2
  <2>4. DOMAIN challenges \subseteq DOMAIN challenges'
    <3>1. CASE CreateAuthChallenge(r)
      BY <1>1, <3>1, CreationFacts
    <3>2. CASE IncrementAttempts(r)
      BY <1>1, <3>2, AttemptFacts
    <3>3. CASE ConsumeChallenge(r)
      BY <1>1, <3>3, ConsumptionFacts DEF ChallengesKept, LoginTyped
    <3>4. CASE SetSetupEnrollment(r) \/ RemoveTokenFile(r) \/ RecordFailure(r)
      BY <3>4 DEF SetSetupEnrollment, RemoveTokenFile, RecordFailure, db
    <3> QED
      BY <1>9, <3>1, <3>2, <3>3, <3>4
  <2> QED
    BY <2>1, <2>2, <2>3, <2>4 DEF Grows, Configured, RequestIsValid
<1> QED
  BY <1>3, <1>4, <1>5, <1>6, <1>7, <1>8, <1>9 DEF VisitorStep, Setup, Login

LEMMA VisitorsKeepSetup ==
  ASSUME AuthTyped, RequestsAreValid, SetupInv, NEW r \in Visitors, VisitorStep(r)
  PROVE  SetupTyped' /\ SetupInv'
<1>1. SetupTyped /\ LoginTyped /\ RequestIsValid(r) /\ OthersStay(r)
  BY VisitorMoves DEF AuthTyped, RequestsAreValid
<1>2. CASE CompleteSetup(r)
  BY <1>2, CompletionKeepsSetup
<1>3. CASE RemoveTokenFile(r)
  BY <1>3, RemovalKeepsSetup
<1>4. CASE SetSetupEnrollment(r)
  <2>1. /\ UNCHANGED <<startup, file, admin, challenges>> /\ VisitorAt(r, "enrol")
    BY <1>4 DEF SetSetupEnrollment
  <2>2. TokensKept /\ enrolments' \in Enrolments
    BY <1>1, <1>4, EnrolmentKeeps
  <2>3. RemoversStay /\ (challenges' # <<>> => Configured)
    BY <1>1, <2>1 DEF RemoversStay, OthersStay, VisitorAt, SetupInv
  <2> QED
    BY <1>1, <2>1, <2>2, <2>3, SetupFrame
<1>5. CASE /\ UNCHANGED <<startup, file, admin, tokens, enrolments>> /\ req[r].pc # "remove"
           /\ challenges' # <<>> => Configured
  <2>1. TokensKept /\ enrolments' \in Enrolments /\ RemoversStay
    BY <1>1, <1>5, Unchanged DEF SetupTyped, RemoversStay, OthersStay
  <2> QED
    BY <1>1, <1>5, <2>1, SetupFrame
<1>6. ASSUME \/ \E t \in SetupTokens : ReadToken(r, t) \/ ReadEnrolment(r, t)
             \/ \E c \in Challenges : ReadChallenge(r, c)
             \/ AllowLogin(r) \/ RecordFailure(r) \/ Reset(r)
      PROVE  SetupTyped' /\ SetupInv'
  <2>1. /\ UNCHANGED <<startup, file, admin, tokens, challenges, enrolments>>
        /\ req[r].pc \in {"idle", "password"}
    BY <1>6 DEF ReadToken, ReadEnrolment, ReadChallenge, AllowLogin, RecordFailure, Reset, Idle,
                VisitorAt, db, authBounds
  <2> QED
    BY <1>5, <2>1 DEF SetupInv
<1>7. CASE CreateAuthChallenge(r)
  BY <1>1, <1>5, <1>7 DEF CreateAuthChallenge, VisitorAt, RequestIsValid, authBounds
<1>8. CASE IncrementAttempts(r) \/ ConsumeChallenge(r)
  <2>1. UNCHANGED <<startup, file, admin, tokens, enrolments>> /\ VisitorAt(r, "totp")
    BY <1>8 DEF IncrementAttempts, ConsumeChallenge, authBounds
  <2>2. challenges # <<>>
    BY <1>1, <2>1 DEF VisitorAt, RequestIsValid
  <2> QED
    BY <1>5, <2>1, <2>2 DEF VisitorAt, SetupInv
<1> QED
  BY <1>2, <1>3, <1>4, <1>6, <1>7, <1>8 DEF VisitorStep, Setup, Login

-----------------------------------------------------------------------------
(* Login.  A step that adds no challenge and no attempt, and lets no        *)
(* request in, keeps the counts.                                            *)
LoginInv == LoginTyped /\ GuessesInFlight /\ ChallengesCount

LEMMA ChallengeNames ==
  ASSUME LoginTyped
  PROVE  DOMAIN challenges = 1..Len(challenges) /\ Len(challenges) \in Nat
         /\ DOMAIN challenges \subseteq Challenges
<1>1. DOMAIN challenges = 1..Len(challenges) /\ Len(challenges) \in Nat
      /\ Len(challenges) <= MaxChallenges
  BY DEF LoginTyped
<1> QED
  BY <1>1, Sets, Constants

LEMMA FlightFrame ==
  ASSUME LoginTyped, GuessesInFlight, NEW r \in Visitors, OthersStay(r),
         UNCHANGED wrong, failures' \in Nat, failures' <= failures,
         req'[r].pc \notin {"password", "totp"}
  PROVE  GuessesInFlight'
<1>1. /\ Cardinality(Passing) \in Nat /\ Cardinality(Passing') \in Nat
      /\ Cardinality(Passing') <= Cardinality(Passing)
  BY RequestsCount DEF One
<1>2. failures' + Cardinality(Passing') <= MaxFailures + Cardinality(Visitors) - 1
  BY <1>1, Constants DEF GuessesInFlight, LoginTyped
<1>3. ASSUME NEW c \in Challenges
      PROVE  wrong'[c] + Cardinality(Answering(c)') <= MaxAttempts + Cardinality(Visitors) - 1
  <2>1. /\ Cardinality(Answering(c)) \in Nat /\ Cardinality(Answering(c)') \in Nat
        /\ Cardinality(Answering(c)') <= Cardinality(Answering(c))
    BY RequestsCount DEF One
  <2>2. wrong[c] \in Nat /\ wrong'[c] = wrong[c]
        /\ wrong[c] + Cardinality(Answering(c)) <= MaxAttempts + Cardinality(Visitors) - 1
    BY DEF LoginTyped, GuessesInFlight
  <2> QED
    BY <2>1, <2>2, Constants
<1> QED
  BY <1>2, <1>3 DEF GuessesInFlight

LEMMA CountsFrame ==
  ASSUME LoginTyped, ChallengesCount, ChallengesKept, UNCHANGED <<wrong, granted>>
  PROVE  ChallengesCount'
<1>1. DOMAIN challenges' = DOMAIN challenges
  BY DEF LoginTyped, ChallengesKept
<1>2. \A c \in DOMAIN challenges : challenges'[c].state \in {"live", "expired"} =>
        granted[c] = 0 /\ wrong[c] = challenges'[c].attempts
  BY DEF ChallengesCount, ChallengesKept
<1> QED
  BY <1>1, <1>2 DEF ChallengesCount, ChallengeGrantsOnce

LEMMA QuietKeepsLogin ==
  ASSUME LoginInv, NEW r \in Visitors, OthersStay(r),
         UNCHANGED <<challenges, loggedIn, wrong, granted>>, failures' \in Nat,
         failures' <= failures, req'[r].pc \notin {"password", "totp"},
         tries' \in 0..MaxTries, restarts' \in 0..MaxRestarts
  PROVE  LoginInv'
<1>1. LoginTyped'
  BY DEF LoginInv, LoginTyped
<1>2. GuessesInFlight'
  BY FlightFrame DEF LoginInv
<1>3. ChallengesCount'
  BY Unchanged, CountsFrame DEF LoginInv
<1> QED
  BY <1>1, <1>2, <1>3 DEF LoginInv

LEMMA AllowanceKeepsLogin ==
  ASSUME LoginInv, RequestsTyped, NEW r \in Visitors, AllowLogin(r)
  PROVE  LoginInv'
<1>1. /\ UNCHANGED <<challenges, loggedIn, failures, wrong, granted, restarts>>
      /\ tries' = tries + 1 /\ tries < MaxTries /\ failures < MaxFailures
      /\ req[r].pc = "idle" /\ VisitorGoes(r, "password")
  BY DEF AllowLogin, Allow, Idle, db, history
<1>2. OthersStay(r) /\ req'[r].pc = "password"
  BY <1>1, RequestGoes DEF Places, Moved
<1>3. LoginTyped'
  BY <1>1, Constants DEF LoginInv, LoginTyped
<1>4. failures' + Cardinality(Passing') <= MaxFailures + Cardinality(Visitors) - 1
  <2>1. Cardinality(Passing') \in Nat /\ Cardinality(Passing') <= Cardinality(Visitors)
    BY <1>2, RequestsCount
  <2> QED
    BY <1>1, <2>1, Constants DEF LoginInv, LoginTyped
<1>5. ASSUME NEW c \in Challenges
      PROVE  wrong'[c] + Cardinality(Answering(c)') <= MaxAttempts + Cardinality(Visitors) - 1
  <2>1. /\ Cardinality(Answering(c)) \in Nat
        /\ Cardinality(Answering(c)') = Cardinality(Answering(c))
    BY <1>1, <1>2, RequestsCount DEF One
  <2> QED
    BY <1>1, <2>1 DEF LoginInv, GuessesInFlight
<1>6. ChallengesCount'
  BY <1>1, Unchanged, CountsFrame DEF LoginInv
<1> QED
  BY <1>3, <1>4, <1>5, <1>6 DEF LoginInv, GuessesInFlight

LEMMA FailureKeepsLogin ==
  ASSUME LoginInv, RequestsTyped, NEW r \in Visitors, RecordFailure(r)
  PROVE  LoginInv'
<1>1. /\ UNCHANGED <<challenges, loggedIn, wrong, granted, restarts, tries>>
      /\ failures' = failures + 1 /\ req[r].pc = "password" /\ Return(r)
  BY DEF RecordFailure, VisitorAt, db, history, authBounds
<1>2. OthersStay(r) /\ req'[r].pc = "idle"
  BY <1>1, RequestReturns DEF Moved
<1>3. LoginTyped'
  BY <1>1 DEF LoginInv, LoginTyped
<1>4. failures' + Cardinality(Passing') <= MaxFailures + Cardinality(Visitors) - 1
  <2>1. /\ Cardinality(Passing) \in Nat /\ Cardinality(Passing') \in Nat
        /\ Cardinality(Passing') + 1 = Cardinality(Passing)
    BY <1>1, <1>2, RequestsCount DEF One
  <2>2. failures + Cardinality(Passing) <= MaxFailures + Cardinality(Visitors) - 1
    BY DEF LoginInv, GuessesInFlight
  <2> QED
    BY <1>1, <2>1, <2>2, Constants DEF LoginInv, LoginTyped
<1>5. ASSUME NEW c \in Challenges
      PROVE  wrong'[c] + Cardinality(Answering(c)') <= MaxAttempts + Cardinality(Visitors) - 1
  <2>1. /\ Cardinality(Answering(c)) \in Nat
        /\ Cardinality(Answering(c)') = Cardinality(Answering(c))
    BY <1>1, <1>2, RequestsCount DEF One
  <2> QED
    BY <1>1, <2>1 DEF LoginInv, GuessesInFlight
<1>6. ChallengesCount'
  BY <1>1, Unchanged, CountsFrame DEF LoginInv
<1> QED
  BY <1>3, <1>4, <1>5, <1>6 DEF LoginInv, GuessesInFlight

LEMMA ReadingKeepsLogin ==
  ASSUME LoginInv, RequestsTyped, NEW r \in Visitors, NEW c \in Challenges, ReadChallenge(r, c)
  PROVE  LoginInv'
<1>1. /\ UNCHANGED <<challenges, loggedIn, failures, wrong, granted, restarts>>
      /\ tries' = tries + 1 /\ tries < MaxTries /\ req[r].pc = "idle"
      /\ c \in DOMAIN challenges /\ challenges[c].state = "live"
      /\ challenges[c].attempts < MaxAttempts
  BY DEF ReadChallenge, MayBeAnswered, Idle, db, history
<1>2. OthersStay(r) /\ req'[r].pc = "totp" /\ req'[r].challenge = c
  BY RequestReads DEF Moved
<1>3. LoginTyped'
  BY <1>1, Constants DEF LoginInv, LoginTyped
<1>4. failures' + Cardinality(Passing') <= MaxFailures + Cardinality(Visitors) - 1
  <2>1. Cardinality(Passing') = Cardinality(Passing)
    BY <1>1, <1>2, RequestsCount DEF One
  <2> QED
    BY <1>1, <2>1 DEF LoginInv, GuessesInFlight
<1>5. ASSUME NEW d \in Challenges
      PROVE  wrong'[d] + Cardinality(Answering(d)') <= MaxAttempts + Cardinality(Visitors) - 1
  <2>1. CASE d = c
    <3>1. Cardinality(Answering(d)') \in Nat /\ Cardinality(Answering(d)') <= Cardinality(Visitors)
      BY <1>2, RequestsCount
    <3>2. wrong[d] \in Nat /\ wrong[d] < MaxAttempts /\ wrong'[d] = wrong[d]
      BY <1>1, <2>1 DEF LoginInv, LoginTyped, ChallengesCount
    <3> QED
      BY <3>1, <3>2, Constants
  <2>2. CASE d # c
    <3>1. /\ Cardinality(Answering(d)) \in Nat
          /\ Cardinality(Answering(d)') = Cardinality(Answering(d))
      BY <1>1, <1>2, <2>2, RequestsCount DEF One
    <3> QED
      BY <1>1, <3>1 DEF LoginInv, GuessesInFlight
  <2> QED
    BY <2>1, <2>2
<1>6. ChallengesCount'
  BY <1>1, Unchanged, CountsFrame DEF LoginInv
<1> QED
  BY <1>3, <1>4, <1>5, <1>6 DEF LoginInv, GuessesInFlight

LEMMA AttemptKeepsLogin ==
  ASSUME LoginInv, RequestsTyped, NEW r \in Visitors, RequestIsValid(r), IncrementAttempts(r)
  PROVE  LoginInv'
<1> DEFINE c == req[r].challenge
<1>1. /\ UNCHANGED <<loggedIn, failures, granted, restarts, tries>>
      /\ wrong' = [wrong EXCEPT ![c] = @ + 1] /\ req[r].pc = "totp" /\ Return(r)
  BY DEF IncrementAttempts, VisitorAt, authBounds
<1>2. OthersStay(r) /\ req'[r].pc = "idle"
  BY <1>1, RequestReturns DEF Moved
<1>3. /\ c \in DOMAIN challenges
      /\ challenges' \in Seq(ChallengeRows) /\ Len(challenges') = Len(challenges)
      /\ DOMAIN challenges' = DOMAIN challenges
      /\ \A d \in DOMAIN challenges : d # c => challenges'[d] = challenges[d]
      /\ challenges'[c].state = challenges[c].state
      /\ challenges[c].state \in {"live", "expired"} =>
           challenges'[c].attempts = challenges[c].attempts + 1
  BY AttemptFacts DEF LoginInv
<1>4. c \in Challenges
  BY <1>3, ChallengeNames DEF LoginInv
<1> HIDE DEF c
<1>5. /\ wrong' \in [Challenges -> Nat] /\ wrong'[c] = wrong[c] + 1 /\ wrong[c] \in Nat
      /\ \A d \in Challenges \ {c} : wrong'[d] = wrong[d]
  BY <1>1, <1>4 DEF LoginInv, LoginTyped
<1>6. LoginTyped'
  BY <1>1, <1>3, <1>5 DEF LoginInv, LoginTyped
<1>7. failures' + Cardinality(Passing') <= MaxFailures + Cardinality(Visitors) - 1
  <2>1. Cardinality(Passing') = Cardinality(Passing)
    BY <1>1, <1>2, RequestsCount DEF One
  <2> QED
    BY <1>1, <2>1 DEF LoginInv, GuessesInFlight
<1>8. ASSUME NEW d \in Challenges
      PROVE  wrong'[d] + Cardinality(Answering(d)') <= MaxAttempts + Cardinality(Visitors) - 1
  <2>1. wrong[d] + Cardinality(Answering(d)) <= MaxAttempts + Cardinality(Visitors) - 1
    BY DEF LoginInv, GuessesInFlight
  <2>2. CASE d = c
    <3>1. /\ Cardinality(Answering(d)) \in Nat /\ Cardinality(Answering(d)') \in Nat
          /\ Cardinality(Answering(d)') + 1 = Cardinality(Answering(d))
      BY <1>1, <1>2, <2>2, RequestsCount DEF One, c
    <3> QED
      BY <1>5, <2>1, <2>2, <3>1, Constants
  <2>3. CASE d # c
    <3>1. /\ Cardinality(Answering(d)) \in Nat
          /\ Cardinality(Answering(d)') = Cardinality(Answering(d))
      BY <1>1, <1>2, <2>3, RequestsCount DEF One, c
    <3> QED
      BY <1>5, <2>1, <2>3, <3>1
  <2> QED
    BY <2>2, <2>3
<1>9. ChallengesCount'
  <2>1. ASSUME NEW d \in DOMAIN challenges', challenges'[d].state \in {"live", "expired"}
        PROVE  granted'[d] = 0 /\ wrong'[d] = challenges'[d].attempts
    <3>1. d \in DOMAIN challenges /\ d \in Challenges
      BY <1>3, ChallengeNames DEF LoginInv
    <3>2. CASE d = c
      BY <1>1, <1>3, <1>5, <2>1, <3>1, <3>2 DEF LoginInv, ChallengesCount
    <3>3. CASE d # c
      BY <1>1, <1>3, <1>5, <2>1, <3>1, <3>3 DEF LoginInv, ChallengesCount
    <3> QED
      BY <3>2, <3>3
  <2>2. \A d \in Challenges \ DOMAIN challenges' : granted'[d] = 0 /\ wrong'[d] = 0
    BY <1>1, <1>3, <1>5 DEF LoginInv, ChallengesCount
  <2> QED
    BY <1>1, <2>1, <2>2 DEF LoginInv, ChallengesCount, ChallengeGrantsOnce
<1> QED
  BY <1>6, <1>7, <1>8, <1>9 DEF LoginInv, GuessesInFlight

LEMMA ConsumptionKeepsLogin ==
  ASSUME LoginInv, RequestsTyped, NEW r \in Visitors, RequestIsValid(r), ConsumeChallenge(r)
  PROVE  LoginInv'
<1> DEFINE c == req[r].challenge
<1>1. UNCHANGED <<failures, wrong, restarts, tries>> /\ Return(r)
  BY DEF ConsumeChallenge, authBounds
<1>2. OthersStay(r) /\ req'[r].pc = "idle"
  BY <1>1, RequestReturns DEF Moved
<1>3. /\ ChallengesKept /\ c \in DOMAIN challenges
      /\ \/ /\ challenges[c].state \in {"live", "expired"} /\ challenges'[c].state = "used"
            /\ loggedIn' = loggedIn \cup {c} /\ granted' = [granted EXCEPT ![c] = @ + 1]
         \/ UNCHANGED <<challenges, loggedIn, granted>>
  BY ConsumptionFacts DEF LoginInv
<1>4. c \in Challenges /\ DOMAIN challenges' = DOMAIN challenges
  BY <1>3, ChallengeNames DEF LoginInv, LoginTyped, ChallengesKept
<1> HIDE DEF c
<1>5. GuessesInFlight'
  BY <1>1, <1>2, FlightFrame DEF LoginInv, LoginTyped
<1>6. LoginTyped'
  <2>1. challenges' \in Seq(ChallengeRows) /\ Len(challenges') <= MaxChallenges
    BY <1>3 DEF LoginInv, LoginTyped, ChallengesKept
  <2>2. loggedIn' \subseteq DOMAIN challenges'
    BY <1>3, <1>4 DEF LoginInv, LoginTyped
  <2>3. granted' \in [Challenges -> Nat]
    BY <1>3, <1>4 DEF LoginInv, LoginTyped
  <2> QED
    BY <1>1, <2>1, <2>2, <2>3 DEF LoginInv, LoginTyped
<1>7. CASE /\ challenges[c].state \in {"live", "expired"} /\ challenges'[c].state = "used"
           /\ granted' = [granted EXCEPT ![c] = @ + 1]
  <2>1. /\ granted'[c] = 1 /\ \A d \in Challenges \ {c} : granted'[d] = granted[d]
    BY <1>3, <1>4, <1>7 DEF LoginInv, LoginTyped, ChallengesCount
  <2>2. ASSUME NEW d \in DOMAIN challenges', challenges'[d].state \in {"live", "expired"}
        PROVE  granted'[d] = 0 /\ wrong'[d] = challenges'[d].attempts
    <3>1. d # c
      BY <1>7, <2>2
    <3>2. d \in Challenges \ {c} /\ d \in DOMAIN challenges
      BY <1>4, <3>1, ChallengeNames DEF LoginInv
    <3> QED
      BY <1>1, <1>3, <2>1, <2>2, <3>2 DEF LoginInv, ChallengesCount, ChallengesKept
  <2>3. \A d \in Challenges \ DOMAIN challenges' : granted'[d] = 0 /\ wrong'[d] = 0
    BY <1>1, <1>3, <1>4, <2>1 DEF LoginInv, ChallengesCount
  <2>4. ChallengeGrantsOnce'
    BY <2>1 DEF LoginInv, ChallengesCount, ChallengeGrantsOnce
  <2> QED
    BY <1>5, <1>6, <2>2, <2>3, <2>4 DEF LoginInv, ChallengesCount
<1>8. CASE UNCHANGED <<challenges, loggedIn, granted>>
  BY <1>1, <1>3, <1>5, <1>6, <1>8, CountsFrame DEF LoginInv
<1> QED
  BY <1>3, <1>7, <1>8

LEMMA CreationKeepsLogin ==
  ASSUME LoginInv, RequestsTyped, NEW r \in Visitors, CreateAuthChallenge(r)
  PROVE  LoginInv'
<1>1. UNCHANGED <<loggedIn, failures, wrong, granted, restarts, tries>> /\ Return(r)
  BY DEF CreateAuthChallenge, history, authBounds
<1>2. OthersStay(r) /\ req'[r].pc = "idle"
  BY <1>1, RequestReturns DEF Moved
<1>3. /\ challenges' \in Seq(ChallengeRows) /\ Len(challenges') = Len(challenges) + 1
      /\ Len(challenges') <= MaxChallenges /\ Len(challenges) \in Nat
      /\ DOMAIN challenges = 1..Len(challenges) /\ DOMAIN challenges' = 1..Len(challenges')
      /\ \A c \in DOMAIN challenges : challenges'[c] = challenges[c]
      /\ challenges'[Len(challenges')].attempts = 0
  BY CreationFacts DEF LoginInv
<1>4. GuessesInFlight'
  BY SMTT(30), <1>1, <1>2, FlightFrame DEF LoginInv, LoginTyped
<1>5. LoginTyped'
  BY <1>1, <1>3 DEF LoginInv, LoginTyped
<1>6. Len(challenges') \in Challenges \ DOMAIN challenges
  BY <1>3, Sets, Constants
<1>7. ChallengesCount'
  <2>1. ASSUME NEW d \in DOMAIN challenges', challenges'[d].state \in {"live", "expired"}
        PROVE  granted[d] = 0 /\ wrong[d] = challenges'[d].attempts
    <3>1. CASE d = Len(challenges')
      BY <1>3, <1>6, <3>1 DEF LoginInv, ChallengesCount
    <3>2. CASE d # Len(challenges')
      <4>1. d \in DOMAIN challenges
        BY <1>3, <3>2
      <4> QED
        BY <1>3, <2>1, <4>1 DEF LoginInv, ChallengesCount
    <3> QED
      BY <3>1, <3>2
  <2>2. \A d \in Challenges \ DOMAIN challenges' : granted[d] = 0 /\ wrong[d] = 0
    BY <1>3 DEF LoginInv, ChallengesCount
  <2> QED
    BY <1>1, <2>1, <2>2 DEF LoginInv, ChallengesCount, ChallengeGrantsOnce
<1> QED
  BY <1>4, <1>5, <1>7 DEF LoginInv

LEMMA VisitorsKeepLogin ==
  ASSUME AuthTyped, RequestsAreValid, SetupInv, LoginInv, NEW r \in Visitors, VisitorStep(r)
  PROVE  LoginInv'
<1>1. RequestsTyped /\ SetupTyped /\ LoginTyped /\ RequestIsValid(r) /\ OthersStay(r)
  BY VisitorMoves DEF AuthTyped, RequestsAreValid
<1>2. CASE AllowLogin(r) \/ RecordFailure(r)
  BY <1>1, <1>2, AllowanceKeepsLogin, FailureKeepsLogin
<1>3. ASSUME NEW c \in Challenges, ReadChallenge(r, c)
      PROVE  LoginInv'
  BY <1>1, <1>3, ReadingKeepsLogin
<1>4. CASE IncrementAttempts(r) \/ ConsumeChallenge(r) \/ CreateAuthChallenge(r)
  BY <1>1, <1>4, AttemptKeepsLogin, ConsumptionKeepsLogin, CreationKeepsLogin
<1>5. ASSUME \/ \E t \in SetupTokens : ReadToken(r, t) \/ ReadEnrolment(r, t)
             \/ SetSetupEnrollment(r) \/ CompleteSetup(r) \/ RemoveTokenFile(r) \/ Reset(r)
      PROVE  LoginInv'
  <2>1. /\ UNCHANGED <<challenges, loggedIn, wrong, granted, tries, restarts>>
        /\ failures' \in {failures, 0}
    BY <1>5 DEF ReadToken, ReadEnrolment, SetSetupEnrollment, CompleteSetup, RemoveTokenFile,
                Reset, db, history, authBounds
  <2>2. req'[r].pc \notin {"password", "totp"}
    <3>1. ASSUME NEW t \in SetupTokens, ReadToken(r, t) \/ ReadEnrolment(r, t)
          PROVE  req'[r].pc \notin {"password", "totp"}
      <4>1. ReadEnrolment(r, t) => tokens[t].row \in Rows
        BY <1>1, TokenTypes DEF ReadEnrolment, Live
      <4> QED
        BY <1>1, <3>1, <4>1, RequestReads DEF Moved
    <3>2. CASE CompleteSetup(r)
      BY <1>1, <3>2, CompletionFacts DEF Moved
    <3>3. CASE Reset(r)
      <4>1. VisitorGoes(r, "challenge")
        BY <3>3 DEF Reset
      <4> QED
        BY <1>1, <4>1, RequestGoes DEF Moved, Places
    <3>4. CASE SetSetupEnrollment(r) \/ RemoveTokenFile(r)
      BY <1>1, <3>4, RequestReturns DEF Moved, SetSetupEnrollment, RemoveTokenFile
    <3> QED
      BY <1>5, <3>1, <3>2, <3>3, <3>4
  <2>3. failures' \in Nat /\ failures' <= failures /\ tries' \in 0..MaxTries
        /\ restarts' \in 0..MaxRestarts
    BY <1>1, <2>1 DEF LoginTyped
  <2> QED
    BY <1>1, <2>1, <2>2, <2>3, QuietKeepsLogin
<1> QED
  BY <1>2, <1>3, <1>4, <1>5 DEF VisitorStep, Setup, Login

LEMMA VisitorsKeepCodes ==
  ASSUME RecoveryTyped, CodesCount, NEW r \in Visitors, VisitorStep(r)
  PROVE  RecoveryTyped' /\ CodesCount'
<1>1. UNCHANGED <<used, tool, applied>>
  BY DEF VisitorStep, Setup, Login, ReadToken, ReadEnrolment, SetSetupEnrollment, CompleteSetup,
         RemoveTokenFile, AllowLogin, RecordFailure, Reset, CreateAuthChallenge, ReadChallenge,
         IncrementAttempts, ConsumeChallenge, db, history
<1> QED
  BY <1>1 DEF RecoveryTyped, CodesCount

-----------------------------------------------------------------------------
(* The steps that are not a request's.                                      *)
LEMMA RequestsStill ==
  ASSUME RequestsTyped, RequestsAreValid, UNCHANGED req, Grows \/ startup # "serving"
  PROVE  RequestsTyped' /\ RequestsAreValid'
<1>1. ASSUME NEW v \in Visitors
      PROVE  RequestIsValid(v)'
  <2>1. CASE Grows
    BY <2>1 DEF RequestsAreValid, Grows, RequestIsValid
  <2>2. CASE startup # "serving"
    BY <2>2 DEF RequestsAreValid, RequestIsValid
  <2> QED
    BY <2>1, <2>2
<1> QED
  BY <1>1 DEF RequestsTyped, RequestsAreValid

LEMMA LoginStill ==
  ASSUME LoginInv, UNCHANGED <<req, wrong, granted>>, ChallengesKept,
         loggedIn' \subseteq loggedIn, failures' \in Nat, failures' <= failures,
         tries' \in 0..MaxTries, restarts' \in 0..MaxRestarts
  PROVE  LoginInv'
<1>1. LoginTyped'
  BY DEF LoginInv, LoginTyped, ChallengesKept
<1>2. Passing' = Passing /\ \A c : Answering(c)' = Answering(c)
  BY DEF Passing, Answering
<1>3. Cardinality(Passing) \in Nat
  <2>1. Passing \subseteq Visitors
    BY DEF Passing
  <2> QED
    BY <2>1, Constants, FS_Subset, FS_CardinalityType
<1>4. GuessesInFlight'
  BY <1>2, <1>3, Constants DEF LoginInv, LoginTyped, GuessesInFlight
<1>5. ChallengesCount'
  BY CountsFrame DEF LoginInv
<1> QED
  BY <1>1, <1>4, <1>5 DEF LoginInv

(* Steps of the process itself and of time.                                 *)
LEMMA TimeFacts ==
  ASSUME AuthTyped, LoginInv,
         \/ StartConfigured \/ IssueBootstrapToken \/ InstallTokenFile
         \/ \E c \in Challenges : DeleteSession(c) \/ ChallengeExpires(c)
         \/ \E t \in SetupTokens : TokenExpires(t)
         \/ FailureAges \/ PruneExpiredAuth
  PROVE  /\ UNCHANGED <<req, wrong, granted, tries, restarts, used, tool, applied, admin>>
         /\ ChallengesKept /\ loggedIn' \subseteq loggedIn
         /\ failures' \in Nat /\ failures' <= failures
<1>1. SetupTyped /\ LoginTyped
  BY DEF AuthTyped
<1>2. CASE StartConfigured \/ IssueBootstrapToken \/ InstallTokenFile
  BY <1>1, <1>2, Unchanged DEF StartConfigured, IssueBootstrapToken, InstallTokenFile, db,
     history, authBounds, LoginTyped
<1>3. ASSUME NEW c \in Challenges, DeleteSession(c)
      PROVE  /\ UNCHANGED <<req, wrong, granted, tries, restarts, used, tool, applied, admin>>
             /\ ChallengesKept /\ loggedIn' \subseteq loggedIn
             /\ failures' \in Nat /\ failures' <= failures
  BY <1>1, <1>3, Unchanged DEF DeleteSession, history, authBounds, LoginTyped
<1>4. ASSUME NEW c \in Challenges, ChallengeExpires(c)
      PROVE  /\ UNCHANGED <<req, wrong, granted, tries, restarts, used, tool, applied, admin>>
             /\ ChallengesKept /\ loggedIn' \subseteq loggedIn
             /\ failures' \in Nat /\ failures' <= failures
  <2>1. UNCHANGED <<req, loggedIn, failures, wrong, granted, tries, restarts, used, tool,
                    applied, admin>>
    BY <1>4 DEF ChallengeExpires, history, authBounds
  <2> QED
    BY <1>1, <1>4, <2>1, ExpiryFacts DEF LoginTyped
<1>5. ASSUME NEW t \in SetupTokens, TokenExpires(t)
      PROVE  /\ UNCHANGED <<req, wrong, granted, tries, restarts, used, tool, applied, admin>>
             /\ ChallengesKept /\ loggedIn' \subseteq loggedIn
             /\ failures' \in Nat /\ failures' <= failures
  BY <1>1, <1>5, Unchanged DEF TokenExpires, history, authBounds, LoginTyped
<1>6. CASE FailureAges
  BY <1>1, <1>6, Unchanged DEF FailureAges, db, history, authBounds, LoginTyped
<1>7. CASE PruneExpiredAuth
  <2>1. UNCHANGED <<req, failures, wrong, granted, tries, restarts, used, tool, applied, admin>>
    BY <1>7 DEF PruneExpiredAuth, history, authBounds
  <2> QED
    BY <1>1, <1>7, <2>1, PruningKeeps DEF LoginTyped
<1> QED
  BY <1>2, <1>3, <1>4, <1>5, <1>6, <1>7

LEMMA TimeKeepsSetup ==
  ASSUME AuthTyped, RequestsAreValid, SetupInv, LoginInv,
         \/ \E c \in Challenges : DeleteSession(c) \/ ChallengeExpires(c)
         \/ \E t \in SetupTokens : TokenExpires(t)
         \/ FailureAges \/ PruneExpiredAuth
  PROVE  SetupTyped' /\ SetupInv' /\ Grows
<1>1. SetupTyped /\ LoginTyped
  BY DEF AuthTyped
<1>2. ChallengesKept /\ UNCHANGED req
  BY TimeFacts
<1>3. UNCHANGED <<startup, file, admin, enrolments>>
  BY DEF DeleteSession, ChallengeExpires, TokenExpires, FailureAges, PruneExpiredAuth, db,
         authBounds
<1>4. TokensKept
  <2>1. CASE PruneExpiredAuth
    BY <1>1, <2>1, PruningKeeps
  <2>2. ASSUME NEW t \in SetupTokens, TokenExpires(t)
        PROVE  TokensKept
    <3>1. t \in DOMAIN tokens /\ tokens' = [tokens EXCEPT ![t] = [@ EXCEPT !.state = "expired"]]
      BY <2>2 DEF TokenExpires, Live
    <3> QED
      BY <1>1, <3>1, TokenStateKeeps, StateNames
  <2>3. CASE FailureAges \/ \E c \in Challenges : DeleteSession(c) \/ ChallengeExpires(c)
    <3>1. UNCHANGED tokens
      BY <2>3 DEF DeleteSession, ChallengeExpires, FailureAges, db
    <3> QED
      BY <1>1, <3>1, Unchanged
  <2> QED
    BY <2>1, <2>2, <2>3
<1>5. RemoversStay /\ enrolments' \in Enrolments /\ (challenges' # <<>> => Configured)
  BY <1>1, <1>2, <1>3, ChallengesNotEmpty DEF RemoversStay, SetupTyped
<1>6. SetupTyped' /\ SetupInv'
  BY <1>1, <1>3, <1>4, <1>5, SetupFrame
<1>7. Grows
  BY <1>1, <1>2, <1>3, <1>4, KeptGrows DEF Configured
<1> QED
  BY <1>6, <1>7

LEMMA TimeKeeps ==
  ASSUME AuthInv,
         \/ StartConfigured \/ IssueBootstrapToken \/ InstallTokenFile
         \/ \E c \in Challenges : DeleteSession(c) \/ ChallengeExpires(c)
         \/ \E t \in SetupTokens : TokenExpires(t)
         \/ FailureAges \/ PruneExpiredAuth
  PROVE  AuthInv'
<1>1. AuthTyped /\ RequestsAreValid /\ SetupInv /\ LoginInv
  BY DEF AuthInv, AuthTyped, LoginInv
<1>2. /\ UNCHANGED <<req, wrong, granted, tries, restarts, used, tool, applied>>
      /\ ChallengesKept /\ loggedIn' \subseteq loggedIn /\ failures' \in Nat /\ failures' <= failures
  BY <1>1, TimeFacts
<1>3. LoginInv'
  <2>1. tries' \in 0..MaxTries /\ restarts' \in 0..MaxRestarts
    BY <1>1, <1>2 DEF AuthTyped, LoginTyped
  <2> QED
    BY <1>1, <1>2, <2>1, LoginStill
<1>4. RecoveryTyped' /\ CodesCount'
  BY <1>2 DEF AuthInv, AuthTyped, RecoveryTyped, CodesCount
<1>5. SetupTyped' /\ SetupInv' /\ (Grows \/ startup # "serving")
  <2>1. CASE StartConfigured \/ IssueBootstrapToken \/ InstallTokenFile
    <3>1. startup # "serving"
      BY <2>1 DEF StartConfigured, IssueBootstrapToken, InstallTokenFile
    <3> QED
      BY <1>1, <2>1, <3>1, StartsKeepSetup
  <2>2. CASE ~(StartConfigured \/ IssueBootstrapToken \/ InstallTokenFile)
    BY <1>1, <2>2, TimeKeepsSetup
  <2> QED
    BY <2>1, <2>2
<1>6. RequestsTyped' /\ RequestsAreValid'
  BY <1>1, <1>2, <1>5, RequestsStill DEF AuthTyped
<1> QED
  BY <1>3, <1>4, <1>5, <1>6 DEF AuthInv, AuthTyped, LoginInv

LEMMA StopKeeps ==
  ASSUME AuthInv, Stop
  PROVE  AuthInv'
<1>1. /\ UNCHANGED <<challenges, loggedIn, used, tool, wrong, granted, applied, tries>>
      /\ failures' = 0 /\ req' = [r \in Visitors |-> IdleRequest]
      /\ restarts' = restarts + 1 /\ restarts < MaxRestarts
  BY DEF Stop, db, history
<1>2. SetupTyped' /\ SetupInv'
  BY StartsKeepSetup DEF AuthInv
<1>3. /\ req' \in [Visitors -> AuthRequests] /\ \A r \in Visitors : req'[r].pc = "idle"
  BY <1>1, Sets
<1>4. RequestsTyped' /\ RequestsAreValid'
  BY <1>3 DEF RequestsTyped, RequestsAreValid, RequestIsValid
<1>5. LoginTyped'
  BY <1>1, Constants DEF AuthInv, AuthTyped, LoginTyped
<1>6. GuessesInFlight'
  <2>1. Cardinality(Passing)' = 0 /\ \A c : Cardinality(Answering(c))' = 0
    <3>1. Passing' = {} /\ \A c : Answering(c)' = {}
      BY <1>3 DEF Passing, Answering
    <3> QED
      BY <3>1, FS_EmptySet
  <2>2. ASSUME NEW c \in Challenges
        PROVE  wrong[c] <= MaxAttempts + Cardinality(Visitors) - 1
    <3>1. Answering(c) \subseteq Visitors
      BY DEF Answering
    <3>2. Cardinality(Answering(c)) \in Nat
      BY <3>1, Constants, FS_Subset, FS_CardinalityType
    <3>3. wrong[c] \in Nat
          /\ wrong[c] + Cardinality(Answering(c)) <= MaxAttempts + Cardinality(Visitors) - 1
      BY DEF AuthInv, AuthTyped, LoginTyped, GuessesInFlight
    <3> QED
      BY <3>2, <3>3, Constants
  <2> QED
    BY <1>1, <2>1, <2>2, Constants DEF GuessesInFlight, AuthInv, AuthTyped, LoginTyped
<1>7. ChallengesCount' /\ CodesCount' /\ RecoveryTyped'
  BY <1>1 DEF AuthInv, AuthTyped, RecoveryTyped, ChallengesCount, ChallengeGrantsOnce, CodesCount
<1> QED
  BY <1>2, <1>4, <1>5, <1>6, <1>7 DEF AuthInv, AuthTyped

LEMMA RecoveryKeeps ==
  ASSUME AuthInv, NEW p \in Tools, ApplyRecovery(p) \/ \E k \in Codes : LookUpCode(p, k)
  PROVE  AuthInv'
<1>1. AuthTyped /\ RequestsAreValid /\ SetupInv /\ LoginInv
  BY DEF AuthInv, AuthTyped, LoginInv
<1>2. /\ UNCHANGED <<startup, file, tokens, admin, challenges, failures, req, wrong, granted,
                     enrolments, tries, restarts>>
      /\ loggedIn' \subseteq loggedIn
  BY DEF ApplyRecovery, LookUpCode, db, history, authBounds
<1>3. RecoveryTyped' /\ CodesCount'
  <2>1. ASSUME NEW k \in Codes, LookUpCode(p, k)
        PROVE  RecoveryTyped' /\ CodesCount'
    <3>1. UNCHANGED <<used, applied>> /\ tool' = [tool EXCEPT ![p] = {k}]
      BY <2>1 DEF LookUpCode, db, history
    <3>2. tool' \in [Tools -> SUBSET Codes]
      BY <3>1 DEF AuthInv, AuthTyped, RecoveryTyped
    <3> QED
      BY <3>1, <3>2 DEF AuthInv, AuthTyped, RecoveryTyped, CodesCount
  <2>2. CASE ApplyRecovery(p)
    <3>1. tool' = [tool EXCEPT ![p] = {}]
      BY <2>2 DEF ApplyRecovery
    <3>2. tool' \in [Tools -> SUBSET Codes]
      BY <3>1 DEF AuthInv, AuthTyped, RecoveryTyped
    <3>3. PICK k \in tool[p] :
            \/ k \notin used /\ used' = used \cup {k} /\ applied' = [applied EXCEPT ![k] = @ + 1]
            \/ UNCHANGED <<used, applied>>
      BY <2>2 DEF ApplyRecovery, UnusedCode
    <3>4. k \in Codes
      BY <3>3 DEF AuthInv, AuthTyped, RecoveryTyped
    <3> QED
      BY <3>2, <3>3, <3>4 DEF AuthInv, AuthTyped, RecoveryTyped, CodesCount
  <2> QED
    BY <2>1, <2>2
<1>4. LoginInv'
  <2>1. /\ ChallengesKept /\ failures' \in Nat /\ failures' <= failures /\ tries' \in 0..MaxTries
        /\ restarts' \in 0..MaxRestarts
    BY <1>1, <1>2, Unchanged DEF AuthTyped, LoginTyped
  <2> QED
    BY <1>1, <1>2, <2>1, LoginStill
<1>5. SetupTyped' /\ SetupInv'
  BY <1>1, <1>2, Unchanged, SetupFrame DEF AuthTyped, SetupTyped, SetupInv, RemoversStay
<1>6. RequestsTyped' /\ RequestsAreValid'
  BY <1>1, <1>2, RequestsStill DEF AuthTyped, Grows, Configured
<1> QED
  BY <1>3, <1>4, <1>5, <1>6 DEF AuthInv, AuthTyped, LoginInv

-----------------------------------------------------------------------------
(* The induction.                                                           *)
LEMMA AuthStarts ==
  ASSUME AuthInit
  PROVE  AuthInv
<1>1. \A r \in Visitors : req[r] = IdleRequest
  BY DEF AuthInit
<1>2. RequestsTyped /\ RequestsAreValid
  BY <1>1, Sets DEF AuthInit, RequestsTyped, RequestsAreValid, RequestIsValid
<1>3. tokens = <<>> /\ challenges = <<>> /\ admin = NoAdmin /\ startup = "down" /\ file = 0
  BY DEF AuthInit
<1>4. /\ tokens \in Seq(TokenRows) /\ Len(tokens) = 0 /\ DOMAIN tokens = {}
      /\ challenges \in Seq(ChallengeRows) /\ Len(challenges) = 0 /\ DOMAIN challenges = {}
  BY <1>3
<1>5. SetupTyped
  BY <1>3, <1>4, Sets, Constants DEF AuthInit, SetupTyped, Enrolments
<1>6. SetupInv
  BY <1>3, <1>4 DEF SetupInv, SetupIsSound, SetupIsClosed, EnrolmentIsWhole, TokenFileIsRight,
                    Configured, NoAdmin
<1>7. LoginTyped /\ ChallengesCount
  BY <1>4, Constants DEF AuthInit, LoginTyped, ChallengesCount, ChallengeGrantsOnce
<1>8. GuessesInFlight
  <2>1. \A c : Cardinality(Passing) = 0 /\ Cardinality(Answering(c)) = 0
    BY <1>1, Sets, NobodyCounts
  <2>2. failures = 0 /\ \A c \in Challenges : wrong[c] = 0
    BY DEF AuthInit
  <2> QED
    BY <2>1, <2>2, Constants DEF GuessesInFlight
<1>9. RecoveryTyped /\ CodesCount
  BY DEF AuthInit, RecoveryTyped, CodesCount
<1> QED
  BY <1>2, <1>5, <1>6, <1>7, <1>8, <1>9 DEF AuthInv, AuthTyped

LEMMA AuthSteps ==
  ASSUME AuthInv, [AuthNext]_authVars
  PROVE  AuthInv'
<1>1. CASE UNCHANGED authVars
  BY <1>1 DEF authVars, db, history, authBounds, AuthInv, AuthTyped, SetupTyped, LoginTyped,
     RecoveryTyped, RequestsTyped, RequestsAreValid, RequestIsValid, SetupInv, SetupIsSound,
     SetupIsClosed, EnrolmentIsWhole, TokenFileIsRight, VisitorAt, Configured, Live,
     GuessesInFlight, Passing, Answering, ChallengesCount, ChallengeGrantsOnce, CodesCount
<1>2. ASSUME NEW r \in Visitors, VisitorStep(r)
      PROVE  AuthInv'
  <2>1. AuthTyped /\ RequestsAreValid /\ SetupInv /\ LoginInv /\ CodesCount
    BY DEF AuthInv, AuthTyped, LoginInv
  <2>2. RequestsTyped' /\ RequestsAreValid'
    BY <1>2, <2>1, VisitorsStayValid
  <2>3. SetupTyped' /\ SetupInv'
    BY <1>2, <2>1, VisitorsKeepSetup
  <2>4. LoginInv'
    BY <1>2, <2>1, VisitorsKeepLogin
  <2>5. RecoveryTyped' /\ CodesCount'
    BY <1>2, <2>1, VisitorsKeepCodes DEF AuthTyped
  <2> QED
    BY <2>2, <2>3, <2>4, <2>5 DEF AuthInv, AuthTyped, LoginInv
<1>3. CASE \/ StartConfigured \/ IssueBootstrapToken \/ InstallTokenFile
           \/ \E c \in Challenges : DeleteSession(c) \/ ChallengeExpires(c)
           \/ \E t \in SetupTokens : TokenExpires(t)
           \/ FailureAges \/ PruneExpiredAuth
  BY <1>3, TimeKeeps
<1>4. CASE Stop
  BY <1>4, StopKeeps
<1>5. ASSUME NEW p \in Tools, ApplyRecovery(p) \/ \E k \in Codes : LookUpCode(p, k)
      PROVE  AuthInv'
  BY <1>5, RecoveryKeeps
<1> QED
  BY <1>1, <1>2, <1>3, <1>4, <1>5 DEF AuthNext, VisitorStep

(* Only an answer to an unused challenge starts a session, and an unused    *)
(* challenge has granted none before.                                       *)
LEMMA SessionsStayEnded ==
  ASSUME AuthInv, [AuthNext]_authVars, NEW c \in Challenges, granted[c] > 0, c \notin loggedIn
  PROVE  c \notin loggedIn'
<1>1. AuthTyped /\ RequestsAreValid /\ LoginInv /\ ChallengesCount
  BY DEF AuthInv, AuthTyped, LoginInv
<1>2. CASE UNCHANGED loggedIn
  BY <1>2
<1>3. ASSUME NEW r \in Visitors, VisitorStep(r)
      PROVE  c \notin loggedIn'
  <2>1. CASE ConsumeChallenge(r)
    <3>1. \/ /\ challenges[req[r].challenge].state \in {"live", "expired"}
             /\ req[r].challenge \in DOMAIN challenges
             /\ loggedIn' = loggedIn \cup {req[r].challenge}
          \/ UNCHANGED loggedIn
      BY <1>1, <2>1, ConsumptionFacts DEF AuthTyped, RequestsAreValid
    <3>2. CASE /\ challenges[req[r].challenge].state \in {"live", "expired"}
               /\ req[r].challenge \in DOMAIN challenges
      <4>1. granted[req[r].challenge] = 0
        BY <1>1, <3>2 DEF ChallengesCount
      <4> QED
        BY <3>1, <4>1
    <3> QED
      BY <3>1, <3>2
  <2>2. CASE ~ConsumeChallenge(r)
    BY <1>2, <1>3, <2>2 DEF VisitorStep, Setup, Login, ReadToken, ReadEnrolment,
       SetSetupEnrollment, CompleteSetup, RemoveTokenFile, AllowLogin, RecordFailure, Reset,
       CreateAuthChallenge, ReadChallenge, IncrementAttempts, db
  <2> QED
    BY <2>1, <2>2
<1>4. CASE \/ StartConfigured \/ IssueBootstrapToken \/ InstallTokenFile
           \/ \E d \in Challenges : DeleteSession(d) \/ ChallengeExpires(d)
           \/ \E t \in SetupTokens : TokenExpires(t)
           \/ FailureAges \/ PruneExpiredAuth
  <2>1. loggedIn' \subseteq loggedIn
    BY <1>1, <1>4, TimeFacts
  <2> QED
    BY <2>1
<1>5. CASE Stop
  BY <1>2, <1>5 DEF Stop, db
<1>6. ASSUME NEW p \in Tools, ApplyRecovery(p) \/ \E k \in Codes : LookUpCode(p, k)
      PROVE  c \notin loggedIn'
  BY <1>2, <1>6 DEF ApplyRecovery, LookUpCode, db
<1>7. CASE UNCHANGED authVars
  BY <1>2, <1>7 DEF authVars, db
<1> QED
  BY <1>3, <1>4, <1>5, <1>6, <1>7 DEF AuthNext, VisitorStep

-----------------------------------------------------------------------------
(* The inductive invariant holds in every behaviour.                        *)
THEOREM AuthIsSound == AuthSpec => []AuthInv
<1>1. AuthInit => AuthInv
  BY AuthStarts
<1>2. AuthInv /\ [AuthNext]_authVars => AuthInv'
  BY AuthSteps
<1> QED
  BY <1>1, <1>2, PTL DEF AuthSpec

(* The variables keep their types, and a session was granted by a challenge *)
(* that an existing administrator's password had opened.                    *)
THEOREM AuthTypes == AuthSpec => []AuthTypeOK
<1>1. ASSUME AuthInv
      PROVE  AuthTypeOK
  <2>1. \A t \in DOMAIN tokens : tokens[t].state \in States /\ tokens[t].row \in Rows
    <3>1. \A t \in DOMAIN tokens : tokens[t] \in TokenRows
      BY <1>1 DEF AuthInv, AuthTyped, SetupTyped
    <3> QED
      BY <3>1 DEF TokenRows
  <2>2. \A c \in DOMAIN challenges :
          challenges[c].state \in States /\ challenges[c].attempts \in Nat
    <3>1. \A c \in DOMAIN challenges : challenges[c] \in ChallengeRows
      BY <1>1 DEF AuthInv, AuthTyped, LoginTyped
    <3> QED
      BY <3>1 DEF ChallengeRows
  <2>3. \A r \in Visitors : req[r].pc \in Places
    BY <1>1 DEF AuthInv, AuthTyped, RequestsTyped, AuthRequests
  <2> QED
    BY <1>1, <2>1, <2>2, <2>3 DEF AuthInv, AuthTyped, SetupTyped, LoginTyped, RecoveryTyped,
                                  SetupInv, Places, AuthTypeOK
<1> QED
  BY <1>1, AuthIsSound, PTL

(* However many starts, enrolments and interrupted processes: one whole     *)
(* administrator, no usable setup token beside it, and no token file left   *)
(* (auth_repository.go:76-102, tokenfile.go:34-80).                         *)
THEOREM SetupLeavesNoWayBack == AuthSpec => []SetupIsSound
<1>1. AuthInv => SetupIsSound
  BY DEF AuthInv, SetupInv
<1> QED
  BY <1>1, AuthIsSound, PTL

(* However many requests run at once, a guesser gets one try per request    *)
(* beyond the limit and no more (service.go:278-290, limiter.go:37-58).     *)
THEOREM GuessersAreBounded == AuthSpec => []GuessesAreBounded
<1>1. ASSUME AuthInv
      PROVE  GuessesAreBounded
  <2>1. IsFiniteSet(Passing) /\ \A c : IsFiniteSet(Answering(c))
    BY Constants, FS_Subset DEF Passing, Answering
  <2>2. Cardinality(Passing) \in Nat /\ \A c : Cardinality(Answering(c)) \in Nat
    BY <2>1, FS_CardinalityType
  <2>3. FailuresAreBounded
    BY <1>1, <2>2, Constants DEF AuthInv, AuthTyped, LoginTyped, GuessesInFlight, FailuresAreBounded
  <2>4. ASSUME NEW c \in Challenges
        PROVE  wrong[c] <= MaxAttempts + Cardinality(Visitors) - 1
    <3>1. wrong[c] \in Nat
          /\ wrong[c] + Cardinality(Answering(c)) <= MaxAttempts + Cardinality(Visitors) - 1
      BY <1>1 DEF AuthInv, AuthTyped, LoginTyped, GuessesInFlight
    <3> QED
      BY <2>2, <3>1, Constants
  <2> QED
    BY <2>3, <2>4 DEF GuessesAreBounded, WrongCodesAreBounded
<1> QED
  BY <1>1, AuthIsSound, PTL

(* A challenge grants one session, a recovery code one recovery, and a      *)
(* session that ended stays ended (auth_repository.go:173-193, 245-252).    *)
THEOREM SecretsAreUsedOnce == AuthSpec => SecretsWorkOnce
<1>1. AuthInv => ChallengeGrantsOnce /\ RecoveryCodeWorksOnce
  BY DEF AuthInv, ChallengesCount, CodesCount, RecoveryCodeWorksOnce
<1>2. AuthInv /\ [AuthNext]_authVars =>
        [\A c \in Challenges : granted[c] > 0 /\ c \notin loggedIn => c \notin loggedIn']_authVars
  BY SessionsStayEnded
<1> QED
  BY <1>1, <1>2, AuthIsSound, PTL DEF AuthSpec, SecretsWorkOnce, EndedSessionsStayEnded
=============================================================================
