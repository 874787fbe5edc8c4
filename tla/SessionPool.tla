---------------------------- MODULE SessionPool ----------------------------
(***************************************************************************)
(* The IMAP session pool of one account (mailruntime/sessionpool.go): a     *)
(* slot for new-mail jobs and one for background jobs.  A job takes its     *)
(* slot's session out, or dials one, and puts it back; the scheduler reaps  *)
(* old ones; Close waits for everybody and closes the rest.                 *)
(*                                                                          *)
(* The lanes of module SyncQueue let one job at a time use a slot, so a     *)
(* slot stands for the job that uses it.  Sessions are numbered as dialled. *)
(***************************************************************************)
EXTENDS Integers, FiniteSets

CONSTANTS
  Slots,           \* the account's key and its background key
  MaxDials,        \* bound: sessions dialled
  MaxConfigs,      \* bound: hosts and user names the account has had
  MaxJobs          \* bound: jobs begun

ASSUME PoolAssumption == {MaxDials, MaxJobs} \subseteq Nat /\ MaxConfigs \in Nat \ {0}

VARIABLES
  config,          \* the account's host and user name, numbered
  pool,            \* Runtime.sessions, per slot, 0 if none
  held,            \* per slot: the session its job holds, 0 if none
  wanted,          \* per slot: the config its job has read
  jobAt,           \* per slot: where its job is
  identityOf,      \* per dialled session: the config it was dialled with
  open,            \* sessions not closed by this side
  aged,            \* open sessions past the sessionMaxAgeFor their provider
  reaping,         \* sessions the scheduler has taken out and not yet closed
  phase,           \* "running", "stopping" (the context is cancelled) or "stopped"
  jobs             \* begun so far (bounded)

sessions == <<pool, held, identityOf, open, aged, reaping>>
poolVars == <<config, sessions, wanted, jobAt, phase, jobs>>

NoSession == 0
Dialled == Cardinality(DOMAIN identityOf)

PoolInit ==
  /\ config = 1 /\ pool = [s \in Slots |-> NoSession] /\ held = [s \in Slots |-> NoSession]
  /\ wanted = [s \in Slots |-> 1] /\ jobAt = [s \in Slots |-> "idle"]
  /\ identityOf = <<>> /\ open = {} /\ aged = {} /\ reaping = {}
  /\ phase = "running" /\ jobs = 0

(* UpdatePasswordAccount; time passes.                                      *)
Reconfigure ==
  /\ config < MaxConfigs /\ config' = config + 1
  /\ UNCHANGED <<sessions, wanted, jobAt, phase, jobs>>
Age ==
  /\ \E n \in open \ aged : aged' = aged \cup {n}
  /\ UNCHANGED <<config, pool, held, identityOf, open, reaping, wanted, jobAt, phase, jobs>>

-----------------------------------------------------------------------------
JobGoto(s, state) == jobAt' = [jobAt EXCEPT ![s] = state]

(* A job reads the account's configuration, then asks for a session.        *)
BeginJob(s) ==
  /\ phase # "stopped" /\ jobAt[s] = "idle" /\ jobs < MaxJobs /\ jobs' = jobs + 1
  /\ wanted' = [wanted EXCEPT ![s] = config] /\ JobGoto(s, "acquiring")
  /\ UNCHANGED <<config, sessions, phase>>

(* acquireSession: taken out under poolMu; judged without it.               *)
LeftInPool(s) == pool                \* seeded fault: the slot is not emptied
TakenOut(s) == [pool EXCEPT ![s] = NoSession]
Checkout(s) ==
  /\ jobAt[s] = "acquiring" /\ pool' = TakenOut(s)
  /\ held' = [held EXCEPT ![s] = pool[s]]
  /\ JobGoto(s, IF pool[s] = NoSession THEN "dialling" ELSE "probing")
  /\ UNCHANGED <<config, identityOf, open, aged, reaping, wanted, phase, jobs>>

(* The session must have the configuration's identity, be young and answer  *)
(* NOOP; it may always not answer.                                          *)
Usable(s) == identityOf[held[s]] = wanted[s] /\ held[s] \notin aged
Probe(s) ==
  /\ jobAt[s] = "probing"
  /\ \/ Usable(s) /\ JobGoto(s, "working") /\ UNCHANGED <<held, open>>
     \/ /\ open' = open \ {held[s]} /\ held' = [held EXCEPT ![s] = NoSession]
        /\ JobGoto(s, "dialling")
  /\ UNCHANGED <<config, pool, identityOf, aged, reaping, wanted, phase, jobs>>

Dial(s) ==
  /\ jobAt[s] = "dialling"
  /\ \/ /\ Dialled < MaxDials /\ JobGoto(s, "working")
        /\ identityOf' = [n \in 1..(Dialled + 1) |->
                           IF n <= Dialled THEN identityOf[n] ELSE wanted[s]]
        /\ open' = open \cup {Dialled + 1} /\ held' = [held EXCEPT ![s] = Dialled + 1]
     \/ JobGoto(s, "idle") /\ UNCHANGED <<identityOf, open, held>>
  /\ UNCHANGED <<config, pool, aged, reaping, wanted, phase, jobs>>

(* releaseSession: a failed job's session is closed, a good one goes back   *)
(* and replaces, and closes, what is there.                                 *)
Replaced(s) == {pool[s]} \ {held[s]}
Release(s) ==
  /\ jobAt[s] = "working" /\ held' = [held EXCEPT ![s] = NoSession] /\ JobGoto(s, "idle")
  /\ \/ pool' = [pool EXCEPT ![s] = held[s]] /\ open' = open \ Replaced(s)
     \/ open' = open \ {held[s]} /\ UNCHANGED pool
  /\ UNCHANGED <<config, identityOf, aged, reaping, wanted, phase, jobs>>

(* reapSessions, on the scheduler's poll: the old and the idle ones, any of *)
(* the pool's, are taken out under poolMu, and closed without it.           *)
Reap ==
  /\ phase # "stopped" /\ reaping = {}
  /\ \E old \in SUBSET open :
       /\ reaping' = {pool[s] : s \in Slots} \cap old /\ reaping' # {}
       /\ pool' = [s \in Slots |-> IF pool[s] \in old THEN NoSession ELSE pool[s]]
  /\ UNCHANGED <<config, held, identityOf, open, aged, wanted, jobAt, phase, jobs>>
CloseReaped ==
  /\ reaping # {} /\ open' = open \ reaping /\ reaping' = {}
  /\ UNCHANGED <<config, pool, held, identityOf, aged, wanted, jobAt, phase, jobs>>

(* Close: cancel, wait for every worker and the scheduler, close the rest.  *)
Cancel ==
  /\ phase = "running" /\ phase' = "stopping"
  /\ UNCHANGED <<config, sessions, wanted, jobAt, jobs>>
WaitedForNobody == TRUE              \* seeded fault: the sessions are closed at once
AllReturned == reaping = {} /\ \A s \in Slots : jobAt[s] = "idle"
CloseAllSessions ==
  /\ phase = "stopping" /\ AllReturned /\ phase' = "stopped"
  /\ open' = open \ {pool[s] : s \in Slots} /\ pool' = [s \in Slots |-> NoSession]
  /\ UNCHANGED <<config, held, identityOf, aged, reaping, wanted, jobAt, jobs>>

PoolNext ==
  \/ Reconfigure \/ Age \/ Reap \/ CloseReaped \/ Cancel \/ CloseAllSessions
  \/ \E s \in Slots : BeginJob(s) \/ Checkout(s) \/ Probe(s) \/ Dial(s) \/ Release(s)

PoolSpec == PoolInit /\ [][PoolNext]_poolVars

-----------------------------------------------------------------------------
Known == 0..MaxDials
PoolTypeOK ==
  /\ config \in 1..MaxConfigs /\ pool \in [Slots -> Known] /\ held \in [Slots -> Known]
  /\ wanted \in [Slots -> 1..MaxConfigs]
  /\ jobAt \in [Slots -> {"idle", "acquiring", "probing", "dialling", "working"}]
  /\ Dialled <= MaxDials /\ {open, aged, reaping} \subseteq SUBSET (DOMAIN identityOf)
  /\ phase \in {"running", "stopping", "stopped"} /\ jobs \in 0..MaxJobs

(* A session a job works with belongs to it alone, is open, and was dialled *)
(* with the configuration the job has read: neither the reaper nor Close    *)
(* nor another job closes or uses it (sessionpool.go:50-55).                *)
WorkingSessionsAreGood ==
  \A s \in Slots : jobAt[s] = "working" =>
    /\ held[s] \in open \ reaping /\ identityOf[held[s]] = wanted[s]
    /\ \A t \in Slots : pool[t] # held[s] /\ (t # s => held[t] # held[s])

(* No login is leaked: an open session is in the pool, with a job or being  *)
(* reaped, and after Close none is open (runtime.go:250-262).               *)
NoSessionLeaks ==
  /\ \A n \in open : n \in reaping \/ \E s \in Slots : n \in {pool[s], held[s]}
  /\ phase = "stopped" => open = {}

SessionsAreAccounted == WorkingSessionsAreGood /\ NoSessionLeaks
=============================================================================
