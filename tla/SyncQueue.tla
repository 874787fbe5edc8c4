----------------------------- MODULE SyncQueue -----------------------------
(***************************************************************************)
(* The queue of synchronisation jobs (internal/mailruntime/sync.go): who    *)
(* may ask for a job, how requests for the same job are folded together,    *)
(* and how a fixed pool of workers runs the jobs while each account has one *)
(* slot for foreground and one for background work.                         *)
(*                                                                          *)
(* A job in the system is a token: it is held by the caller that created    *)
(* it, lies in a bounded channel, waits in a dispatcher goroutine for room  *)
(* in the channel, is held by a worker, or is parked until its account's    *)
(* slot is free.  One step is one critical section of syncMu or one channel *)
(* operation; a caller, a worker, a dispatcher and a retry timer interleave *)
(* between them.  Shutdown is left out: it ends every goroutine.            *)
(***************************************************************************)
EXTENDS Integers, Sequences, FiniteSets

CONSTANTS
  Jobs,            \* the keys of syncJob.key(): kind, account and folder
  Background,      \* those that are backfills and reconciles
  AccountOf,       \* the account of each job
  Gone,            \* jobs whose account or folder no longer exists
  Workers,         \* DefaultWorkerLimit goroutines
  Callers,         \* goroutines that may be inside enqueueSync at once
  Impatient,       \* those whose context may be cancelled (job contexts, IDLE)
  Capacity,        \* capacity of each channel
  NoJob,           \* "no job", not one of Jobs
  MaxRequests,     \* bound: requests from outside
  MaxFailures      \* bound: runs that fail

ASSUME QueueAssumption ==
  /\ Background \subseteq Jobs /\ Gone \subseteq Jobs /\ Impatient \subseteq Callers
  /\ NoJob \notin Jobs
  /\ IsFiniteSet(Workers) /\ IsFiniteSet(Callers)
  /\ Capacity \in Nat /\ MaxRequests \in Nat /\ MaxFailures \in Nat

VARIABLES
  pending,         \* per job: absent from the pending map, in it, or in it
                   \* with the rerun flag
  failing,         \* jobs with an entry in the failures map
  timers,          \* per job: retry timers that have not fired
  channel,         \* per tier: syncHigh and syncLow
  dispatchers,     \* per job: goroutines waiting for room in the channel
  parked,          \* per slot: fgWaiting and bgWaiting of the account
  locked,          \* slots whose mutex is held
  worker,          \* per worker: where it is, its job, the job it un-parked
  caller,          \* per caller: the job it has entered but not dispatched
  giving,          \* callers that found the channel full and their context over
  owed,            \* history: jobs with an accepted request not yet started
  abandoned,       \* history: jobs a caller took out of the pending map after
                   \* others had asked for them, until they run again
  requests,        \* requests so far (bounded)
  failures         \* failed runs so far (bounded)

vars == <<pending, failing, timers, channel, dispatchers, parked, locked,
          worker, caller, giving, owed, abandoned, requests, failures>>

Tiers == {"high", "low"}
Tier(j) == IF j \in Background THEN "low" ELSE "high"
Slot(j) == <<AccountOf[j], Tier(j)>>
Slots == {Slot(j) : j \in Jobs}

IdleWorker == [pc |-> "idle", job |-> NoJob, next |-> NoJob, ok |-> TRUE]

Init ==
  /\ pending = [j \in Jobs |-> "no"]
  /\ failing = {} /\ timers = [j \in Jobs |-> 0]
  /\ channel = [t \in Tiers |-> <<>>] /\ dispatchers = [j \in Jobs |-> 0]
  /\ parked = [s \in Slots |-> <<>>] /\ locked = {}
  /\ worker = [w \in Workers |-> IdleWorker]
  /\ caller = [c \in Callers |-> NoJob]
  /\ giving = {} /\ owed = {} /\ abandoned = {} /\ requests = 0 /\ failures = 0

-----------------------------------------------------------------------------
(* dispatchSync: into the channel if it has room, into a dispatcher         *)
(* goroutine otherwise; it never blocks.                                    *)
HasRoomOffByOne(j) == Len(channel[Tier(j)]) <= Capacity    \* seeded fault
HasRoom(j) == Len(channel[Tier(j)]) < Capacity
DispatchOrDrop(j) ==          \* seeded fault: no dispatcher goroutine
  \/ /\ HasRoom(j)
     /\ channel' = [channel EXCEPT ![Tier(j)] = Append(@, j)]
     /\ UNCHANGED dispatchers
  \/ ~HasRoom(j) /\ UNCHANGED <<channel, dispatchers>>

Dispatch(j) ==
  \/ /\ HasRoom(j)
     /\ channel' = [channel EXCEPT ![Tier(j)] = Append(@, j)]
     /\ UNCHANGED dispatchers
  \/ /\ ~HasRoom(j)
     /\ dispatchers' = [dispatchers EXCEPT ![j] = @ + 1]
     /\ UNCHANGED channel

(* enqueueSync, up to the unlock of syncMu: a job that is in the system     *)
(* already is marked for a rerun, another one is entered and has now to be  *)
(* dispatched by this caller.                                               *)
EnterAlways(c, j) ==          \* seeded fault: the pending map is not consulted
  /\ caller[c] = NoJob
  /\ pending' = [pending EXCEPT ![j] = "yes"]
  /\ caller' = [caller EXCEPT ![c] = j]
  /\ owed' = owed \cup {j}
Enter(c, j) ==
  /\ caller[c] = NoJob
  /\ IF pending[j] = "no"
     THEN /\ pending' = [pending EXCEPT ![j] = "yes"]
          /\ caller' = [caller EXCEPT ![c] = j]
     ELSE /\ pending' = [pending EXCEPT ![j] = "rerun"]
          /\ UNCHANGED caller
  /\ owed' = owed \cup {j}

(* The scheduler, discovery, a finished folder sync, an IDLE watcher or a   *)
(* user request a job.                                                      *)
Request(c, j) ==
  /\ requests < MaxRequests /\ requests' = requests + 1
  /\ Enter(c, j)
  /\ UNCHANGED <<failing, timers, channel, dispatchers, parked, locked, worker, giving,
                 abandoned, failures>>

(* A retry timer fires; its goroutine calls enqueueSync like any other.     *)
TimerFires(c, j) ==
  /\ timers[j] > 0 /\ c \notin Impatient
  /\ timers' = [timers EXCEPT ![j] = @ - 1]
  /\ Enter(c, j)
  /\ UNCHANGED <<failing, channel, dispatchers, parked, locked, worker, giving, abandoned,
                 requests, failures>>

CallerDispatches(c) ==
  /\ caller[c] # NoJob /\ c \notin giving
  /\ Dispatch(caller[c])
  /\ caller' = [caller EXCEPT ![c] = NoJob]
  /\ UNCHANGED <<pending, failing, timers, parked, locked, worker, giving, owed,
                 abandoned, requests, failures>>

(* dispatchSync finds the channel full and the caller's context over, and   *)
(* returns the error to enqueueSync ...                                     *)
CallerFindsNoRoom(c) ==
  /\ caller[c] # NoJob /\ c \in Impatient \ giving /\ ~HasRoom(caller[c])
  /\ giving' = giving \cup {c}
  /\ UNCHANGED <<pending, failing, timers, channel, dispatchers, parked, locked, worker,
                 caller, owed, abandoned, requests, failures>>

(* ... which takes the job out of the map again, whatever the channel looks *)
(* like by now, and reports the error: its own request is not owed, one     *)
(* folded into the entry in the meantime was accepted.                      *)
CallerGivesUp(c) ==
  /\ caller[c] # NoJob /\ c \in giving
  /\ IF pending[caller[c]] = "rerun"
     THEN abandoned' = abandoned \cup {caller[c]} /\ UNCHANGED owed
     ELSE owed' = owed \ {caller[c]} /\ UNCHANGED abandoned
  /\ pending' = [pending EXCEPT ![caller[c]] = "no"]
  /\ caller' = [caller EXCEPT ![c] = NoJob]
  /\ giving' = giving \ {c}
  /\ UNCHANGED <<failing, timers, channel, dispatchers, parked, locked, worker, requests,
                 failures>>

DispatcherSends(j) ==
  /\ dispatchers[j] > 0 /\ HasRoom(j)
  /\ dispatchers' = [dispatchers EXCEPT ![j] = @ - 1]
  /\ channel' = [channel EXCEPT ![Tier(j)] = Append(@, j)]
  /\ UNCHANGED <<pending, failing, timers, parked, locked, worker, caller, giving, owed,
                 abandoned, requests, failures>>

-----------------------------------------------------------------------------
Take(w, t) ==
  /\ channel[t] # <<>>
  /\ worker' = [worker EXCEPT ![w] = [IdleWorker EXCEPT !.pc = "got", !.job = Head(channel[t])]]
  /\ channel' = [channel EXCEPT ![t] = Tail(@)]
  /\ UNCHANGED <<pending, failing, timers, dispatchers, parked, locked, caller, giving,
                 owed, abandoned, requests, failures>>

(* nextSyncJob's first select: foreground work, if there is any now.        *)
PollHigh(w) ==
  /\ worker[w].pc = "idle"
  /\ \/ Take(w, "high")
     \/ /\ channel["high"] = <<>>
        /\ worker' = [worker EXCEPT ![w].pc = "waiting"]
        /\ UNCHANGED <<pending, failing, timers, channel, dispatchers, parked, locked,
                       caller, giving, owed, abandoned, requests, failures>>

(* Its second select: whatever comes first.                                 *)
ReceiveAny(w) == worker[w].pc = "waiting" /\ \E t \in Tiers : Take(w, t)

(* runSyncJob and acquireSyncSlot: the job starts if its account's slot is  *)
(* free; otherwise it is parked and the worker goes back for another.       *)
SlotFreeUnchecked(j) == TRUE        \* seeded fault: TryLock's result is ignored
SlotFree(j) == Slot(j) \notin locked
AcquireSlot(w) ==
  LET j == worker[w].job IN
  /\ worker[w].pc = "got"
  /\ IF SlotFree(j)
     THEN /\ locked' = locked \cup {Slot(j)}
          /\ worker' = [worker EXCEPT ![w].pc = "running"]
          /\ owed' = owed \ {j} /\ abandoned' = abandoned \ {j}
          /\ UNCHANGED parked
     ELSE /\ parked' = [parked EXCEPT ![Slot(j)] = Append(@, j)]
          /\ worker' = [worker EXCEPT ![w] = IdleWorker]
          /\ UNCHANGED <<locked, owed, abandoned>>
  /\ UNCHANGED <<pending, failing, timers, channel, dispatchers, caller, giving, requests,
                 failures>>

(* The job's body returns, and the deferred releaseSyncSlot unlocks the     *)
(* slot before it takes syncMu.                                             *)
EndRun(w) ==
  LET j == worker[w].job IN
  /\ worker[w].pc = "running"
  /\ \E ok \in BOOLEAN :
       /\ j \in Gone => ~ok
       /\ ok \/ j \in Gone \/ failures < MaxFailures
       /\ failures' = IF ok \/ j \in Gone THEN failures ELSE failures + 1
       /\ worker' = [worker EXCEPT ![w].pc = "released", ![w].ok = ok]
  /\ locked' = locked \ {Slot(j)}
  /\ UNCHANGED <<pending, failing, timers, channel, dispatchers, parked, caller, giving,
                 owed, abandoned, requests>>

(* releaseSyncSlot: take the first parked job of the slot, if there is one. *)
PopNothing(w) ==              \* seeded fault: nobody un-parks a job
  /\ worker[w].pc = "released"
  /\ worker' = [worker EXCEPT ![w].pc = "finishing"]
  /\ UNCHANGED <<pending, failing, timers, channel, dispatchers, parked, locked, caller,
                 giving, owed, abandoned, requests, failures>>

PopParked(w) ==
  LET s == Slot(worker[w].job) IN
  /\ worker[w].pc = "released"
  /\ IF parked[s] = <<>>
     THEN worker' = [worker EXCEPT ![w].pc = "finishing"] /\ UNCHANGED parked
     ELSE /\ worker' = [worker EXCEPT ![w].pc = "unparked", ![w].next = Head(parked[s])]
          /\ parked' = [parked EXCEPT ![s] = Tail(@)]
  /\ UNCHANGED <<pending, failing, timers, channel, dispatchers, locked, caller, giving,
                 owed, abandoned, requests, failures>>

DispatchUnparked(w) ==
  /\ worker[w].pc = "unparked"
  /\ Dispatch(worker[w].next)
  /\ worker' = [worker EXCEPT ![w].pc = "finishing", ![w].next = NoJob]
  /\ UNCHANGED <<pending, failing, timers, parked, locked, caller, giving, owed,
                 abandoned, requests, failures>>

(* finishSyncJob, under syncMu: a rerun request keeps the job in the map,   *)
(* to be dispatched again at once; otherwise it leaves the map, and a       *)
(* failure starts a retry timer unless what it was to sync is gone.         *)
RetriedIfForeground(w) ==     \* seeded fault: background jobs wait for the next tick
  ~worker[w].ok /\ worker[w].job \notin Gone \cup Background
Retried(w) == ~worker[w].ok /\ worker[w].job \notin Gone
FinishIgnoringRerun(w) ==     \* seeded fault: the rerun flag is not looked at
  LET j == worker[w].job IN
  /\ worker[w].pc = "finishing"
  /\ failing' = IF worker[w].ok THEN failing \ {j} ELSE failing \cup {j}
  /\ pending' = [pending EXCEPT ![j] = "no"]
  /\ worker' = [worker EXCEPT ![w] = IdleWorker]
  /\ timers' = [timers EXCEPT ![j] = IF Retried(w) THEN @ + 1 ELSE @]
  /\ UNCHANGED <<channel, dispatchers, parked, locked, caller, giving, owed, abandoned,
                 requests, failures>>

FinishJob(w) ==
  LET j == worker[w].job IN
  /\ worker[w].pc = "finishing"
  /\ failing' = IF worker[w].ok THEN failing \ {j} ELSE failing \cup {j}
  /\ IF pending[j] = "rerun"
     THEN /\ pending' = [pending EXCEPT ![j] = "yes"]
          /\ worker' = [worker EXCEPT ![w].pc = "again"]
          /\ UNCHANGED timers
     ELSE /\ pending' = [pending EXCEPT ![j] = "no"]
          /\ worker' = [worker EXCEPT ![w] = IdleWorker]
          /\ timers' = [timers EXCEPT ![j] = IF Retried(w) THEN @ + 1 ELSE @]
  /\ UNCHANGED <<channel, dispatchers, parked, locked, caller, giving, owed, abandoned,
                 requests, failures>>

DispatchAgain(w) ==
  /\ worker[w].pc = "again"
  /\ Dispatch(worker[w].job)
  /\ worker' = [worker EXCEPT ![w] = IdleWorker]
  /\ UNCHANGED <<pending, failing, timers, parked, locked, caller, giving, owed,
                 abandoned, requests, failures>>

-----------------------------------------------------------------------------
WorkerStep(w) ==
  \/ PollHigh(w) \/ ReceiveAny(w) \/ AcquireSlot(w) \/ EndRun(w) \/ PopParked(w)
  \/ DispatchUnparked(w) \/ FinishJob(w) \/ DispatchAgain(w)

Next ==
  \/ \E c \in Callers, j \in Jobs : Request(c, j) \/ TimerFires(c, j)
  \/ \E c \in Callers : CallerDispatches(c) \/ CallerFindsNoRoom(c) \/ CallerGivesUp(c)
  \/ \E j \in Jobs : DispatcherSends(j)
  \/ \E w \in Workers : WorkerStep(w)

Spec == Init /\ [][Next]_vars

(* Goroutines are scheduled and every run ends (timeoutForSyncJob).  A      *)
(* dispatcher competes with others for the room in a channel, whose waiting *)
(* senders Go serves in order: strong fairness.  Nobody has to ask.         *)
Fairness ==
  /\ \A w \in Workers : WF_vars(WorkerStep(w))
  /\ \A c \in Callers : WF_vars(CallerDispatches(c) \/ CallerGivesUp(c))
  /\ \A j \in Jobs : SF_vars(DispatcherSends(j))
  /\ \A j \in Jobs : SF_vars(\E c \in Callers : TimerFires(c, j))

FairSpec == Spec /\ Fairness

-----------------------------------------------------------------------------
TypeOK ==
  /\ pending \in [Jobs -> {"no", "yes", "rerun"}]
  /\ failing \subseteq Jobs /\ owed \subseteq Jobs /\ abandoned \subseteq Jobs
  /\ locked \subseteq Slots
  /\ timers \in [Jobs -> 0..MaxFailures] /\ dispatchers \in [Jobs -> Nat]
  /\ channel \in [Tiers -> Seq(Jobs)] /\ \A t \in Tiers : Len(channel[t]) <= Capacity
  /\ parked \in [Slots -> Seq(Jobs)]
  /\ worker \in [Workers ->
       [pc : {"idle", "waiting", "got", "running", "released", "unparked", "finishing", "again"},
        job : Jobs \cup {NoJob}, next : Jobs \cup {NoJob}, ok : BOOLEAN]]
  /\ caller \in [Callers -> Jobs \cup {NoJob}] /\ giving \subseteq Impatient
  /\ requests \in 0..MaxRequests /\ failures \in 0..MaxFailures

Occurrences(j, seq) == Cardinality({i \in DOMAIN seq : seq[i] = j})

(* The tokens of a job, wherever they are.                                  *)
Tokens(j) ==
  Cardinality({c \in Callers : caller[c] = j})
  + Occurrences(j, channel[Tier(j)]) + dispatchers[j] + Occurrences(j, parked[Slot(j)])
  + Cardinality({w \in Workers : worker[w].job = j})
  + Cardinality({w \in Workers : worker[w].next = j})

(* The pending map is the record of what is in the system (sync.go:74-77):  *)
(* a job in it has exactly one token, another job none, so a job is neither *)
(* run twice at once nor blocked for ever by an entry nobody will finish.   *)
OneTokenPerPendingJob ==
  \A j \in Jobs : Tokens(j) = IF pending[j] = "no" THEN 0 ELSE 1

(* The two slots of an account are exclusive (runtime.go:102-105).          *)
SlotsAreExclusive ==
  \A v, w \in Workers :
    v # w /\ worker[v].pc = "running" /\ worker[w].pc = "running"
      => Slot(worker[v].job) # Slot(worker[w].job)

(* A job some goroutine still has to carry to its slot, or that has its     *)
(* slot and has not looked at the list of parked jobs yet.                  *)
OnItsWay(j) ==
  \/ \E c \in Callers : caller[c] = j
  \/ dispatchers[j] > 0 \/ Occurrences(j, channel[Tier(j)]) > 0
  \/ \E w \in Workers :
       \/ worker[w].job = j /\ worker[w].pc \in {"got", "running", "released", "again"}
       \/ worker[w].next = j

(* No lost wake-up between TryLock-or-park and unlock-then-pop: while jobs  *)
(* are parked for a slot, another job of the slot is going to release it.   *)
ParkedJobsAreWoken ==
  \A s \in Slots : parked[s] # <<>> => \E j \in Jobs : Slot(j) = s /\ OnItsWay(j)

(* A request that was accepted is owed a run that starts after it: the job  *)
(* has not started yet, or it will be dispatched again when it ends.  The   *)
(* exception is a job that was abandoned: see FailingJobsComeBack.          *)
AcceptedRequestsAreHeld ==
  \A j \in owed \ abandoned :
    \/ pending[j] = "rerun"
    \/ pending[j] = "yes" /\ ~ \E w \in Workers :
         worker[w].job = j /\ worker[w].pc \in {"running", "released", "unparked", "finishing"}

(* sync.go:490-492: a failing job belongs to its backoff timer.  Inbox      *)
(* polling leaves such a job alone, so it must be in the system already or  *)
(* have a timer that will bring it back.  The code does not keep this: a    *)
(* caller that gives up takes the job out of the map together with the      *)
(* retry that was folded into its entry.                                    *)
FailingJobsComeBack ==
  \A j \in failing \ Gone : pending[j] # "no" \/ timers[j] > 0

(* What it does keep: only an abandoned job is ever left without a retry.   *)
FailingJobsAreRetried ==
  \A j \in failing \ (Gone \cup abandoned) : pending[j] # "no" \/ timers[j] > 0

(* Every accepted request is eventually followed by the start of a run,     *)
(* unless its job is abandoned.                                             *)
RequestsAreServed == \A j \in Jobs : (j \in owed) ~> (j \notin owed \/ j \in abandoned)
=============================================================================
