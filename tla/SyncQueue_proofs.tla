-------------------------- MODULE SyncQueue_proofs --------------------------
(***************************************************************************)
(* The job queue, for any jobs, accounts and channel capacity and any       *)
(* finite sets of workers and callers: the slots of an account are          *)
(* exclusive (SlotInv), every job in the pending map is carried by exactly  *)
(* one goroutine or queue (TokenInv), and from that one token follow that   *)
(* parked jobs are woken, accepted requests are held, failing jobs are      *)
(* retried, and retry timers are bounded by the failed runs (QueueInv).     *)
(***************************************************************************)
EXTENDS SyncQueue, FiniteSetTheorems, TLAPS

(* The part of the type invariant the argument needs: whatever carries a    *)
(* job carries one of Jobs, and each worker is a record of its own.         *)
WorkerPCs ==
  {"idle", "waiting", "got", "running", "released", "unparked", "finishing", "again"}
WorkerStates ==
  [pc : WorkerPCs, job : Jobs \cup {NoJob}, next : Jobs \cup {NoJob}, ok : BOOLEAN]
Typed ==
  /\ worker \in [Workers -> WorkerStates]
  /\ caller \in [Callers -> Jobs \cup {NoJob}]
  /\ channel \in [Tiers -> Seq(Jobs)]
  /\ parked \in [Slots -> Seq(Jobs)]

(* What makes exclusion inductive: a worker that runs, or is past its run,  *)
(* or is about to try for the slot, has a job; and a running job's slot is  *)
(* among the locked ones, so a worker that finds a slot free finds nobody   *)
(* running in it.                                                           *)
HasJob ==
  \A w \in Workers :
    /\ worker[w].pc \notin {"idle", "waiting"} => worker[w].job \in Jobs
    /\ worker[w].pc = "unparked" => worker[w].next \in Jobs
RunningHoldsSlot ==
  \A w \in Workers : worker[w].pc = "running" => Slot(worker[w].job) \in locked

SlotInv == Typed /\ HasJob /\ RunningHoldsSlot /\ SlotsAreExclusive

(* An idle worker has the shape of a worker and runs nothing.               *)
LEMMA IdleWorkerState == IdleWorker \in WorkerStates /\ IdleWorker.pc = "idle"
BY DEF IdleWorker, WorkerStates, WorkerPCs

(* Every job has a tier and a slot.                                         *)
LEMMA JobPlaces ==
  ASSUME NEW j \in Jobs PROVE Tier(j) \in Tiers /\ Slot(j) \in Slots
BY DEF Tier, Tiers, Slots

(* At the start no worker runs anything.                                    *)
LEMMA SlotInit == Init => SlotInv
<1> SUFFICES ASSUME Init PROVE SlotInv
  OBVIOUS
<1>1. worker \in [Workers -> WorkerStates] /\ \A w \in Workers : worker[w].pc = "idle"
  BY IdleWorkerState DEF Init
<1>2. caller \in [Callers -> Jobs \cup {NoJob}]
  BY DEF Init
<1>3. channel \in [Tiers -> Seq(Jobs)] /\ parked \in [Slots -> Seq(Jobs)]
  BY DEF Init
<1> QED
  BY <1>1, <1>2, <1>3 DEF SlotInv, Typed, HasJob, RunningHoldsSlot, SlotsAreExclusive

(* Dispatching a job keeps the channels sequences of jobs.                  *)
LEMMA DispatchTyped ==
  ASSUME NEW j \in Jobs, channel \in [Tiers -> Seq(Jobs)], Dispatch(j)
  PROVE  channel' \in [Tiers -> Seq(Jobs)]
<1>1. Tier(j) \in Tiers
  BY JobPlaces
<1>2. Append(channel[Tier(j)], j) \in Seq(Jobs)
  BY <1>1
<1> QED
  BY <1>1, <1>2 DEF Dispatch

(* A step that leaves the workers and the locks alone.                      *)
LEMMA FrameStep ==
  ASSUME SlotInv, Typed', UNCHANGED <<worker, locked>>
  PROVE  SlotInv'
BY DEF SlotInv, HasJob, RunningHoldsSlot, SlotsAreExclusive, Slot

(* A step of one worker that does not run afterwards and releases at most   *)
(* its own slot, which it held alone.                                       *)
LEMMA WorkerLeaves ==
  ASSUME SlotInv, Typed', NEW w \in Workers, NEW s \in WorkerStates,
         worker' = [worker EXCEPT ![w] = s], s.pc # "running",
         s.pc \notin {"idle", "waiting"} => s.job \in Jobs,
         s.pc = "unparked" => s.next \in Jobs,
         \/ locked' = locked
         \/ worker[w].pc = "running" /\ locked' = locked \ {Slot(worker[w].job)}
  PROVE  SlotInv'
<1>1. worker'[w] = s /\ \A v \in Workers \ {w} : worker'[v] = worker[v]
  BY DEF SlotInv, Typed
<1>2. HasJob'
  BY <1>1 DEF SlotInv, HasJob
<1>3. RunningHoldsSlot'
  BY <1>1 DEF SlotInv, RunningHoldsSlot, SlotsAreExclusive, Slot
<1>4. SlotsAreExclusive'
  BY <1>1 DEF SlotInv, SlotsAreExclusive, Slot
<1> QED
  BY <1>2, <1>3, <1>4 DEF SlotInv

(* Every step keeps the slots exclusive: one case per action.               *)
LEMMA SlotStep == SlotInv /\ [Next]_vars => SlotInv'
<1> SUFFICES ASSUME SlotInv, [Next]_vars PROVE SlotInv'
  OBVIOUS
<1> USE DEF SlotInv, Typed
<1>1. CASE UNCHANGED vars
  BY <1>1, FrameStep DEF vars
<1>2. ASSUME NEW c \in Callers, NEW j \in Jobs, Request(c, j) \/ TimerFires(c, j)
      PROVE  SlotInv'
  BY <1>2, FrameStep DEF Request, TimerFires, Enter
<1>3. ASSUME NEW c \in Callers, CallerDispatches(c) PROVE SlotInv'
  <2>1. caller[c] \in Jobs /\ Dispatch(caller[c])
    BY <1>3 DEF CallerDispatches
  <2>2. Typed'
    BY <1>3, <2>1, DispatchTyped DEF CallerDispatches
  <2> QED
    BY <1>3, <2>2, FrameStep DEF CallerDispatches
<1>4. ASSUME NEW c \in Callers, CallerGivesUp(c) PROVE SlotInv'
  BY <1>4, FrameStep DEF CallerGivesUp
<1>5. ASSUME NEW j \in Jobs, DispatcherSends(j) PROVE SlotInv'
  BY <1>5, FrameStep, JobPlaces DEF DispatcherSends
<1>6. ASSUME NEW w \in Workers, NEW t \in Tiers, Take(w, t) PROVE SlotInv'
  <2> DEFINE s == [IdleWorker EXCEPT !.pc = "got", !.job = Head(channel[t])]
  <2>1. Head(channel[t]) \in Jobs /\ Tail(channel[t]) \in Seq(Jobs)
    BY <1>6 DEF Take
  <2>2. s \in WorkerStates /\ s.pc = "got" /\ s.job \in Jobs
    BY <2>1 DEF IdleWorker, WorkerStates, WorkerPCs
  <2>3. worker' = [worker EXCEPT ![w] = s] /\ locked' = locked
    BY <1>6 DEF Take
  <2>4. Typed'
    BY <1>6, <2>1, <2>2, <2>3 DEF Take
  <2> HIDE DEF s
  <2> QED
    BY <2>2, <2>3, <2>4, WorkerLeaves
<1>7. ASSUME NEW w \in Workers, PollHigh(w) PROVE SlotInv'
  <2>1. CASE Take(w, "high")
    BY <1>6, <2>1 DEF Tiers
  <2>2. CASE /\ worker' = [worker EXCEPT ![w].pc = "waiting"]
             /\ UNCHANGED <<caller, channel, parked, locked>>
    <3> DEFINE s == [worker[w] EXCEPT !.pc = "waiting"]
    <3>1. s \in WorkerStates /\ s.pc = "waiting"
      BY DEF WorkerStates, WorkerPCs
    <3>2. worker' = [worker EXCEPT ![w] = s]
      BY <2>2
    <3>3. Typed'
      BY <2>2, <3>1, <3>2
    <3> HIDE DEF s
    <3> QED
      BY <2>2, <3>1, <3>2, <3>3, WorkerLeaves
  <2> QED
    BY <1>7, <2>1, <2>2 DEF PollHigh
<1>8. ASSUME NEW w \in Workers, ReceiveAny(w) PROVE SlotInv'
  BY <1>8, <1>6 DEF ReceiveAny
<1>9. ASSUME NEW w \in Workers, AcquireSlot(w) PROVE SlotInv'
  <2> DEFINE j == worker[w].job
  <2>1. j \in Jobs
    BY <1>9 DEF AcquireSlot, HasJob
  <2>2. CASE SlotFree(j)
    <3>1. /\ worker' = [worker EXCEPT ![w].pc = "running"]
          /\ locked' = locked \cup {Slot(j)} /\ UNCHANGED <<caller, channel, parked>>
      BY <1>9, <2>2 DEF AcquireSlot
    <3>2. /\ worker'[w].pc = "running" /\ worker'[w].job = j
          /\ worker' \in [Workers -> WorkerStates]
          /\ \A v \in Workers \ {w} : worker'[v] = worker[v]
      BY <3>1 DEF WorkerStates, WorkerPCs
    <3>3. HasJob'
      BY <2>1, <3>2 DEF HasJob
    <3>4. RunningHoldsSlot'
      BY <3>1, <3>2 DEF RunningHoldsSlot, Slot
    <3>5. SlotsAreExclusive'
      BY <2>2, <3>2 DEF SlotsAreExclusive, RunningHoldsSlot, SlotFree, Slot
    <3> QED
      BY <3>1, <3>2, <3>3, <3>4, <3>5
  <2>3. CASE ~SlotFree(j)
    <3>1. /\ worker' = [worker EXCEPT ![w] = IdleWorker]
          /\ parked' = [parked EXCEPT ![Slot(j)] = Append(@, j)]
          /\ UNCHANGED <<caller, channel, locked>>
      BY <1>9, <2>3 DEF AcquireSlot
    <3>2. Typed'
      BY <2>1, <3>1, IdleWorkerState, JobPlaces
    <3> QED
      BY <3>1, <3>2, IdleWorkerState, WorkerLeaves
  <2> QED
    BY <2>2, <2>3
<1>10. ASSUME NEW w \in Workers, EndRun(w) PROVE SlotInv'
  <2>1. PICK ok \in BOOLEAN : worker' = [worker EXCEPT ![w].pc = "released", ![w].ok = ok]
    BY <1>10 DEF EndRun
  <2> DEFINE s == [worker[w] EXCEPT !.pc = "released", !.ok = ok]
  <2>2. s \in WorkerStates /\ s.pc = "released" /\ s.job = worker[w].job
    BY DEF WorkerStates, WorkerPCs
  <2>3. worker' = [worker EXCEPT ![w] = s]
    BY <2>1
  <2>4. /\ worker[w].pc = "running" /\ locked' = locked \ {Slot(worker[w].job)}
        /\ UNCHANGED <<caller, channel, parked>> /\ worker[w].job \in Jobs
    BY <1>10 DEF EndRun, HasJob
  <2>5. Typed'
    BY <2>2, <2>3, <2>4
  <2> HIDE DEF s
  <2> QED
    BY <2>2, <2>3, <2>4, <2>5, WorkerLeaves
<1>11. ASSUME NEW w \in Workers, PopParked(w) PROVE SlotInv'
  <2> DEFINE q == parked[Slot(worker[w].job)]
             still == [worker[w] EXCEPT !.pc = "finishing"]
             found == [worker[w] EXCEPT !.pc = "unparked", !.next = Head(q)]
  <2>1. /\ worker[w].job \in Jobs /\ q \in Seq(Jobs) /\ UNCHANGED <<caller, channel, locked>>
        /\ Slot(worker[w].job) \in Slots
    BY <1>11, JobPlaces DEF PopParked, HasJob
  <2>2. CASE q = <<>>
    <3>1. still \in WorkerStates /\ still.pc = "finishing" /\ still.job = worker[w].job
      BY DEF WorkerStates, WorkerPCs
    <3>2. worker' = [worker EXCEPT ![w] = still] /\ parked' = parked
      BY <1>11, <2>2 DEF PopParked
    <3>3. Typed'
      BY <2>1, <3>1, <3>2
    <3> HIDE DEF still
    <3> QED
      BY <2>1, <3>1, <3>2, <3>3, WorkerLeaves
  <2>3. CASE q # <<>>
    <3>1. Head(q) \in Jobs /\ Tail(q) \in Seq(Jobs)
      BY <2>1, <2>3
    <3>2. /\ found \in WorkerStates /\ found.pc = "unparked" /\ found.job = worker[w].job
          /\ found.next \in Jobs
      BY <3>1 DEF WorkerStates, WorkerPCs
    <3>3. /\ worker' = [worker EXCEPT ![w] = found]
          /\ parked' = [parked EXCEPT ![Slot(worker[w].job)] = Tail(q)]
      BY <1>11, <2>3 DEF PopParked
    <3>4. Typed'
      BY <2>1, <3>1, <3>2, <3>3
    <3> HIDE DEF found
    <3> QED
      BY <2>1, <3>2, <3>3, <3>4, WorkerLeaves
  <2> QED
    BY <2>2, <2>3
<1>12. ASSUME NEW w \in Workers, DispatchUnparked(w) PROVE SlotInv'
  <2> DEFINE s == [worker[w] EXCEPT !.pc = "finishing", !.next = NoJob]
  <2>1. worker[w].job \in Jobs /\ worker[w].next \in Jobs /\ Dispatch(worker[w].next)
    BY <1>12 DEF DispatchUnparked, HasJob
  <2>2. s \in WorkerStates /\ s.pc = "finishing" /\ s.job = worker[w].job
    BY DEF WorkerStates, WorkerPCs
  <2>3. worker' = [worker EXCEPT ![w] = s] /\ UNCHANGED <<caller, parked, locked>>
    BY <1>12 DEF DispatchUnparked
  <2>4. Typed'
    BY <2>1, <2>2, <2>3, DispatchTyped
  <2> HIDE DEF s
  <2> QED
    BY <2>1, <2>2, <2>3, <2>4, WorkerLeaves
<1>13. ASSUME NEW w \in Workers, FinishJob(w) PROVE SlotInv'
  <2> DEFINE s == [worker[w] EXCEPT !.pc = "again"]
  <2>1. worker[w].job \in Jobs /\ UNCHANGED <<caller, channel, parked, locked>>
    BY <1>13 DEF FinishJob, HasJob
  <2>2. s \in WorkerStates /\ s.pc = "again" /\ s.job = worker[w].job
    BY DEF WorkerStates, WorkerPCs
  <2>3. worker' = [worker EXCEPT ![w] = s] \/ worker' = [worker EXCEPT ![w] = IdleWorker]
    BY <1>13 DEF FinishJob
  <2>4. Typed'
    BY <2>1, <2>2, <2>3, IdleWorkerState
  <2> HIDE DEF s
  <2> QED
    BY <2>1, <2>2, <2>3, <2>4, IdleWorkerState, WorkerLeaves
<1>14. ASSUME NEW w \in Workers, DispatchAgain(w) PROVE SlotInv'
  <2>1. worker[w].job \in Jobs /\ Dispatch(worker[w].job)
    BY <1>14 DEF DispatchAgain, HasJob
  <2>2. worker' = [worker EXCEPT ![w] = IdleWorker] /\ UNCHANGED <<caller, parked, locked>>
    BY <1>14 DEF DispatchAgain
  <2>3. Typed'
    BY <2>1, <2>2, IdleWorkerState, DispatchTyped
  <2> QED
    BY <2>2, <2>3, IdleWorkerState, WorkerLeaves
<1>15. ASSUME NEW c \in Callers, CallerFindsNoRoom(c) PROVE SlotInv'
  BY <1>15, FrameStep DEF CallerFindsNoRoom
<1> QED
  BY <1>1, <1>2, <1>3, <1>4, <1>5, <1>7, <1>8, <1>9, <1>10, <1>11, <1>12, <1>13, <1>14, <1>15
  DEF Next, WorkerStep

(* runtime.go:102-105: at any time at most one worker runs a foreground job *)
(* of an account, and at most one a background job, although the slot is    *)
(* unlocked before the parked jobs are looked at.                           *)
THEOREM SlotsExclusive == Spec => []SlotsAreExclusive
<1>1. SlotInv => SlotsAreExclusive
  BY DEF SlotInv
<1> QED
  BY SlotInit, SlotStep, <1>1, PTL DEF Spec

-----------------------------------------------------------------------------
(* The tokens of a job, kind by kind, and lemmas that count them.           *)
CallersWith(j) == Cardinality({c \in Callers : caller[c] = j})
InChannel(j) == Occurrences(j, channel[Tier(j)])
InParked(j) == Occurrences(j, parked[Slot(j)])
WorkersWith(j) == Cardinality({w \in Workers : worker[w].job = j})
WorkersNext(j) == Cardinality({w \in Workers : worker[w].next = j})

(* One if the two are the same, zero otherwise.                             *)
One(a, b) == IF a = b THEN 1 ELSE 0

(* Two parts of a finite set that agree but for one element differ in size  *)
(* by that element.                                                         *)
LEMMA CountOne ==
  ASSUME NEW S, IsFiniteSet(S), NEW P \in SUBSET S, NEW Q \in SUBSET S, NEW x \in S,
         P \ {x} = Q \ {x}
  PROVE  /\ Cardinality(P) \in Nat /\ Cardinality(Q) \in Nat
         /\ Cardinality(Q) + (IF x \in P THEN 1 ELSE 0)
              = Cardinality(P) + (IF x \in Q THEN 1 ELSE 0)
<1> DEFINE R == P \ {x}
<1>1. IsFiniteSet(P) /\ IsFiniteSet(Q) /\ IsFiniteSet(R)
  BY FS_Subset
<1>2. Cardinality(P) \in Nat /\ Cardinality(Q) \in Nat /\ Cardinality(R) \in Nat
  BY <1>1, FS_CardinalityType
<1>3. Cardinality(P) = Cardinality(R) + (IF x \in P THEN 1 ELSE 0)
  <2>1. CASE x \in P
    <3>1. P = R \cup {x} /\ x \notin R
      BY <2>1
    <3> HIDE DEF R
    <3> QED
      BY <1>1, <1>2, <2>1, <3>1, FS_AddElement
  <2>2. CASE x \notin P
    <3>1. P = R
      BY <2>2
    <3> HIDE DEF R
    <3> QED
      BY <1>2, <2>2, <3>1
  <2> QED
    BY <2>1, <2>2
<1>4. Cardinality(Q) = Cardinality(R) + (IF x \in Q THEN 1 ELSE 0)
  <2>1. CASE x \in Q
    <3>1. Q = R \cup {x} /\ x \notin R
      BY <2>1
    <3> HIDE DEF R
    <3> QED
      BY <1>1, <1>2, <2>1, <3>1, FS_AddElement
  <2>2. CASE x \notin Q
    <3>1. Q = R
      BY <2>2
    <3> QED
      BY <1>2, <2>2, <3>1
  <2> QED
    BY <2>1, <2>2
<1> HIDE DEF R
<1> QED
  BY <1>2, <1>3, <1>4

(* The occurrences of a value in a sequence are a number; one more element  *)
(* at the end and one less at the front change it by that element.          *)
LEMMA OccurrencesType ==
  ASSUME NEW T, NEW seq \in Seq(T), NEW j
  PROVE  /\ IsFiniteSet({i \in DOMAIN seq : seq[i] = j})
         /\ Occurrences(j, seq) \in Nat
<1>1. IsFiniteSet(1..Len(seq))
  BY FS_Interval
<1>2. IsFiniteSet({i \in DOMAIN seq : seq[i] = j})
  BY <1>1, FS_Subset
<1> QED
  BY <1>2, FS_CardinalityType DEF Occurrences

LEMMA OccurrencesOfNone ==
  ASSUME NEW j PROVE Occurrences(j, <<>>) = 0
<1>1. {i \in DOMAIN <<>> : (<<>>)[i] = j} = {}
  OBVIOUS
<1> QED
  BY <1>1, FS_EmptySet DEF Occurrences

LEMMA OccurrencesAfterAppend ==
  ASSUME NEW T, NEW seq \in Seq(T), NEW x \in T, NEW j
  PROVE  Occurrences(j, Append(seq, x)) = Occurrences(j, seq) + One(x, j)
<1> DEFINE new == Append(seq, x)
           before == {i \in DOMAIN seq : seq[i] = j}
           after == {i \in DOMAIN new : new[i] = j}
           n == Len(seq) + 1
           S == 1..n
<1>1. /\ n \in Nat /\ new \in Seq(T) /\ DOMAIN new = 1..n /\ DOMAIN seq = 1..(n - 1)
      /\ new[n] = x /\ \A i \in 1..(n - 1) : new[i] = seq[i]
  OBVIOUS
<1>2. before \in SUBSET S /\ after \in SUBSET S /\ n \in S
  BY <1>1
<1>3. before \ {n} = after \ {n} /\ n \notin before /\ (n \in after <=> x = j)
  BY <1>1
<1>4. IsFiniteSet(S)
  BY <1>1, FS_Interval
<1>5. Occurrences(j, seq) = Cardinality(before) /\ Occurrences(j, new) = Cardinality(after)
  BY DEF Occurrences
<1> HIDE DEF new, before, after, n, S
<1>6. /\ Cardinality(before) \in Nat /\ Cardinality(after) \in Nat
      /\ Cardinality(after) + (IF n \in before THEN 1 ELSE 0)
           = Cardinality(before) + (IF n \in after THEN 1 ELSE 0)
  BY <1>2, <1>3, <1>4, CountOne
<1>7. Occurrences(j, new) = Occurrences(j, seq) + One(x, j)
  BY <1>3, <1>5, <1>6 DEF One
<1> QED
  BY <1>7 DEF new

LEMMA OccurrencesAfterTail ==
  ASSUME NEW T, NEW seq \in Seq(T), seq # <<>>, NEW j
  PROVE  Occurrences(j, seq) = Occurrences(j, Tail(seq)) + One(Head(seq), j)
<1> DEFINE rest == Tail(seq)
           whole == {i \in DOMAIN seq : seq[i] = j}
           moved == whole \ {1}
           left == {i \in DOMAIN rest : rest[i] = j}
           shift == [i \in left |-> i + 1]
<1>1. /\ Len(seq) \in Nat /\ Len(seq) > 0 /\ DOMAIN seq = 1..Len(seq) /\ rest \in Seq(T)
      /\ Head(seq) = seq[1] /\ DOMAIN rest = 1..(Len(seq) - 1)
      /\ \A i \in 1..(Len(seq) - 1) : rest[i] = seq[i + 1]
  OBVIOUS
<1>2. IsFiniteSet(whole) /\ IsFiniteSet(left)
  BY <1>1, OccurrencesType
<1>3. shift \in [left -> moved]
  BY <1>1
<1>4. \A a, b \in left : shift[a] = shift[b] => a = b
  BY <1>1
<1>5. \A m \in moved : m - 1 \in left /\ shift[m - 1] = m
  BY <1>1
<1>6. ExistsBijection(left, moved)
  <2>1. IsInjective(shift)
    BY <1>4 DEF IsInjective
  <2>2. shift \in Surjection(left, moved)
    BY <1>3, <1>5 DEF Surjection
  <2>3. shift \in Injection(left, moved)
    BY <1>3, <2>1 DEF Injection
  <2> HIDE DEF shift, left, moved
  <2> QED
    BY <2>2, <2>3 DEF ExistsBijection, Bijection
<1>7. Cardinality(moved) = Cardinality(left) /\ IsFiniteSet(moved)
  BY <1>2, <1>6, FS_Bijection
<1>8. /\ moved \in SUBSET whole /\ (1 \in whole <=> Head(seq) = j)
      /\ 1 \notin moved /\ (1 \in whole => whole = moved \cup {1})
      /\ (1 \notin whole => whole = moved)
  BY <1>1
<1>9. /\ Occurrences(j, seq) = Cardinality(whole) /\ Occurrences(j, rest) = Cardinality(left)
      /\ Cardinality(left) \in Nat
  BY <1>2, FS_CardinalityType DEF Occurrences
<1>10. 1 \in whole => Cardinality(whole) = Cardinality(moved) + 1
  <2> HIDE DEF whole, moved, left
  <2> QED
    BY <1>7, <1>8, <1>9, FS_AddElement
<1>11. Occurrences(j, seq) = Occurrences(j, rest) + One(Head(seq), j)
  <2> HIDE DEF whole, moved, left, rest, shift
  <2> QED
    BY <1>7, <1>8, <1>9, <1>10 DEF One
<1> QED
  BY <1>11 DEF rest

-----------------------------------------------------------------------------
(* What the other variables are; in particular a channel carries only jobs  *)
(* of its tier and a list of parked jobs only jobs of its slot, so that the *)
(* tokens counted by Tokens are all there are.                              *)
TierJobs(t) == {j \in Jobs : Tier(j) = t}
SlotJobs(s) == {j \in Jobs : Slot(j) = s}
RestTyped ==
  /\ pending \in [Jobs -> {"no", "yes", "rerun"}]
  /\ failing \subseteq Jobs /\ owed \subseteq Jobs /\ abandoned \subseteq Jobs
  /\ locked \subseteq Slots /\ giving \subseteq Impatient
  /\ timers \in [Jobs -> Nat] /\ dispatchers \in [Jobs -> Nat]
  /\ \A t \in Tiers : channel[t] \in Seq(TierJobs(t)) /\ Len(channel[t]) <= Capacity
  /\ \A s \in Slots : parked[s] \in Seq(SlotJobs(s))
  /\ requests \in 0..MaxRequests /\ failures \in 0..MaxFailures

(* A worker looking for work holds no job, and only one that has un-parked  *)
(* a job holds a second one.                                                *)
IdleHoldsNothing ==
  \A w \in Workers :
    /\ worker[w].pc \in {"idle", "waiting"} => worker[w].job = NoJob
    /\ worker[w].pc # "unparked" => worker[w].next = NoJob

TokenInv == SlotInv /\ RestTyped /\ IdleHoldsNothing /\ OneTokenPerPendingJob

(* Every kind of token is counted by a number.                              *)
LEMMA TokenTypes ==
  ASSUME SlotInv, RestTyped, NEW j \in Jobs
  PROVE  /\ CallersWith(j) \in Nat /\ InChannel(j) \in Nat /\ dispatchers[j] \in Nat
         /\ InParked(j) \in Nat /\ WorkersWith(j) \in Nat /\ WorkersNext(j) \in Nat
         /\ Tokens(j) = CallersWith(j) + InChannel(j) + dispatchers[j] + InParked(j)
                          + WorkersWith(j) + WorkersNext(j)
         /\ Tokens(j) \in Nat
<1>1. /\ {c \in Callers : caller[c] = j} \in SUBSET Callers
      /\ {w \in Workers : worker[w].job = j} \in SUBSET Workers
      /\ {w \in Workers : worker[w].next = j} \in SUBSET Workers
  OBVIOUS
<1>2. CallersWith(j) \in Nat /\ WorkersWith(j) \in Nat /\ WorkersNext(j) \in Nat
  BY <1>1, QueueAssumption, FS_Subset, FS_CardinalityType
  DEF CallersWith, WorkersWith, WorkersNext
<1>3. InChannel(j) \in Nat /\ InParked(j) \in Nat
  BY JobPlaces, OccurrencesType DEF SlotInv, Typed, InChannel, InParked
<1>4. dispatchers[j] \in Nat
  BY DEF RestTyped
<1>5. Tokens(j) = CallersWith(j) + InChannel(j) + dispatchers[j] + InParked(j)
                    + WorkersWith(j) + WorkersNext(j)
  BY DEF Tokens, CallersWith, InChannel, InParked, WorkersWith, WorkersNext
<1> QED
  BY <1>2, <1>3, <1>4, <1>5

(* A caller that changes its job, a worker that changes its record, a job   *)
(* that is dispatched and one that is un-queued change the counts by one.   *)
LEMMA CallerCounts ==
  ASSUME SlotInv, NEW c \in Callers, NEW v, caller' = [caller EXCEPT ![c] = v],
         NEW k \in Jobs
  PROVE  /\ CallersWith(k) \in Nat /\ CallersWith(k)' \in Nat
         /\ CallersWith(k)' + One(caller[c], k) = CallersWith(k) + One(v, k)
<1> DEFINE P == {d \in Callers : caller[d] = k}
           Q == {d \in Callers : caller'[d] = k}
<1>1. caller'[c] = v /\ \A d \in Callers \ {c} : caller'[d] = caller[d]
  BY DEF SlotInv, Typed
<1>2. P \in SUBSET Callers /\ Q \in SUBSET Callers /\ P \ {c} = Q \ {c}
  BY <1>1
<1>3. (c \in P <=> caller[c] = k) /\ (c \in Q <=> v = k)
  BY <1>1
<1>4. CallersWith(k) = Cardinality(P) /\ CallersWith(k)' = Cardinality(Q)
  BY DEF CallersWith
<1> HIDE DEF P, Q
<1> QED
  BY <1>2, <1>3, <1>4, CountOne, QueueAssumption DEF One

LEMMA WorkerCounts ==
  ASSUME SlotInv, NEW w \in Workers, NEW s \in WorkerStates, worker' = [worker EXCEPT ![w] = s],
         NEW k \in Jobs
  PROVE  /\ WorkersWith(k) \in Nat /\ WorkersWith(k)' \in Nat
         /\ WorkersNext(k) \in Nat /\ WorkersNext(k)' \in Nat
         /\ WorkersWith(k)' + One(worker[w].job, k) = WorkersWith(k) + One(s.job, k)
         /\ WorkersNext(k)' + One(worker[w].next, k) = WorkersNext(k) + One(s.next, k)
<1> DEFINE P == {v \in Workers : worker[v].job = k}
           Q == {v \in Workers : worker'[v].job = k}
           M == {v \in Workers : worker[v].next = k}
           N == {v \in Workers : worker'[v].next = k}
<1>1. worker'[w] = s /\ \A v \in Workers \ {w} : worker'[v] = worker[v]
  BY DEF SlotInv, Typed
<1>2. P \in SUBSET Workers /\ Q \in SUBSET Workers /\ P \ {w} = Q \ {w}
  BY <1>1
<1>3. M \in SUBSET Workers /\ N \in SUBSET Workers /\ M \ {w} = N \ {w}
  BY <1>1
<1>4. /\ (w \in P <=> worker[w].job = k) /\ (w \in Q <=> s.job = k)
      /\ (w \in M <=> worker[w].next = k) /\ (w \in N <=> s.next = k)
  BY <1>1
<1>5. /\ WorkersWith(k) = Cardinality(P) /\ WorkersWith(k)' = Cardinality(Q)
      /\ WorkersNext(k) = Cardinality(M) /\ WorkersNext(k)' = Cardinality(N)
  BY DEF WorkersWith, WorkersNext
<1> HIDE DEF P, Q, M, N
<1>6. /\ Cardinality(P) \in Nat /\ Cardinality(Q) \in Nat
      /\ Cardinality(Q) + One(worker[w].job, k) = Cardinality(P) + One(s.job, k)
  BY <1>2, <1>4, CountOne, QueueAssumption DEF One
<1>7. /\ Cardinality(M) \in Nat /\ Cardinality(N) \in Nat
      /\ Cardinality(N) + One(worker[w].next, k) = Cardinality(M) + One(s.next, k)
  BY <1>3, <1>4, CountOne, QueueAssumption DEF One
<1> QED
  BY <1>5, <1>6, <1>7

LEMMA AppendCounts ==
  ASSUME SlotInv, RestTyped, NEW j \in Jobs,
         channel' = [channel EXCEPT ![Tier(j)] = Append(@, j)], NEW k \in Jobs
  PROVE  InChannel(k)' = InChannel(k) + One(j, k)
<1>1. /\ Tier(j) \in Tiers /\ Tier(k) \in Tiers /\ channel[Tier(k)] \in Seq(Jobs)
      /\ InChannel(k) \in Nat
  BY JobPlaces, TokenTypes DEF SlotInv, Typed
<1>2. CASE Tier(k) = Tier(j)
  <2>1. channel'[Tier(k)] = Append(channel[Tier(k)], j)
    BY <1>1, <1>2 DEF SlotInv, Typed
  <2> QED
    BY <1>1, <2>1, OccurrencesAfterAppend DEF InChannel, Tier
<1>3. CASE Tier(k) # Tier(j)
  <2>1. channel'[Tier(k)] = channel[Tier(k)] /\ j # k
    BY <1>1, <1>3 DEF SlotInv, Typed
  <2> QED
    BY <1>1, <2>1 DEF InChannel, One, Tier
<1> QED
  BY <1>2, <1>3

LEMMA DispatchCounts ==
  ASSUME SlotInv, RestTyped, NEW j \in Jobs, Dispatch(j), NEW k \in Jobs
  PROVE  /\ InChannel(k)' \in Nat /\ dispatchers'[k] \in Nat
         /\ InChannel(k)' + dispatchers'[k] = InChannel(k) + dispatchers[k] + One(j, k)
<1>1. InChannel(k) \in Nat /\ dispatchers[k] \in Nat
  BY TokenTypes
<1>2. CASE HasRoom(j)
  <2>1. channel' = [channel EXCEPT ![Tier(j)] = Append(@, j)] /\ dispatchers' = dispatchers
    BY <1>2 DEF Dispatch
  <2>2. InChannel(k)' = InChannel(k) + One(j, k)
    BY <2>1, AppendCounts
  <2> QED
    BY <1>1, <2>1, <2>2 DEF One
<1>3. CASE ~HasRoom(j)
  <2>1. channel' = channel /\ dispatchers' = [dispatchers EXCEPT ![j] = @ + 1]
    BY <1>3 DEF Dispatch
  <2>2. InChannel(k)' = InChannel(k)
    BY <2>1 DEF InChannel, Tier
  <2>3. dispatchers'[k] = dispatchers[k] + One(j, k)
    BY <1>1, <2>1 DEF RestTyped, One
  <2> QED
    BY <1>1, <2>2, <2>3 DEF One
<1> QED
  BY <1>2, <1>3

-----------------------------------------------------------------------------
(* What each worker step does to its record.                                *)
Now(pc, j, n, ok) == [pc |-> pc, job |-> j, next |-> n, ok |-> ok]
Fits(s) == s \in WorkerStates
Goes(w, s) == Fits(s) /\ worker' = [worker EXCEPT ![w] = s]
JobOf(w) == worker[w].job

LEMMA NowFits ==
  ASSUME NEW pc \in WorkerPCs, NEW j \in Jobs \cup {NoJob}, NEW n \in Jobs \cup {NoJob},
         NEW ok \in BOOLEAN
  PROVE  /\ Fits(Now(pc, j, n, ok))
         /\ Now(pc, j, n, ok).pc = pc /\ Now(pc, j, n, ok).job = j
         /\ Now(pc, j, n, ok).next = n /\ Now(pc, j, n, ok).ok = ok
BY DEF Now, Fits, WorkerStates

LEMMA GoesTo ==
  ASSUME SlotInv, NEW w \in Workers, NEW s, Goes(w, s)
  PROVE  worker'[w] = s /\ \A v \in Workers \ {w} : worker'[v] = worker[v]
BY DEF SlotInv, Typed, Goes

LEMMA IdleNow ==
  IdleWorker = Now("idle", NoJob, NoJob, TRUE) /\ Fits(Now("idle", NoJob, NoJob, TRUE))
BY IdleWorkerState DEF IdleWorker, Now, Fits

(* Two fields of a worker's record change.                                  *)
LEMMA JobChanges ==
  ASSUME NEW s \in WorkerStates, NEW pc \in WorkerPCs, NEW j \in Jobs \cup {NoJob}
  PROVE  [s EXCEPT !.pc = pc, !.job = j] = Now(pc, j, s.next, s.ok)
<1> DEFINE a == [s EXCEPT !.pc = pc, !.job = j]
<1>1. /\ a \in WorkerStates /\ a.pc = pc /\ a.job = j
      /\ a.next = s.next /\ a.ok = s.ok
  BY DEF WorkerStates
<1> HIDE DEF a
<1>2. a = Now(pc, j, s.next, s.ok)
  BY <1>1 DEF WorkerStates, Now
<1> QED
  BY <1>2 DEF a

LEMMA NextChanges ==
  ASSUME NEW s \in WorkerStates, NEW pc \in WorkerPCs, NEW n \in Jobs \cup {NoJob}
  PROVE  [s EXCEPT !.pc = pc, !.next = n] = Now(pc, s.job, n, s.ok)
<1> DEFINE a == [s EXCEPT !.pc = pc, !.next = n]
<1>1. /\ a \in WorkerStates /\ a.pc = pc /\ a.job = s.job
      /\ a.next = n /\ a.ok = s.ok
  BY DEF WorkerStates
<1> HIDE DEF a
<1>2. a = Now(pc, s.job, n, s.ok)
  BY <1>1 DEF WorkerStates, Now
<1> QED
  BY <1>2 DEF a

LEMMA ResultChanges ==
  ASSUME NEW s \in WorkerStates, NEW pc \in WorkerPCs, NEW ok \in BOOLEAN
  PROVE  [s EXCEPT !.pc = pc, !.ok = ok] = Now(pc, s.job, s.next, ok)
<1> DEFINE a == [s EXCEPT !.pc = pc, !.ok = ok]
<1>1. /\ a \in WorkerStates /\ a.pc = pc /\ a.job = s.job
      /\ a.next = s.next /\ a.ok = ok
  BY DEF WorkerStates
<1> HIDE DEF a
<1>2. a = Now(pc, s.job, s.next, ok)
  BY <1>1 DEF WorkerStates, Now
<1> QED
  BY <1>2 DEF a

LEMMA TakeDoes ==
  ASSUME SlotInv, RestTyped, NEW w \in Workers, NEW t \in Tiers, Take(w, t)
  PROVE  /\ channel[t] # <<>> /\ Head(channel[t]) \in Jobs /\ Tier(Head(channel[t])) = t
         /\ Tail(channel[t]) \in Seq(TierJobs(t)) /\ Len(Tail(channel[t])) <= Capacity
         /\ Goes(w, Now("got", Head(channel[t]), NoJob, TRUE))
<1>1. channel[t] # <<>> /\ channel[t] \in Seq(TierJobs(t)) /\ Len(channel[t]) <= Capacity
  BY DEF Take, RestTyped
<1>2. Head(channel[t]) \in TierJobs(t) /\ Tail(channel[t]) \in Seq(TierJobs(t))
      /\ Len(Tail(channel[t])) <= Capacity
  BY <1>1, QueueAssumption
<1>3. [IdleWorker EXCEPT !.pc = "got", !.job = Head(channel[t])]
        = Now("got", Head(channel[t]), NoJob, TRUE)
  <2>1. IdleWorker \in WorkerStates /\ IdleWorker.next = NoJob /\ IdleWorker.ok = TRUE
    BY IdleWorkerState DEF IdleWorker
  <2>2. Head(channel[t]) \in Jobs /\ "got" \in WorkerPCs
    BY <1>2 DEF TierJobs, WorkerPCs
  <2> QED
    BY <2>1, <2>2, JobChanges
<1>4. Fits(Now("got", Head(channel[t]), NoJob, TRUE))
  BY <1>2, NowFits DEF TierJobs, WorkerPCs
<1> QED
  BY <1>1, <1>2, <1>3, <1>4 DEF Take, Goes, TierJobs

LEMMA PollDoes ==
  ASSUME SlotInv, IdleHoldsNothing, NEW w \in Workers, PollHigh(w), ~Take(w, "high")
  PROVE  /\ Goes(w, Now("waiting", NoJob, NoJob, worker[w].ok)) /\ worker[w].pc = "idle"
         /\ UNCHANGED <<pending, failing, timers, channel, dispatchers, parked, locked, caller,
                        owed, abandoned, requests, failures>>
<1>1. worker[w] \in WorkerStates /\ worker[w].ok \in BOOLEAN
  BY DEF SlotInv, Typed, WorkerStates
<1>2. worker[w].pc = "idle" /\ worker[w].job = NoJob /\ worker[w].next = NoJob
  BY DEF PollHigh, IdleHoldsNothing
<1>3. worker' = [worker EXCEPT ![w] = [worker[w] EXCEPT !.pc = "waiting"]]
  BY DEF PollHigh
<1>4. [worker[w] EXCEPT !.pc = "waiting"] = Now("waiting", NoJob, NoJob, worker[w].ok)
  BY <1>1, <1>2 DEF Now, WorkerStates
<1>5. Fits(Now("waiting", NoJob, NoJob, worker[w].ok))
  BY <1>1, NowFits DEF WorkerPCs
<1> QED
  BY <1>2, <1>3, <1>4, <1>5 DEF PollHigh, Goes

LEMMA AcquireDoes ==
  ASSUME SlotInv, IdleHoldsNothing, NEW w \in Workers, AcquireSlot(w)
  PROVE  /\ worker[w].pc = "got" /\ JobOf(w) \in Jobs /\ worker[w].next = NoJob
         /\ SlotFree(JobOf(w)) => Goes(w, Now("running", JobOf(w), NoJob, worker[w].ok))
         /\ ~SlotFree(JobOf(w)) => Goes(w, Now("idle", NoJob, NoJob, TRUE))
<1>1. worker[w] \in WorkerStates /\ worker[w].ok \in BOOLEAN
  BY DEF SlotInv, Typed, WorkerStates
<1>2. worker[w].pc = "got" /\ JobOf(w) \in Jobs /\ worker[w].next = NoJob
  BY DEF AcquireSlot, SlotInv, HasJob, IdleHoldsNothing, JobOf
<1>3. [worker[w] EXCEPT !.pc = "running"] = Now("running", JobOf(w), NoJob, worker[w].ok)
  BY <1>1, <1>2 DEF JobOf, Now, WorkerStates
<1>4. Fits(Now("running", JobOf(w), NoJob, worker[w].ok))
  BY <1>1, <1>2, NowFits DEF WorkerPCs
<1> QED
  BY <1>2, <1>3, <1>4, IdleNow DEF AcquireSlot, Goes, JobOf

LEMMA EndRunDoes ==
  ASSUME SlotInv, IdleHoldsNothing, NEW w \in Workers, EndRun(w)
  PROVE  /\ worker[w].pc = "running" /\ JobOf(w) \in Jobs /\ worker[w].next = NoJob
         /\ \E ok \in BOOLEAN :
              /\ Goes(w, Now("released", JobOf(w), NoJob, ok))
              /\ JobOf(w) \in Gone => ~ok
              /\ ok \/ JobOf(w) \in Gone \/ failures < MaxFailures
              /\ failures' = IF ok \/ JobOf(w) \in Gone THEN failures ELSE failures + 1
<1>1. worker[w] \in WorkerStates
  BY DEF SlotInv, Typed, WorkerStates
<1>2. worker[w].pc = "running" /\ JobOf(w) \in Jobs /\ worker[w].next = NoJob
  BY DEF EndRun, SlotInv, HasJob, IdleHoldsNothing, JobOf
<1>3. PICK ok \in BOOLEAN :
        /\ worker' = [worker EXCEPT ![w] = [worker[w] EXCEPT !.pc = "released", !.ok = ok]]
        /\ JobOf(w) \in Gone => ~ok
        /\ ok \/ JobOf(w) \in Gone \/ failures < MaxFailures
        /\ failures' = IF ok \/ JobOf(w) \in Gone THEN failures ELSE failures + 1
  BY DEF EndRun, JobOf, SlotInv, Typed
<1>4. [worker[w] EXCEPT !.pc = "released", !.ok = ok] = Now("released", JobOf(w), NoJob, ok)
  BY <1>1, <1>2, <1>3, ResultChanges DEF JobOf, WorkerPCs, WorkerStates
<1>5. Fits(Now("released", JobOf(w), NoJob, ok))
  BY <1>1, <1>2, NowFits DEF WorkerPCs
<1> QED
  BY <1>2, <1>3, <1>4, <1>5 DEF Goes

LEMMA PopDoes ==
  ASSUME SlotInv, RestTyped, IdleHoldsNothing, NEW w \in Workers, PopParked(w)
  PROVE  LET s == Slot(JobOf(w)) IN
         /\ worker[w].pc = "released" /\ JobOf(w) \in Jobs /\ worker[w].next = NoJob
         /\ s \in Slots /\ parked[s] \in Seq(SlotJobs(s))
         /\ \/ /\ parked[s] = <<>> /\ parked' = parked
               /\ Goes(w, Now("finishing", JobOf(w), NoJob, worker[w].ok))
            \/ /\ parked[s] # <<>> /\ parked' = [parked EXCEPT ![s] = Tail(@)]
               /\ Head(parked[s]) \in Jobs /\ Slot(Head(parked[s])) = s
               /\ Tail(parked[s]) \in Seq(SlotJobs(s))
               /\ Goes(w, Now("unparked", JobOf(w), Head(parked[s]), worker[w].ok))
<1> DEFINE s == Slot(JobOf(w))
           h == Head(parked[s])
<1>1. worker[w] \in WorkerStates /\ worker[w].ok \in BOOLEAN
  BY DEF SlotInv, Typed, WorkerStates
<1>2. worker[w].pc = "released" /\ JobOf(w) \in Jobs /\ worker[w].next = NoJob
  BY DEF PopParked, SlotInv, HasJob, IdleHoldsNothing, JobOf
<1>3. s \in Slots /\ parked[s] \in Seq(SlotJobs(s))
  BY <1>2, JobPlaces DEF RestTyped
<1>4. CASE parked[s] = <<>>
  <2>1. /\ parked' = parked
        /\ worker' = [worker EXCEPT ![w] = [worker[w] EXCEPT !.pc = "finishing"]]
    BY <1>4 DEF PopParked, JobOf
  <2>2. [worker[w] EXCEPT !.pc = "finishing"] = Now("finishing", JobOf(w), NoJob, worker[w].ok)
    BY <1>1, <1>2 DEF JobOf, Now, WorkerStates
  <2>3. Fits(Now("finishing", JobOf(w), NoJob, worker[w].ok))
    BY <1>1, <1>2, NowFits DEF WorkerPCs
  <2> QED
    BY <1>2, <1>3, <1>4, <2>1, <2>2, <2>3 DEF Goes
<1>5. CASE parked[s] # <<>>
  <2>1. /\ parked' = [parked EXCEPT ![s] = Tail(@)]
        /\ worker' = [worker EXCEPT ![w] = [worker[w] EXCEPT !.pc = "unparked", !.next = h]]
    BY <1>5 DEF PopParked, JobOf, SlotInv, Typed
  <2>2. h \in SlotJobs(s) /\ Tail(parked[s]) \in Seq(SlotJobs(s))
    BY <1>3, <1>5
  <2>3. h \in Jobs /\ Slot(h) = s
    BY <2>2 DEF SlotJobs
  <2>4. [worker[w] EXCEPT !.pc = "unparked", !.next = h]
          = Now("unparked", JobOf(w), h, worker[w].ok)
    BY <1>1, <2>3, NextChanges DEF JobOf, WorkerPCs, WorkerStates
  <2>5. Fits(Now("unparked", JobOf(w), h, worker[w].ok))
    BY <1>1, <1>2, <2>3, NowFits DEF WorkerPCs
  <2> QED
    BY <1>2, <1>3, <1>5, <2>1, <2>2, <2>3, <2>4, <2>5 DEF Goes
<1> QED
  BY <1>4, <1>5

LEMMA UnparkedDoes ==
  ASSUME SlotInv, NEW w \in Workers, DispatchUnparked(w)
  PROVE  /\ worker[w].pc = "unparked" /\ JobOf(w) \in Jobs /\ worker[w].next \in Jobs
         /\ Dispatch(worker[w].next)
         /\ Goes(w, Now("finishing", JobOf(w), NoJob, worker[w].ok))
<1>1. worker[w] \in WorkerStates /\ worker[w].ok \in BOOLEAN
  BY DEF SlotInv, Typed, WorkerStates
<1>2. worker[w].pc = "unparked" /\ JobOf(w) \in Jobs /\ worker[w].next \in Jobs
  BY DEF DispatchUnparked, SlotInv, HasJob, JobOf
<1>3. worker' = [worker EXCEPT ![w] = [worker[w] EXCEPT !.pc = "finishing", !.next = NoJob]]
  BY DEF DispatchUnparked, SlotInv, Typed
<1>4. [worker[w] EXCEPT !.pc = "finishing", !.next = NoJob]
        = Now("finishing", JobOf(w), NoJob, worker[w].ok)
  BY <1>1, NextChanges DEF JobOf, WorkerPCs, WorkerStates
<1>5. Fits(Now("finishing", JobOf(w), NoJob, worker[w].ok))
  BY <1>1, <1>2, NowFits DEF WorkerPCs
<1> QED
  BY <1>2, <1>3, <1>4, <1>5 DEF Goes, DispatchUnparked

LEMMA FinishDoes ==
  ASSUME SlotInv, IdleHoldsNothing, NEW w \in Workers, FinishJob(w)
  PROVE  /\ worker[w].pc = "finishing" /\ JobOf(w) \in Jobs /\ worker[w].next = NoJob
         /\ pending[JobOf(w)] = "rerun" => Goes(w, Now("again", JobOf(w), NoJob, worker[w].ok))
         /\ pending[JobOf(w)] # "rerun" => Goes(w, Now("idle", NoJob, NoJob, TRUE))
<1>1. worker[w] \in WorkerStates /\ worker[w].ok \in BOOLEAN
  BY DEF SlotInv, Typed, WorkerStates
<1>2. worker[w].pc = "finishing" /\ JobOf(w) \in Jobs /\ worker[w].next = NoJob
  BY DEF FinishJob, SlotInv, HasJob, IdleHoldsNothing, JobOf
<1>3. [worker[w] EXCEPT !.pc = "again"] = Now("again", JobOf(w), NoJob, worker[w].ok)
  BY <1>1, <1>2 DEF JobOf, Now, WorkerStates
<1>4. Fits(Now("again", JobOf(w), NoJob, worker[w].ok))
  BY <1>1, <1>2, NowFits DEF WorkerPCs
<1> QED
  BY <1>2, <1>3, <1>4, IdleNow DEF FinishJob, Goes, JobOf

LEMMA AgainDoes ==
  ASSUME SlotInv, IdleHoldsNothing, NEW w \in Workers, DispatchAgain(w)
  PROVE  /\ worker[w].pc = "again" /\ JobOf(w) \in Jobs /\ worker[w].next = NoJob
         /\ Dispatch(JobOf(w)) /\ Goes(w, Now("idle", NoJob, NoJob, TRUE))
<1>1. worker[w].pc = "again" /\ JobOf(w) \in Jobs /\ worker[w].next = NoJob
  BY DEF DispatchAgain, SlotInv, HasJob, IdleHoldsNothing, JobOf
<1> QED
  BY <1>1, IdleNow DEF DispatchAgain, Goes, JobOf

-----------------------------------------------------------------------------
(* The types of the other variables are kept.                               *)
LEMMA DispatchKeeps ==
  ASSUME SlotInv, RestTyped, NEW j \in Jobs, Dispatch(j)
  PROVE  /\ dispatchers' \in [Jobs -> Nat]
         /\ \A t \in Tiers : channel'[t] \in Seq(TierJobs(t)) /\ Len(channel'[t]) <= Capacity
<1>1. /\ Tier(j) \in Tiers /\ j \in TierJobs(Tier(j))
      /\ channel[Tier(j)] \in Seq(TierJobs(Tier(j)))
  BY JobPlaces DEF RestTyped, TierJobs
<1>2. CASE HasRoom(j)
  <2>1. channel' = [channel EXCEPT ![Tier(j)] = Append(@, j)] /\ dispatchers' = dispatchers
    BY <1>2 DEF Dispatch
  <2>2. /\ Append(channel[Tier(j)], j) \in Seq(TierJobs(Tier(j)))
        /\ Len(Append(channel[Tier(j)], j)) <= Capacity
    BY <1>1, <1>2, QueueAssumption DEF HasRoom
  <2> QED
    BY <1>1, <2>1, <2>2 DEF RestTyped, SlotInv, Typed
<1>3. CASE ~HasRoom(j)
  <2>1. channel' = channel /\ dispatchers' = [dispatchers EXCEPT ![j] = @ + 1]
    BY <1>3 DEF Dispatch
  <2>2. dispatchers' \in [Jobs -> Nat]
    BY <2>1 DEF RestTyped
  <2> QED
    BY <2>1, <2>2 DEF RestTyped
<1> QED
  BY <1>2, <1>3

LEMMA EnterKeeps ==
  ASSUME RestTyped, NEW c \in Callers, NEW j \in Jobs, Enter(c, j)
  PROVE  pending' \in [Jobs -> {"no", "yes", "rerun"}] /\ owed' \subseteq Jobs
BY DEF Enter, RestTyped

LEMMA RestTypedStep == TokenInv /\ [Next]_vars => RestTyped'
<1> SUFFICES ASSUME TokenInv, [Next]_vars PROVE RestTyped'
  OBVIOUS
<1> USE DEF TokenInv
<1>1. CASE UNCHANGED vars
  BY <1>1 DEF vars, RestTyped
<1>2. ASSUME NEW c \in Callers, NEW j \in Jobs, Request(c, j) PROVE RestTyped'
  <2>1. requests' \in 0..MaxRequests
    BY <1>2, QueueAssumption DEF Request, RestTyped
  <2> QED
    BY <1>2, <2>1, EnterKeeps DEF Request, RestTyped
<1>3. ASSUME NEW c \in Callers, NEW j \in Jobs, TimerFires(c, j) PROVE RestTyped'
  <2>1. timers' \in [Jobs -> Nat]
    BY <1>3 DEF TimerFires, RestTyped
  <2> QED
    BY <1>3, <2>1, EnterKeeps DEF TimerFires, RestTyped
<1>4. ASSUME NEW c \in Callers, CallerDispatches(c) PROVE RestTyped'
  <2>1. caller[c] \in Jobs /\ Dispatch(caller[c])
    BY <1>4 DEF CallerDispatches, SlotInv, Typed
  <2> QED
    BY <1>4, <2>1, DispatchKeeps DEF CallerDispatches, RestTyped
<1>5. ASSUME NEW c \in Callers, CallerGivesUp(c) PROVE RestTyped'
  <2>1. caller[c] \in Jobs
    BY <1>5 DEF CallerGivesUp, SlotInv, Typed
  <2> QED
    BY <1>5, <2>1 DEF CallerGivesUp, RestTyped
<1>6. ASSUME NEW j \in Jobs, DispatcherSends(j) PROVE RestTyped'
  <2>1. dispatchers' \in [Jobs -> Nat]
    BY <1>6 DEF DispatcherSends, RestTyped
  <2>2. /\ Tier(j) \in Tiers /\ j \in TierJobs(Tier(j))
        /\ channel[Tier(j)] \in Seq(TierJobs(Tier(j)))
    BY JobPlaces DEF RestTyped, TierJobs
  <2>3. /\ Append(channel[Tier(j)], j) \in Seq(TierJobs(Tier(j)))
        /\ Len(Append(channel[Tier(j)], j)) <= Capacity
    BY <1>6, <2>2, QueueAssumption DEF DispatcherSends, HasRoom
  <2>4. \A t \in Tiers : channel'[t] \in Seq(TierJobs(t)) /\ Len(channel'[t]) <= Capacity
    BY <1>6, <2>2, <2>3 DEF DispatcherSends, RestTyped, SlotInv, Typed
  <2> QED
    BY <1>6, <2>1, <2>4 DEF DispatcherSends, RestTyped
<1>7. ASSUME NEW w \in Workers, NEW t \in Tiers, Take(w, t) PROVE RestTyped'
  <2>1. Tail(channel[t]) \in Seq(TierJobs(t)) /\ Len(Tail(channel[t])) <= Capacity
    BY <1>7, TakeDoes
  <2>2. channel' = [channel EXCEPT ![t] = Tail(@)]
    BY <1>7 DEF Take
  <2>3. \A u \in Tiers : channel'[u] \in Seq(TierJobs(u)) /\ Len(channel'[u]) <= Capacity
    BY <2>1, <2>2 DEF RestTyped, SlotInv, Typed
  <2> QED
    BY <1>7, <2>3 DEF Take, RestTyped
<1>8. ASSUME NEW w \in Workers, PollHigh(w) PROVE RestTyped'
  <2>1. CASE Take(w, "high")
    BY <1>7, <2>1 DEF Tiers
  <2>2. CASE UNCHANGED <<pending, failing, timers, channel, dispatchers, parked, locked,
                         giving, owed, abandoned, requests, failures>>
    BY <2>2 DEF RestTyped
  <2> QED
    BY <1>8, <2>1, <2>2 DEF PollHigh
<1>9. ASSUME NEW w \in Workers, ReceiveAny(w) PROVE RestTyped'
  BY <1>7, <1>9 DEF ReceiveAny
<1>10. ASSUME NEW w \in Workers, AcquireSlot(w) PROVE RestTyped'
  <2> DEFINE j == JobOf(w)
  <2>1. /\ j \in Jobs /\ Slot(j) \in Slots /\ j \in SlotJobs(Slot(j))
        /\ parked[Slot(j)] \in Seq(SlotJobs(Slot(j)))
    BY <1>10, AcquireDoes, JobPlaces DEF RestTyped, SlotJobs
  <2>2. CASE SlotFree(j)
    BY <1>10, <2>1, <2>2 DEF AcquireSlot, JobOf, RestTyped
  <2>3. CASE ~SlotFree(j)
    <3>1. parked' = [parked EXCEPT ![Slot(j)] = Append(@, j)] /\ UNCHANGED <<locked, owed, abandoned>>
      BY <1>10, <2>3 DEF AcquireSlot, JobOf
    <3>2. Append(parked[Slot(j)], j) \in Seq(SlotJobs(Slot(j)))
      BY <2>1
    <3>3. \A s \in Slots : parked'[s] \in Seq(SlotJobs(s))
      BY <2>1, <3>1, <3>2 DEF RestTyped, SlotInv, Typed
    <3> QED
      BY <1>10, <3>1, <3>3 DEF AcquireSlot, RestTyped
  <2> QED
    BY <2>2, <2>3
<1>11. ASSUME NEW w \in Workers, EndRun(w) PROVE RestTyped'
  <2>1. failures' \in 0..MaxFailures
    BY <1>11, EndRunDoes, QueueAssumption DEF RestTyped
  <2> QED
    BY <1>11, <2>1 DEF EndRun, RestTyped
<1>12. ASSUME NEW w \in Workers, PopParked(w) PROVE RestTyped'
  <2>1. \A s \in Slots : parked'[s] \in Seq(SlotJobs(s))
    BY <1>12, PopDoes DEF RestTyped, SlotInv, Typed
  <2> QED
    BY <1>12, <2>1 DEF PopParked, RestTyped
<1>13. ASSUME NEW w \in Workers, DispatchUnparked(w) PROVE RestTyped'
  BY <1>13, UnparkedDoes, DispatchKeeps DEF DispatchUnparked, RestTyped
<1>14. ASSUME NEW w \in Workers, FinishJob(w) PROVE RestTyped'
  <2>1. worker[w].job \in Jobs
    BY <1>14, FinishDoes DEF JobOf
  <2>2. failing' \subseteq Jobs /\ pending' \in [Jobs -> {"no", "yes", "rerun"}]
    BY <1>14, <2>1 DEF FinishJob, RestTyped
  <2>3. timers' \in [Jobs -> Nat]
    BY <1>14, <2>1 DEF FinishJob, RestTyped
  <2> QED
    BY <1>14, <2>2, <2>3 DEF FinishJob, RestTyped
<1>15. ASSUME NEW w \in Workers, DispatchAgain(w) PROVE RestTyped'
  BY <1>15, AgainDoes, DispatchKeeps DEF DispatchAgain, JobOf, RestTyped
<1>16. ASSUME NEW c \in Callers, CallerFindsNoRoom(c) PROVE RestTyped'
  BY <1>16 DEF CallerFindsNoRoom, RestTyped
<1> QED
  BY <1>1, <1>2, <1>3, <1>4, <1>5, <1>6, <1>8, <1>9, <1>10, <1>11, <1>12, <1>13, <1>14, <1>15,
     <1>16
  DEF Next, WorkerStep

(* What a worker holds, after a step.                                       *)
LEMMA IdleFrame ==
  ASSUME IdleHoldsNothing, UNCHANGED worker PROVE IdleHoldsNothing'
BY DEF IdleHoldsNothing

LEMMA IdleGoes ==
  ASSUME SlotInv, IdleHoldsNothing, NEW w \in Workers, NEW s, Goes(w, s),
         s.pc \in {"idle", "waiting"} => s.job = NoJob, s.pc # "unparked" => s.next = NoJob
  PROVE  IdleHoldsNothing'
BY GoesTo DEF IdleHoldsNothing

LEMMA IdleStep == TokenInv /\ [Next]_vars => IdleHoldsNothing'
<1> SUFFICES ASSUME TokenInv, [Next]_vars PROVE IdleHoldsNothing'
  OBVIOUS
<1> USE DEF TokenInv
<1> "got" \in WorkerPCs /\ "waiting" \in WorkerPCs /\ NoJob \in Jobs \cup {NoJob}
  BY DEF WorkerPCs
<1>1. CASE UNCHANGED worker
  BY <1>1, IdleFrame
<1>2. ASSUME NEW w \in Workers, NEW t \in Tiers, Take(w, t) PROVE IdleHoldsNothing'
  BY <1>2, TakeDoes, IdleGoes DEF Now
<1>3. ASSUME NEW w \in Workers, PollHigh(w) PROVE IdleHoldsNothing'
  BY <1>2, <1>3, PollDoes, IdleGoes DEF Now, Tiers
<1>4. ASSUME NEW w \in Workers, ReceiveAny(w) PROVE IdleHoldsNothing'
  BY <1>2, <1>4 DEF ReceiveAny
<1>5. ASSUME NEW w \in Workers, AcquireSlot(w) PROVE IdleHoldsNothing'
  BY <1>5, AcquireDoes, IdleGoes DEF Now
<1>6. ASSUME NEW w \in Workers, EndRun(w) PROVE IdleHoldsNothing'
  BY <1>6, EndRunDoes, IdleGoes DEF Now
<1>7. ASSUME NEW w \in Workers, PopParked(w) PROVE IdleHoldsNothing'
  BY <1>7, PopDoes, IdleGoes DEF Now
<1>8. ASSUME NEW w \in Workers, DispatchUnparked(w) PROVE IdleHoldsNothing'
  BY <1>8, UnparkedDoes, IdleGoes DEF Now
<1>9. ASSUME NEW w \in Workers, FinishJob(w) PROVE IdleHoldsNothing'
  BY <1>9, FinishDoes, IdleGoes DEF Now
<1>10. ASSUME NEW w \in Workers, DispatchAgain(w) PROVE IdleHoldsNothing'
  BY <1>10, AgainDoes, IdleGoes DEF Now
<1> QED
  BY <1>1, <1>3, <1>4, <1>5, <1>6, <1>7, <1>8, <1>9, <1>10
  DEF Next, WorkerStep, vars, Request, TimerFires, CallerDispatches, CallerFindsNoRoom,
      CallerGivesUp, DispatcherSends

-----------------------------------------------------------------------------
(* A job has one token while it is in the pending map and none otherwise.   *)
Entered(j) == IF pending[j] = "no" THEN 0 ELSE 1

(* What a step leaves alone keeps its count.                                *)
LEMMA CountsFrame ==
  ASSUME SlotInv, RestTyped, NEW k \in Jobs
  PROVE  /\ CallersWith(k) \in Nat /\ InChannel(k) \in Nat /\ dispatchers[k] \in Nat
         /\ InParked(k) \in Nat /\ WorkersWith(k) \in Nat /\ WorkersNext(k) \in Nat
         /\ Tokens(k) = CallersWith(k) + InChannel(k) + dispatchers[k] + InParked(k)
                          + WorkersWith(k) + WorkersNext(k)
         /\ Tokens(k)' = CallersWith(k)' + InChannel(k)' + dispatchers'[k] + InParked(k)'
                          + WorkersWith(k)' + WorkersNext(k)'
         /\ caller' = caller => CallersWith(k)' = CallersWith(k)
         /\ channel' = channel => InChannel(k)' = InChannel(k)
         /\ dispatchers' = dispatchers => dispatchers'[k] = dispatchers[k]
         /\ parked' = parked => InParked(k)' = InParked(k)
         /\ worker' = worker
              => WorkersWith(k)' = WorkersWith(k) /\ WorkersNext(k)' = WorkersNext(k)
         /\ pending' = pending => Entered(k)' = Entered(k)
<1>1. Tokens(k)' = CallersWith(k)' + InChannel(k)' + dispatchers'[k] + InParked(k)'
                     + WorkersWith(k)' + WorkersNext(k)'
  BY DEF Tokens, CallersWith, InChannel, InParked, WorkersWith, WorkersNext
<1>2. /\ caller' = caller => CallersWith(k)' = CallersWith(k)
      /\ channel' = channel => InChannel(k)' = InChannel(k)
      /\ parked' = parked => InParked(k)' = InParked(k)
      /\ worker' = worker
           => WorkersWith(k)' = WorkersWith(k) /\ WorkersNext(k)' = WorkersNext(k)
      /\ pending' = pending => Entered(k)' = Entered(k)
  BY DEF CallersWith, InChannel, InParked, WorkersWith, WorkersNext, Entered, Tier, Slot
<1> QED
  BY <1>1, <1>2, TokenTypes

(* The parked jobs of a slot are counted like those of a channel.           *)
LEMMA ParkCounts ==
  ASSUME SlotInv, RestTyped, NEW j \in Jobs,
         parked' = [parked EXCEPT ![Slot(j)] = Append(@, j)], NEW k \in Jobs
  PROVE  InParked(k)' = InParked(k) + One(j, k)
<1>1. /\ Slot(j) \in Slots /\ Slot(k) \in Slots /\ parked[Slot(k)] \in Seq(Jobs)
      /\ InParked(k) \in Nat
  BY JobPlaces, TokenTypes DEF SlotInv, Typed
<1>2. CASE Slot(k) = Slot(j)
  <2>1. parked'[Slot(k)] = Append(parked[Slot(k)], j)
    BY <1>1, <1>2 DEF SlotInv, Typed
  <2> QED
    BY <1>1, <2>1, OccurrencesAfterAppend DEF InParked, Slot, Tier
<1>3. CASE Slot(k) # Slot(j)
  <2>1. parked'[Slot(k)] = parked[Slot(k)] /\ j # k
    BY <1>1, <1>3 DEF SlotInv, Typed
  <2> QED
    BY <1>1, <2>1 DEF InParked, One, Slot, Tier
<1> QED
  BY <1>2, <1>3

LEMMA UnparkCounts ==
  ASSUME SlotInv, RestTyped, NEW s \in Slots, parked[s] # <<>>,
         parked' = [parked EXCEPT ![s] = Tail(@)], NEW k \in Jobs
  PROVE  InParked(k) = InParked(k)' + One(Head(parked[s]), k) /\ InParked(k)' \in Nat
<1>1. /\ Slot(k) \in Slots /\ parked[Slot(k)] \in Seq(Jobs) /\ InParked(k) \in Nat
      /\ Head(parked[s]) \in SlotJobs(s) /\ Tail(parked[s]) \in Seq(Jobs)
  <2>1. Slot(k) \in Slots /\ InParked(k) \in Nat
    BY JobPlaces, TokenTypes
  <2>2. parked[s] \in Seq(Jobs) /\ parked[Slot(k)] \in Seq(Jobs)
    BY <2>1 DEF SlotInv, Typed
  <2>3. parked[s] \in Seq(SlotJobs(s))
    BY DEF RestTyped
  <2>4. Head(parked[s]) \in SlotJobs(s)
    BY <2>3
  <2>5. Tail(parked[s]) \in Seq(Jobs)
    BY <2>2
  <2> QED
    BY <2>1, <2>2, <2>4, <2>5
<1>2. CASE Slot(k) = s
  <2>1. parked'[Slot(k)] = Tail(parked[Slot(k)])
    BY <1>1, <1>2 DEF SlotInv, Typed
  <2>2. InParked(k)' = Occurrences(k, Tail(parked[Slot(k)]))
    BY <2>1 DEF InParked, Slot, Tier
  <2>3. Occurrences(k, Tail(parked[Slot(k)])) \in Nat
    BY <1>1, <1>2, OccurrencesType
  <2> QED
    BY <1>1, <1>2, <2>2, <2>3, OccurrencesAfterTail DEF InParked
<1>3. CASE Slot(k) # s
  <2>1. parked'[Slot(k)] = parked[Slot(k)] /\ Head(parked[s]) # k
    BY <1>1, <1>3 DEF SlotInv, Typed, SlotJobs
  <2>2. InParked(k)' = InParked(k)
    BY <2>1 DEF InParked, Slot, Tier
  <2> QED
    BY <1>1, <2>1, <2>2 DEF One
<1> QED
  BY <1>2, <1>3

LEMMA TakeCounts ==
  ASSUME SlotInv, RestTyped, NEW t \in Tiers, channel[t] # <<>>,
         channel' = [channel EXCEPT ![t] = Tail(@)], NEW k \in Jobs
  PROVE  InChannel(k) = InChannel(k)' + One(Head(channel[t]), k) /\ InChannel(k)' \in Nat
<1>1. /\ Tier(k) \in Tiers /\ channel[Tier(k)] \in Seq(Jobs) /\ InChannel(k) \in Nat
      /\ Head(channel[t]) \in TierJobs(t) /\ Tail(channel[t]) \in Seq(Jobs)
  <2>1. channel[t] \in Seq(TierJobs(t)) /\ channel[t] \in Seq(Jobs)
    BY DEF SlotInv, Typed, RestTyped
  <2>2. Head(channel[t]) \in TierJobs(t) /\ Tail(channel[t]) \in Seq(Jobs)
    BY <2>1
  <2> QED
    BY <2>2, JobPlaces, TokenTypes DEF SlotInv, Typed
<1>2. CASE Tier(k) = t
  <2>1. channel'[Tier(k)] = Tail(channel[Tier(k)])
    BY <1>1, <1>2 DEF SlotInv, Typed
  <2>2. InChannel(k)' = Occurrences(k, Tail(channel[Tier(k)]))
    BY <2>1 DEF InChannel, Tier
  <2>3. Occurrences(k, Tail(channel[Tier(k)])) \in Nat
    BY <1>1, <1>2, OccurrencesType
  <2> QED
    BY <1>1, <1>2, <2>2, <2>3, OccurrencesAfterTail DEF InChannel
<1>3. CASE Tier(k) # t
  <2>1. channel'[Tier(k)] = channel[Tier(k)] /\ Head(channel[t]) # k
    BY <1>1, <1>3 DEF SlotInv, Typed, TierJobs
  <2>2. InChannel(k)' = InChannel(k)
    BY <2>1 DEF InChannel, Tier
  <2> QED
    BY <1>1, <2>1, <2>2 DEF One
<1> QED
  BY <1>2, <1>3

LEMMA OneTokenStep == TokenInv /\ [Next]_vars => OneTokenPerPendingJob'
<1> SUFFICES ASSUME TokenInv, [Next]_vars, NEW k \in Jobs PROVE Tokens(k)' = Entered(k)'
  BY DEF OneTokenPerPendingJob, Entered
<1> USE DEF TokenInv
<1> DEFINE Kept == Tokens(k)' = Entered(k)'
<1>0. /\ Tokens(k) = Entered(k) /\ k # NoJob /\ One(NoJob, k) = 0
      /\ pending \in [Jobs -> {"no", "yes", "rerun"}]
  BY QueueAssumption DEF OneTokenPerPendingJob, Entered, RestTyped, One
<1>a. \A a : One(a, k) \in Nat
  BY DEF One
<1>b. /\ Tokens(k) = CallersWith(k) + InChannel(k) + dispatchers[k] + InParked(k)
                       + WorkersWith(k) + WorkersNext(k)
      /\ Tokens(k)' = CallersWith(k)' + InChannel(k)' + dispatchers'[k] + InParked(k)'
                        + WorkersWith(k)' + WorkersNext(k)'
      /\ CallersWith(k) \in Nat /\ InChannel(k) \in Nat /\ dispatchers[k] \in Nat
      /\ InParked(k) \in Nat /\ WorkersWith(k) \in Nat /\ WorkersNext(k) \in Nat
  BY CountsFrame
<1>c. /\ caller' = caller => CallersWith(k)' = CallersWith(k)
      /\ channel' = channel => InChannel(k)' = InChannel(k)
      /\ dispatchers' = dispatchers => dispatchers'[k] = dispatchers[k]
      /\ parked' = parked => InParked(k)' = InParked(k)
      /\ worker' = worker
           => WorkersWith(k)' = WorkersWith(k) /\ WorkersNext(k)' = WorkersNext(k)
      /\ pending' = pending => Entered(k)' = Entered(k)
  BY CountsFrame
<1>1. CASE UNCHANGED vars
  BY <1>0, <1>1, <1>b, <1>c DEF vars
<1>2. ASSUME NEW c \in Callers, NEW j \in Jobs, Enter(c, j),
             UNCHANGED <<channel, dispatchers, parked, worker>>
      PROVE  Kept
  <2>1. CASE pending[j] = "no"
    <3>1. /\ pending' = [pending EXCEPT ![j] = "yes"] /\ caller' = [caller EXCEPT ![c] = j]
          /\ caller[c] = NoJob
      BY <1>2, <2>1 DEF Enter
    <3>2. CallersWith(k)' + One(NoJob, k) = CallersWith(k) + One(j, k) /\ CallersWith(k)' \in Nat
      BY <3>1, CallerCounts
    <3>3. Entered(k)' = IF j = k THEN 1 ELSE Entered(k)
      BY <1>0, <3>1 DEF Entered
    <3>4. j = k => Entered(k) = 0
      BY <2>1 DEF Entered
    <3> QED
      BY <1>0, <1>2, <3>2, <3>3, <3>4, <1>b, <1>c DEF One
  <2>2. CASE pending[j] # "no"
    <3>1. pending' = [pending EXCEPT ![j] = "rerun"] /\ caller' = caller
      BY <1>2, <2>2 DEF Enter
    <3>2. Entered(k)' = Entered(k)
      BY <1>0, <2>2, <3>1 DEF Entered
    <3> QED
      BY <1>0, <1>2, <3>1, <3>2, <1>b, <1>c
  <2> QED
    BY <2>1, <2>2
<1>3. ASSUME NEW c \in Callers, NEW j \in Jobs, Request(c, j) \/ TimerFires(c, j) PROVE Kept
  BY <1>2, <1>3 DEF Request, TimerFires
<1>4. ASSUME NEW c \in Callers, CallerDispatches(c) PROVE Kept
  <2>1. /\ caller[c] \in Jobs /\ Dispatch(caller[c]) /\ caller' = [caller EXCEPT ![c] = NoJob]
        /\ UNCHANGED <<pending, parked, worker>>
    BY <1>4 DEF CallerDispatches, SlotInv, Typed
  <2>2. CallersWith(k)' + One(caller[c], k) = CallersWith(k) + One(NoJob, k)
          /\ CallersWith(k)' \in Nat
    BY <2>1, CallerCounts
  <2>3. /\ InChannel(k)' \in Nat /\ dispatchers'[k] \in Nat
        /\ InChannel(k)' + dispatchers'[k] = InChannel(k) + dispatchers[k] + One(caller[c], k)
    BY <2>1, DispatchCounts
  <2> QED
    BY <1>0, <2>1, <2>2, <2>3, <1>a, <1>b, <1>c
<1>5. ASSUME NEW c \in Callers, CallerGivesUp(c) PROVE Kept
  <2>1. /\ caller[c] \in Jobs /\ caller' = [caller EXCEPT ![c] = NoJob]
        /\ pending' = [pending EXCEPT ![caller[c]] = "no"]
        /\ UNCHANGED <<channel, dispatchers, parked, worker>>
    BY <1>5 DEF CallerGivesUp, SlotInv, Typed
  <2>2. CallersWith(k)' + One(caller[c], k) = CallersWith(k) + One(NoJob, k)
          /\ CallersWith(k)' \in Nat
    BY <2>1, CallerCounts
  <2>3. Entered(k)' = IF caller[c] = k THEN 0 ELSE Entered(k)
    BY <1>0, <2>1 DEF Entered
  <2> QED
    BY <1>0, <2>1, <2>2, <2>3, <1>a, <1>b, <1>c DEF One, Entered
<1>6. ASSUME NEW j \in Jobs, DispatcherSends(j) PROVE Kept
  <2>1. /\ dispatchers[j] > 0 /\ dispatchers' = [dispatchers EXCEPT ![j] = @ - 1]
        /\ channel' = [channel EXCEPT ![Tier(j)] = Append(@, j)]
        /\ UNCHANGED <<pending, parked, worker, caller>>
    BY <1>6 DEF DispatcherSends
  <2>2. InChannel(k)' = InChannel(k) + One(j, k)
    BY <2>1, AppendCounts
  <2>3. dispatchers'[k] \in Nat /\ dispatchers[k] = dispatchers'[k] + One(j, k)
    BY <2>1 DEF RestTyped, One
  <2> QED
    BY <1>0, <2>1, <2>2, <2>3, <1>a, <1>b, <1>c
<1>7. ASSUME NEW w \in Workers, NEW t \in Tiers, worker[w].pc \in {"idle", "waiting"}, Take(w, t)
      PROVE  Kept
  <2> DEFINE h == Head(channel[t])
             s == Now("got", h, NoJob, TRUE)
  <2>1. /\ h \in Jobs /\ channel[t] # <<>> /\ Goes(w, s)
        /\ worker[w].job = NoJob /\ worker[w].next = NoJob
    BY <1>7, TakeDoes DEF IdleHoldsNothing
  <2>2. /\ channel' = [channel EXCEPT ![t] = Tail(@)]
        /\ UNCHANGED <<pending, dispatchers, parked, caller>>
    BY <1>7 DEF Take
  <2>3. InChannel(k) = InChannel(k)' + One(h, k) /\ InChannel(k)' \in Nat
    BY <2>1, <2>2, TakeCounts
  <2>4. s.job = h /\ s.next = NoJob
    BY DEF Now
  <2> HIDE DEF h, s
  <2>5. /\ WorkersWith(k)' \in Nat /\ WorkersNext(k)' \in Nat
        /\ WorkersWith(k)' + One(NoJob, k) = WorkersWith(k) + One(h, k)
        /\ WorkersNext(k)' + One(NoJob, k) = WorkersNext(k) + One(NoJob, k)
    BY <2>1, <2>4, WorkerCounts, ZenonT(30) DEF Goes, Fits
  <2>6. WorkersWith(k)' = WorkersWith(k) + One(h, k) /\ WorkersNext(k)' = WorkersNext(k)
    BY <1>0, <2>5, <1>b
  <2>7. dispatchers'[k] = dispatchers[k] /\ InParked(k)' = InParked(k)
          /\ CallersWith(k)' = CallersWith(k) /\ Entered(k)' = Entered(k)
    BY <2>2, <1>c
  <2> QED
    BY <1>0, <2>3, <2>6, <2>7, <1>a, <1>b
(* A step of a worker that keeps what it holds moves no token.              *)
<1>8. ASSUME NEW w \in Workers, NEW s, Goes(w, s), s.job = worker[w].job,
             s.next = worker[w].next,
             UNCHANGED <<pending, channel, dispatchers, parked, caller>>
      PROVE  Kept
  <2>1. /\ WorkersWith(k)' \in Nat /\ WorkersNext(k)' \in Nat
        /\ WorkersWith(k)' + One(s.job, k) = WorkersWith(k) + One(s.job, k)
        /\ WorkersNext(k)' + One(s.next, k) = WorkersNext(k) + One(s.next, k)
    BY <1>8, WorkerCounts DEF Goes, Fits
  <2> QED
    BY <1>0, <1>8, <2>1, <1>a, <1>b, <1>c
<1>9. ASSUME NEW w \in Workers, PollHigh(w) PROVE Kept
  <2>1. CASE Take(w, "high")
    BY <1>7, <1>9, <2>1 DEF PollHigh, Tiers
  <2>2. CASE ~Take(w, "high")
    BY <1>8, <1>9, <2>2, PollDoes DEF Now, IdleHoldsNothing
  <2> QED
    BY <2>1, <2>2
<1>10. ASSUME NEW w \in Workers, ReceiveAny(w) PROVE Kept
  BY <1>7, <1>10 DEF ReceiveAny
<1>11. ASSUME NEW w \in Workers, AcquireSlot(w) PROVE Kept
  <2> DEFINE j == JobOf(w)
  <2>1. /\ j \in Jobs /\ worker[w].next = NoJob /\ worker[w].job = j
        /\ UNCHANGED <<pending, channel, dispatchers, caller>>
    BY <1>11, AcquireDoes DEF AcquireSlot, JobOf
  <2>2. CASE SlotFree(j)
    <3>1. parked' = parked /\ Goes(w, Now("running", j, NoJob, worker[w].ok))
      BY <1>11, <2>2, AcquireDoes DEF AcquireSlot, JobOf
    <3> QED
      BY <1>8, <2>1, <3>1 DEF Now
  <2>3. CASE ~SlotFree(j)
    <3> DEFINE s == Now("idle", NoJob, NoJob, TRUE)
    <3>1. parked' = [parked EXCEPT ![Slot(j)] = Append(@, j)] /\ Goes(w, s)
      BY <1>11, <2>3, AcquireDoes DEF AcquireSlot, JobOf
    <3>2. InParked(k)' = InParked(k) + One(j, k)
      BY <2>1, <3>1, ParkCounts
    <3>3. s.job = NoJob /\ s.next = NoJob
      BY DEF Now
    <3> HIDE DEF s, j
    <3>4. /\ WorkersWith(k)' \in Nat /\ WorkersNext(k)' \in Nat
          /\ WorkersWith(k)' + One(j, k) = WorkersWith(k) + One(NoJob, k)
          /\ WorkersNext(k)' + One(NoJob, k) = WorkersNext(k) + One(NoJob, k)
      BY <2>1, <3>1, <3>3, WorkerCounts, ZenonT(30) DEF Goes, Fits
    <3> QED
      BY <1>0, <2>1, <3>2, <3>4, <1>a, <1>b, <1>c
  <2> QED
    BY <2>2, <2>3
<1>12. ASSUME NEW w \in Workers, EndRun(w) PROVE Kept
  <2>1. PICK ok \in BOOLEAN : Goes(w, Now("released", JobOf(w), NoJob, ok))
    BY <1>12, EndRunDoes
  <2> QED
    BY <1>8, <1>12, <2>1, EndRunDoes DEF EndRun, Now, JobOf
<1>13. ASSUME NEW w \in Workers, PopParked(w) PROVE Kept
  <2> DEFINE p == Slot(JobOf(w))
             h == Head(parked[p])
             s == Now("unparked", JobOf(w), h, worker[w].ok)
  <2>1. /\ worker[w].next = NoJob /\ p \in Slots
        /\ UNCHANGED <<pending, channel, dispatchers, caller>>
    BY <1>13, PopDoes DEF PopParked
  <2>2. CASE parked' = parked /\ Goes(w, Now("finishing", JobOf(w), NoJob, worker[w].ok))
    BY <1>8, <2>1, <2>2 DEF Now, JobOf
  <2>3. CASE parked[p] # <<>> /\ parked' = [parked EXCEPT ![p] = Tail(@)] /\ Goes(w, s)
    <3>1. InParked(k) = InParked(k)' + One(h, k) /\ InParked(k)' \in Nat
      BY <2>1, <2>3, UnparkCounts
    <3>2. s.job = worker[w].job /\ s.next = h
      BY DEF Now, JobOf
    <3> HIDE DEF s, h, p
    <3>3. /\ WorkersWith(k)' \in Nat /\ WorkersNext(k)' \in Nat
          /\ WorkersWith(k)' + One(s.job, k) = WorkersWith(k) + One(s.job, k)
          /\ WorkersNext(k)' + One(NoJob, k) = WorkersNext(k) + One(h, k)
      BY <2>1, <2>3, <3>2, WorkerCounts DEF Goes, Fits
    <3> QED
      BY <1>0, <2>1, <3>1, <3>3, <1>a, <1>b, <1>c
  <2> QED
    BY <1>13, <2>2, <2>3, PopDoes
<1>14. ASSUME NEW w \in Workers, DispatchUnparked(w) PROVE Kept
  <2> DEFINE n == worker[w].next
             s == Now("finishing", JobOf(w), NoJob, worker[w].ok)
  <2>1. n \in Jobs /\ Dispatch(n) /\ Goes(w, s) /\ UNCHANGED <<pending, parked, caller>>
    BY <1>14, UnparkedDoes DEF DispatchUnparked
  <2>2. /\ InChannel(k)' \in Nat /\ dispatchers'[k] \in Nat
        /\ InChannel(k)' + dispatchers'[k] = InChannel(k) + dispatchers[k] + One(n, k)
    BY <2>1, DispatchCounts
  <2>3. s.job = worker[w].job /\ s.next = NoJob
    BY DEF Now, JobOf
  <2> HIDE DEF s
  <2>4. /\ WorkersWith(k)' \in Nat /\ WorkersNext(k)' \in Nat
        /\ WorkersWith(k)' + One(s.job, k) = WorkersWith(k) + One(s.job, k)
        /\ WorkersNext(k)' + One(n, k) = WorkersNext(k) + One(NoJob, k)
    BY <2>1, <2>3, WorkerCounts DEF Goes, Fits
  <2>5. InParked(k)' = InParked(k) /\ CallersWith(k)' = CallersWith(k)
          /\ Entered(k)' = Entered(k)
    BY <2>1, <1>c
  <2>6. WorkersNext(k)' + One(n, k) = WorkersNext(k) /\ WorkersWith(k)' = WorkersWith(k)
    BY <1>0, <2>4, <1>b DEF One
  <2>7. One(n, k) \in Nat
    BY <1>a
  <2> QED
    BY <1>0, <2>2, <2>4, <2>5, <2>6, <2>7, <1>b
<1>15. ASSUME NEW w \in Workers, FinishJob(w) PROVE Kept
  <2> DEFINE j == JobOf(w)
             s == Now("idle", NoJob, NoJob, TRUE)
  <2>1. /\ j \in Jobs /\ worker[w].job = j /\ worker[w].next = NoJob
        /\ UNCHANGED <<channel, dispatchers, parked, caller>>
    BY <1>15, FinishDoes DEF FinishJob, JobOf
  <2>2. CASE pending[j] = "rerun"
    <3>1. /\ Goes(w, Now("again", j, NoJob, worker[w].ok))
          /\ pending' = [pending EXCEPT ![j] = "yes"]
      BY <1>15, <2>2, FinishDoes DEF FinishJob, JobOf
    <3>2. Entered(k)' = Entered(k)
      BY <1>0, <2>1, <2>2, <3>1 DEF Entered
    <3> DEFINE r == Now("again", j, NoJob, worker[w].ok)
    <3>3. r.job = j /\ r.next = NoJob
      BY DEF Now
    <3>4. Goes(w, r)
      BY <3>1
    <3> HIDE DEF r, j
    <3>5. /\ WorkersWith(k)' \in Nat /\ WorkersNext(k)' \in Nat
          /\ WorkersWith(k)' + One(j, k) = WorkersWith(k) + One(j, k)
          /\ WorkersNext(k)' + One(NoJob, k) = WorkersNext(k) + One(NoJob, k)
      BY <2>1, <3>3, <3>4, WorkerCounts DEF Goes, Fits
    <3>6. WorkersWith(k)' = WorkersWith(k) /\ WorkersNext(k)' = WorkersNext(k)
      BY <3>5, <1>0, <1>b DEF One
    <3>7. InChannel(k)' = InChannel(k) /\ dispatchers'[k] = dispatchers[k]
            /\ InParked(k)' = InParked(k) /\ CallersWith(k)' = CallersWith(k)
      BY <2>1, <1>c
    <3> QED
      BY <1>0, <3>2, <3>6, <3>7, <1>b
  <2>3. CASE pending[j] # "rerun"
    <3>1. Goes(w, s) /\ pending' = [pending EXCEPT ![j] = "no"]
      BY <1>15, <2>3, FinishDoes DEF FinishJob, JobOf
    <3>2. Entered(k)' = IF j = k THEN 0 ELSE Entered(k)
      BY <1>0, <2>1, <3>1 DEF Entered
    <3>3. s.job = NoJob /\ s.next = NoJob
      BY DEF Now
    <3> HIDE DEF s, j
    <3>4. /\ WorkersWith(k)' \in Nat /\ WorkersNext(k)' \in Nat
          /\ WorkersWith(k)' + One(j, k) = WorkersWith(k) + One(NoJob, k)
          /\ WorkersNext(k)' + One(NoJob, k) = WorkersNext(k) + One(NoJob, k)
      BY <2>1, <3>1, <3>3, WorkerCounts, ZenonT(30) DEF Goes, Fits
    <3> QED
      BY <1>0, <2>1, <3>2, <3>4, <1>a, <1>b, <1>c DEF One, Entered
  <2> QED
    BY <2>2, <2>3
<1>16. ASSUME NEW w \in Workers, DispatchAgain(w) PROVE Kept
  <2> DEFINE j == JobOf(w)
             s == Now("idle", NoJob, NoJob, TRUE)
  <2>1. /\ j \in Jobs /\ worker[w].job = j /\ worker[w].next = NoJob /\ Dispatch(j) /\ Goes(w, s)
        /\ UNCHANGED <<pending, parked, caller>>
    BY <1>16, AgainDoes DEF DispatchAgain, JobOf
  <2>2. /\ InChannel(k)' \in Nat /\ dispatchers'[k] \in Nat
        /\ InChannel(k)' + dispatchers'[k] = InChannel(k) + dispatchers[k] + One(j, k)
    BY <2>1, DispatchCounts
  <2>3. s.job = NoJob /\ s.next = NoJob
    BY DEF Now
  <2> HIDE DEF s, j
  <2>4. /\ WorkersWith(k)' \in Nat /\ WorkersNext(k)' \in Nat
        /\ WorkersWith(k)' + One(j, k) = WorkersWith(k) + One(NoJob, k)
        /\ WorkersNext(k)' + One(NoJob, k) = WorkersNext(k) + One(NoJob, k)
    BY <2>1, <2>3, WorkerCounts, ZenonT(30) DEF Goes, Fits
  <2>5. InParked(k)' = InParked(k) /\ CallersWith(k)' = CallersWith(k)
          /\ Entered(k)' = Entered(k)
    BY <2>1, <1>c
  <2>6. WorkersWith(k)' + One(j, k) = WorkersWith(k) /\ WorkersNext(k)' = WorkersNext(k)
    BY <1>0, <2>4, <1>b
  <2>7. One(j, k) \in Nat
    BY <1>a
  <2> QED
    BY <1>0, <2>2, <2>4, <2>5, <2>6, <2>7, <1>b
<1>17. ASSUME NEW w \in Workers, WorkerStep(w) PROVE Kept
  BY <1>17, <1>9, <1>10, <1>11, <1>12, <1>13, <1>14, <1>15, <1>16 DEF WorkerStep
<1>18. ASSUME NEW c \in Callers, CallerFindsNoRoom(c) PROVE Kept
  BY <1>0, <1>18, <1>b, <1>c DEF CallerFindsNoRoom
<1> QED
  BY <1>1, <1>3, <1>4, <1>5, <1>6, <1>17, <1>18 DEF Next

-----------------------------------------------------------------------------
(* One holder excludes all others.                                          *)
LEMMA Members ==
  ASSUME NEW S, IsFiniteSet(S), NEW P \in SUBSET S, NEW x \in P
  PROVE  /\ Cardinality(P) \in Nat /\ Cardinality(P) >= 1
         /\ \A y \in P : y # x => Cardinality(P) >= 2
<1> DEFINE Q == P \ {x}
<1>1. Q \in SUBSET S /\ x \in S /\ P \ {x} = Q \ {x} /\ x \notin Q
  OBVIOUS
<1>2. /\ Cardinality(P) \in Nat /\ Cardinality(Q) \in Nat
      /\ Cardinality(Q) + 1 = Cardinality(P)
  <2> HIDE DEF Q
  <2> QED
    BY <1>1, CountOne
<1>3. IsFiniteSet(Q) /\ \A y \in P : y # x => Q # {}
  BY FS_Subset
<1>4. Q # {} => Cardinality(Q) # 0
  BY <1>3, FS_EmptySet
<1> QED
  BY <1>2, <1>3, <1>4

LEMMA TokenIsUnique ==
  ASSUME TokenInv, NEW j \in Jobs
  PROVE  /\ \A c \in Callers : caller[c] = j
              => /\ pending[j] # "no" /\ \A w \in Workers : worker[w].job # j
                 /\ \A d \in Callers : caller[d] = j => d = c
         /\ \A w \in Workers : worker[w].job = j
              => /\ pending[j] # "no" /\ \A c \in Callers : caller[c] # j
                 /\ \A v \in Workers : worker[v].job = j => v = w
<1> DEFINE C == {c \in Callers : caller[c] = j}
           W == {w \in Workers : worker[w].job = j}
<1>1. C \in SUBSET Callers /\ W \in SUBSET Workers
  OBVIOUS
<1>2. /\ CallersWith(j) = Cardinality(C) /\ WorkersWith(j) = Cardinality(W)
      /\ CallersWith(j) \in Nat /\ WorkersWith(j) \in Nat
      /\ CallersWith(j) + WorkersWith(j) <= 1
      /\ pending[j] = "no" => CallersWith(j) = 0 /\ WorkersWith(j) = 0
  <2>1. Tokens(j) = IF pending[j] = "no" THEN 0 ELSE 1
    BY DEF TokenInv, OneTokenPerPendingJob
  <2>2. /\ CallersWith(j) \in Nat /\ InChannel(j) \in Nat /\ dispatchers[j] \in Nat
        /\ InParked(j) \in Nat /\ WorkersWith(j) \in Nat /\ WorkersNext(j) \in Nat
        /\ Tokens(j) = CallersWith(j) + InChannel(j) + dispatchers[j] + InParked(j)
                         + WorkersWith(j) + WorkersNext(j)
    BY TokenTypes DEF TokenInv
  <2>3. CallersWith(j) = Cardinality(C) /\ WorkersWith(j) = Cardinality(W)
    BY DEF CallersWith, WorkersWith
  <2> QED
    BY <2>1, <2>2, <2>3
<1>3. \A c \in C : Cardinality(C) >= 1 /\ \A d \in C : d # c => Cardinality(C) >= 2
  <2> HIDE DEF C
  <2> QED
    BY <1>1, Members, QueueAssumption
<1>4. \A w \in W : Cardinality(W) >= 1 /\ \A v \in W : v # w => Cardinality(W) >= 2
  <2> HIDE DEF W
  <2> QED
    BY <1>1, Members, QueueAssumption
<1>5. (\E c \in C : TRUE) => W = {} /\ pending[j] # "no" /\ \A c, d \in C : c = d
  <2> HIDE DEF C, W
  <2> QED
    BY <1>2, <1>3, <1>4
<1>6. (\E w \in W : TRUE) => C = {} /\ pending[j] # "no" /\ \A v, w \in W : v = w
  <2> HIDE DEF C, W
  <2> QED
    BY <1>2, <1>3, <1>4
<1> QED
  BY <1>5, <1>6

-----------------------------------------------------------------------------
(* A retry timer is bought by a failed run, and a failed run that has not   *)
(* been recorded yet can still buy one.                                     *)
FailedRun(w) ==
  /\ worker[w].pc \in {"released", "unparked", "finishing"}
  /\ ~worker[w].ok /\ worker[w].job \notin Gone
TimersBounded ==
  /\ \A j \in Jobs : timers[j] <= failures
  /\ \A w \in Workers : FailedRun(w) => timers[worker[w].job] < failures

LEMMA TimersFrame ==
  ASSUME SlotInv, TimersBounded, NEW w \in Workers, NEW s, Goes(w, s),
         s.pc \in {"released", "unparked", "finishing"} /\ ~s.ok /\ s.job \notin Gone
           => FailedRun(w) /\ s.job = worker[w].job,
         UNCHANGED <<timers, failures>>
  PROVE  TimersBounded'
BY GoesTo DEF TimersBounded, FailedRun

LEMMA TimersStep == TokenInv /\ TimersBounded /\ [Next]_vars => TimersBounded'
<1> SUFFICES ASSUME TokenInv, TimersBounded, [Next]_vars PROVE TimersBounded'
  OBVIOUS
<1> USE DEF TokenInv
<1>1. CASE UNCHANGED <<timers, failures, worker>>
  BY <1>1 DEF TimersBounded, FailedRun
<1>2. ASSUME NEW c \in Callers, NEW j \in Jobs, TimerFires(c, j) PROVE TimersBounded'
  <2>1. /\ timers[j] > 0 /\ timers' = [timers EXCEPT ![j] = @ - 1]
        /\ UNCHANGED <<failures, worker>>
    BY <1>2 DEF TimerFires
  <2>2. \A k \in Jobs : timers'[k] \in Nat /\ timers[k] \in Nat /\ timers'[k] <= timers[k]
    BY <2>1 DEF RestTyped
  <2>3. \A w \in Workers : FailedRun(w) => worker[w].job \in Jobs
    BY DEF FailedRun, SlotInv, HasJob
  <2>4. failures \in Nat
    BY QueueAssumption DEF RestTyped
  <2> QED
    BY <2>1, <2>2, <2>3, <2>4 DEF TimersBounded, FailedRun
<1>3. ASSUME NEW w \in Workers, NEW t \in Tiers, Take(w, t) PROVE TimersBounded'
  BY <1>3, TakeDoes, TimersFrame DEF Take, Now
<1>4. ASSUME NEW w \in Workers, PollHigh(w) PROVE TimersBounded'
  BY <1>3, <1>4, PollDoes, TimersFrame DEF Now, Tiers
<1>5. ASSUME NEW w \in Workers, ReceiveAny(w) PROVE TimersBounded'
  BY <1>3, <1>5 DEF ReceiveAny
<1>6. ASSUME NEW w \in Workers, AcquireSlot(w) PROVE TimersBounded'
  BY <1>6, AcquireDoes, TimersFrame DEF AcquireSlot, Now
<1>7. ASSUME NEW w \in Workers, EndRun(w) PROVE TimersBounded'
  <2>1. PICK ok \in BOOLEAN :
          /\ Goes(w, Now("released", JobOf(w), NoJob, ok))
          /\ failures' = IF ok \/ JobOf(w) \in Gone THEN failures ELSE failures + 1
    BY <1>7, EndRunDoes
  <2>2. timers' = timers /\ failures \in Nat /\ \A k \in Jobs : timers[k] \in Nat
    BY <1>7, QueueAssumption DEF EndRun, RestTyped
  <2>3. CASE failures' = failures /\ (ok \/ JobOf(w) \in Gone)
    BY <2>1, <2>2, <2>3, TimersFrame DEF Now
  <2>4. CASE failures' = failures + 1
    <3>1. \A k \in Jobs : timers[k] <= failures
      BY DEF TimersBounded
    <3>2. \A v \in Workers : FailedRun(v)' => worker'[v].job \in Jobs
      BY <1>7, SlotStep DEF FailedRun, SlotInv, HasJob
    <3> QED
      BY <2>2, <2>4, <3>1, <3>2 DEF TimersBounded
  <2> QED
    BY <2>1, <2>3, <2>4
<1>8. ASSUME NEW w \in Workers, PopParked(w) PROVE TimersBounded'
  BY <1>8, PopDoes, TimersFrame DEF PopParked, Now, FailedRun, JobOf
<1>9. ASSUME NEW w \in Workers, DispatchUnparked(w) PROVE TimersBounded'
  BY <1>9, UnparkedDoes, TimersFrame DEF DispatchUnparked, Now, FailedRun, JobOf
<1>10. ASSUME NEW w \in Workers, FinishJob(w) PROVE TimersBounded'
  <2> DEFINE j == JobOf(w)
  <2>1. /\ j \in Jobs /\ worker[w].job = j /\ worker[w].pc = "finishing" /\ failures' = failures
        /\ failures \in Nat
    <3>1. failures' = failures /\ worker[w].job = j
      BY <1>10 DEF FinishJob, JobOf
    <3>2. failures \in Nat
      BY QueueAssumption DEF RestTyped
    <3> QED
      BY <1>10, <3>1, <3>2, FinishDoes
  <2>2. CASE timers' = timers
    BY <1>10, <2>1, <2>2, FinishDoes, TimersFrame DEF Now
  <2>3. CASE timers' # timers
    <3>1. /\ Retried(w) /\ timers' = [timers EXCEPT ![j] = @ + 1]
          /\ Goes(w, Now("idle", NoJob, NoJob, TRUE))
      BY <1>10, <2>3, FinishDoes DEF FinishJob, JobOf, RestTyped
    <3>2. FailedRun(w)
      BY <2>1, <3>1 DEF FailedRun, Retried
    <3>3. \A k \in Jobs : timers'[k] <= failures
      BY <2>1, <3>1, <3>2 DEF TimersBounded, RestTyped
    <3>4. \A v \in Workers : FailedRun(v)' => FailedRun(v) /\ v # w /\ worker'[v] = worker[v]
      BY <3>1, GoesTo DEF FailedRun, Now
    <3>5. \A v \in Workers : FailedRun(v)' => worker[v].job \in Jobs /\ worker[v].job # j
      BY <2>1, <3>4, TokenIsUnique DEF FailedRun, SlotInv, HasJob
    <3> QED
      BY <2>1, <3>1, <3>3, <3>4, <3>5 DEF TimersBounded, RestTyped
  <2> QED
    BY <2>2, <2>3
<1>11. ASSUME NEW w \in Workers, DispatchAgain(w) PROVE TimersBounded'
  BY <1>11, AgainDoes, TimersFrame DEF DispatchAgain, Now
<1>12. ASSUME NEW w \in Workers, WorkerStep(w) PROVE TimersBounded'
  BY <1>12, <1>4, <1>5, <1>6, <1>7, <1>8, <1>9, <1>10, <1>11 DEF WorkerStep
<1> QED
  BY <1>1, <1>2, <1>12
  DEF Next, vars, Request, CallerDispatches, CallerFindsNoRoom, CallerGivesUp, DispatcherSends

-----------------------------------------------------------------------------
(* While a slot is locked some worker runs in it; and while jobs are parked *)
(* for it a goroutine carries one of its jobs to it, or holds it and has    *)
(* not looked at the parked jobs yet.  Callers do not count: one that gives *)
(* up takes its job away.                                                   *)
ToSlot == {"got", "running", "released", "again"}
Queued(j) == InChannel(j) + dispatchers[j] > 0
Carried(j) ==
  \E w \in Workers : (worker[w].job = j /\ worker[w].pc \in ToSlot) \/ worker[w].next = j
InMotion(j) == Queued(j) \/ Carried(j)
SlotIsHeld == \A s \in locked : \E w \in Workers : worker[w].pc = "running" /\ Slot(worker[w].job) = s
HasWaker(s) == \E j \in Jobs : Slot(j) = s /\ InMotion(j)
ParkedHaveAWaker == \A s \in Slots : parked[s] # <<>> => HasWaker(s)

LEMMA HeldStep == TokenInv /\ SlotIsHeld /\ [Next]_vars => SlotIsHeld'
<1> SUFFICES ASSUME TokenInv, SlotIsHeld, [Next]_vars PROVE SlotIsHeld'
  OBVIOUS
<1> USE DEF TokenInv
<1>1. CASE UNCHANGED <<worker, locked>>
  BY <1>1 DEF SlotIsHeld, Slot, Tier
(* A worker that does not run, and a step that locks nothing.               *)
<1>2. ASSUME NEW w \in Workers, NEW s, Goes(w, s), worker[w].pc # "running", locked' = locked
      PROVE  SlotIsHeld'
  BY <1>2, GoesTo DEF SlotIsHeld, Slot, Tier
<1>3. ASSUME NEW w \in Workers, NEW t \in Tiers, worker[w].pc # "running", Take(w, t)
      PROVE  SlotIsHeld'
  BY <1>2, <1>3, TakeDoes DEF Take
<1>4. ASSUME NEW w \in Workers, PollHigh(w) PROVE SlotIsHeld'
  <2>1. worker[w].pc # "running"
    BY <1>4 DEF PollHigh
  <2> QED
    BY <1>2, <1>3, <1>4, <2>1, PollDoes DEF Tiers
<1>5. ASSUME NEW w \in Workers, ReceiveAny(w) PROVE SlotIsHeld'
  BY <1>3, <1>5 DEF ReceiveAny
<1>6. ASSUME NEW w \in Workers, AcquireSlot(w) PROVE SlotIsHeld'
  <2>1. CASE SlotFree(JobOf(w))
    <3>1. locked' = locked \cup {Slot(JobOf(w))} /\ worker[w].pc = "got"
      BY <1>6, <2>1 DEF AcquireSlot, JobOf
    <3>2. /\ worker'[w].pc = "running" /\ worker'[w].job = JobOf(w)
          /\ \A v \in Workers \ {w} : worker'[v] = worker[v]
      <4> DEFINE r == Now("running", JobOf(w), NoJob, worker[w].ok)
      <4>1. Goes(w, r)
        BY <1>6, <2>1, AcquireDoes
      <4>2. r.pc = "running" /\ r.job = JobOf(w)
        BY DEF Now
      <4> HIDE DEF r
      <4> QED
        BY <4>1, <4>2, GoesTo
    <3> QED
      BY <3>1, <3>2 DEF SlotIsHeld, Slot, Tier
  <2>2. CASE ~SlotFree(JobOf(w))
    <3>1. locked' = locked
      BY <1>6, <2>2 DEF AcquireSlot, JobOf
    <3> QED
      BY <1>2, <1>6, <2>2, <3>1, AcquireDoes
  <2> QED
    BY <2>1, <2>2
<1>7. ASSUME NEW w \in Workers, EndRun(w) PROVE SlotIsHeld'
  <2>1. locked' = locked \ {Slot(JobOf(w))}
    BY <1>7 DEF EndRun, JobOf
  <2>2. \A v \in Workers \ {w} : worker'[v] = worker[v]
    BY <1>7, EndRunDoes, GoesTo
  <2> QED
    BY <2>1, <2>2 DEF SlotIsHeld, JobOf, Slot, Tier
<1>8. ASSUME NEW w \in Workers, PopParked(w) PROVE SlotIsHeld'
  BY <1>2, <1>8, PopDoes DEF PopParked
<1>9. ASSUME NEW w \in Workers, DispatchUnparked(w) PROVE SlotIsHeld'
  BY <1>2, <1>9, UnparkedDoes DEF DispatchUnparked
<1>10. ASSUME NEW w \in Workers, FinishJob(w) PROVE SlotIsHeld'
  BY <1>2, <1>10, FinishDoes DEF FinishJob
<1>11. ASSUME NEW w \in Workers, DispatchAgain(w) PROVE SlotIsHeld'
  BY <1>2, <1>11, AgainDoes DEF DispatchAgain
<1>12. ASSUME NEW w \in Workers, WorkerStep(w) PROVE SlotIsHeld'
  BY <1>12, <1>4, <1>5, <1>6, <1>7, <1>8, <1>9, <1>10, <1>11 DEF WorkerStep
<1> QED
  BY <1>1, <1>12
  DEF Next, vars, Request, TimerFires, CallerDispatches, CallerFindsNoRoom, CallerGivesUp,
      DispatcherSends

(* A job stays in motion while it stays in its queue, and a worker that     *)
(* goes on keeps it or queues it.                                           *)
LEMMA MotionFrame ==
  ASSUME NEW k \in Jobs, worker' = worker, Queued(k) => Queued(k)', InMotion(k)
  PROVE  InMotion(k)'
BY DEF InMotion, Carried

LEMMA MotionGoes ==
  ASSUME SlotInv, NEW w \in Workers, NEW s, Goes(w, s), NEW k \in Jobs, InMotion(k),
         \/ Queued(k)'
         \/ /\ ~Queued(k)
            /\ worker[w].job = k /\ worker[w].pc \in ToSlot => s.job = k /\ s.pc \in ToSlot
            /\ worker[w].next = k => s.next = k
  PROVE  InMotion(k)'
BY GoesTo DEF InMotion, Carried

LEMMA QueuedFrame ==
  ASSUME NEW k \in Jobs, UNCHANGED <<channel, dispatchers>> PROVE Queued(k)' = Queued(k)
BY DEF Queued, InChannel, Tier

LEMMA QueuedDispatch ==
  ASSUME SlotInv, RestTyped, NEW j \in Jobs, Dispatch(j), NEW k \in Jobs
  PROVE  (Queued(k) => Queued(k)') /\ (k = j => Queued(k)')
<1>1. /\ InChannel(k)' \in Nat /\ dispatchers'[k] \in Nat
      /\ InChannel(k)' + dispatchers'[k] = InChannel(k) + dispatchers[k] + One(j, k)
      /\ InChannel(k) \in Nat /\ dispatchers[k] \in Nat
  BY DispatchCounts, TokenTypes
<1> QED
  BY <1>1 DEF Queued, One

LEMMA QueuedTake ==
  ASSUME SlotInv, RestTyped, NEW w \in Workers, NEW t \in Tiers, Take(w, t), NEW k \in Jobs
  PROVE  k # Head(channel[t]) => Queued(k)' = Queued(k)
<1>1. InChannel(k) = InChannel(k)' + One(Head(channel[t]), k) /\ InChannel(k)' \in Nat
  BY TakeCounts DEF Take
<1>2. dispatchers' = dispatchers /\ dispatchers[k] \in Nat
  BY TokenTypes DEF Take
<1> QED
  BY <1>1, <1>2 DEF Queued, One

LEMMA QueuedSend ==
  ASSUME SlotInv, RestTyped, NEW j \in Jobs, DispatcherSends(j), NEW k \in Jobs
  PROVE  Queued(k) => Queued(k)'
<1>1. InChannel(k)' = InChannel(k) + One(j, k)
  BY AppendCounts DEF DispatcherSends
<1>2. dispatchers'[k] \in Nat /\ dispatchers[k] = dispatchers'[k] + One(j, k)
  BY DEF DispatcherSends, RestTyped, One
<1>3. InChannel(k) \in Nat
  BY TokenTypes
<1> QED
  BY <1>1, <1>2, <1>3 DEF Queued, One

LEMMA WakerStep ==
  TokenInv /\ SlotIsHeld /\ ParkedHaveAWaker /\ [Next]_vars => ParkedHaveAWaker'
<1> SUFFICES ASSUME TokenInv, SlotIsHeld, ParkedHaveAWaker, [Next]_vars,
                    NEW p \in Slots, parked'[p] # <<>>
             PROVE  HasWaker(p)'
  BY DEF ParkedHaveAWaker, Slots, Slot, Tier
<1> USE DEF TokenInv
<1> DEFINE Woken == HasWaker(p)'
(* The waker of an earlier state is one still.                              *)
<1>1. ASSUME parked'[p] = parked[p],
             \A k \in Jobs : Slot(k) = p /\ InMotion(k) => InMotion(k)'
      PROVE  Woken
  BY <1>1 DEF ParkedHaveAWaker, HasWaker, Slot, Tier
<1>2. CASE UNCHANGED <<channel, dispatchers, worker, parked>>
  BY <1>1, <1>2, MotionFrame, QueuedFrame
<1>3. ASSUME NEW c \in Callers, CallerDispatches(c) PROVE Woken
  <2>1. caller[c] \in Jobs /\ Dispatch(caller[c]) /\ worker' = worker /\ parked' = parked
    BY <1>3 DEF CallerDispatches, SlotInv, Typed
  <2> QED
    BY <1>1, <2>1, QueuedDispatch, MotionFrame
<1>4. ASSUME NEW j \in Jobs, DispatcherSends(j) PROVE Woken
  BY <1>1, <1>4, QueuedSend, MotionFrame DEF DispatcherSends
<1>5. ASSUME NEW w \in Workers, NEW t \in Tiers, worker[w].pc \in {"idle", "waiting"}, Take(w, t)
      PROVE  Woken
  <2> DEFINE h == Head(channel[t])
             s == Now("got", h, NoJob, TRUE)
  <2>1. Goes(w, s) /\ h \in Jobs
    BY <1>5, TakeDoes
  <2>2. worker[w].job = NoJob /\ worker[w].next = NoJob /\ \A k \in Jobs : k # NoJob
    BY <1>5, QueueAssumption DEF IdleHoldsNothing
  <2>3. s.job = h /\ s.pc \in ToSlot
    BY DEF Now, ToSlot
  <2>4. \A k \in Jobs : k # h => Queued(k)' = Queued(k)
    BY <1>5, QueuedTake
  <2> HIDE DEF s, h
  <2>5. ASSUME NEW k \in Jobs, InMotion(k) PROVE InMotion(k)'
    <3>1. CASE k = h
      BY <2>1, <2>3, <3>1, GoesTo DEF InMotion, Carried
    <3>2. CASE k # h
      BY <2>1, <2>2, <2>4, <2>5, <3>2, MotionGoes
    <3> QED
      BY <3>1, <3>2
  <2> QED
    BY <1>1, <1>5, <2>5 DEF Take
<1>6. ASSUME NEW w \in Workers, PollHigh(w) PROVE Woken
  <2>1. CASE Take(w, "high")
    BY <1>5, <1>6, <2>1 DEF PollHigh, Tiers
  <2>2. CASE ~Take(w, "high")
    <3> DEFINE s == Now("waiting", NoJob, NoJob, worker[w].ok)
    <3>1. Goes(w, s) /\ worker[w].pc = "idle" /\ UNCHANGED <<channel, dispatchers, parked>>
      BY <1>6, <2>2, PollDoes
    <3>2. worker[w].job = NoJob /\ worker[w].next = NoJob /\ \A k \in Jobs : k # NoJob
      BY <3>1, QueueAssumption DEF IdleHoldsNothing
    <3> HIDE DEF s
    <3> QED
      BY <1>1, <3>1, <3>2, QueuedFrame, MotionGoes
  <2> QED
    BY <2>1, <2>2
<1>7. ASSUME NEW w \in Workers, ReceiveAny(w) PROVE Woken
  BY <1>5, <1>7 DEF ReceiveAny
<1>8. ASSUME NEW w \in Workers, AcquireSlot(w) PROVE Woken
  <2> DEFINE j == JobOf(w)
  <2>1. /\ j \in Jobs /\ worker[w].next = NoJob /\ worker[w].job = j /\ worker[w].pc = "got"
        /\ UNCHANGED <<channel, dispatchers>> /\ \A k \in Jobs : k # NoJob
    BY <1>8, AcquireDoes, QueueAssumption DEF AcquireSlot, JobOf
  <2>2. CASE SlotFree(j)
    <3> DEFINE s == Now("running", j, NoJob, worker[w].ok)
    <3>1. Goes(w, s) /\ parked' = parked
      BY <1>8, <2>2, AcquireDoes DEF AcquireSlot, JobOf
    <3>2. s.job = j /\ s.pc \in ToSlot /\ s.next = NoJob
      BY DEF Now, ToSlot
    <3> HIDE DEF s
    <3> QED
      BY <1>1, <2>1, <3>1, <3>2, QueuedFrame, MotionGoes
(* Parked: whoever holds the slot is the waker.                             *)
  <2>3. CASE ~SlotFree(j)
    <3> DEFINE s == Now("idle", NoJob, NoJob, TRUE)
    <3>1. Goes(w, s) /\ parked' = [parked EXCEPT ![Slot(j)] = Append(@, j)]
      BY <1>8, <2>3, AcquireDoes DEF AcquireSlot, JobOf
    <3> HIDE DEF s
    <3>2. CASE p = Slot(j)
      <4>1. PICK v \in Workers : worker[v].pc = "running" /\ Slot(worker[v].job) = p
        BY <2>3, <3>2 DEF SlotIsHeld, SlotFree
      <4>2. v # w /\ worker[v].job \in Jobs /\ worker'[v] = worker[v]
        BY <2>1, <3>1, <4>1, GoesTo DEF SlotInv, HasJob
      <4> QED
        BY <4>1, <4>2 DEF HasWaker, InMotion, Carried, ToSlot, Slot, Tier
    <3>3. CASE p # Slot(j)
      <4>1. parked'[p] = parked[p]
        BY <3>1, <3>3 DEF SlotInv, Typed
      <4>2. ASSUME NEW k \in Jobs, Slot(k) = p, InMotion(k) PROVE InMotion(k)'
        <5>1. k # j
          BY <3>3, <4>2
        <5> QED
          BY <2>1, <3>1, <4>2, <5>1, QueuedFrame, MotionGoes
      <4> QED
        BY <1>1, <4>1, <4>2
    <3> QED
      BY <3>2, <3>3
  <2> QED
    BY <2>2, <2>3
<1>9. ASSUME NEW w \in Workers, EndRun(w) PROVE Woken
  <2>1. PICK ok \in BOOLEAN : Goes(w, Now("released", JobOf(w), NoJob, ok))
    BY <1>9, EndRunDoes
  <2> DEFINE s == Now("released", JobOf(w), NoJob, ok)
  <2>2. s.job = worker[w].job /\ s.pc \in ToSlot /\ s.next = NoJob
    BY DEF Now, ToSlot, JobOf
  <2>3. Goes(w, s)
    BY <2>1
  <2>4. worker[w].next = NoJob /\ UNCHANGED <<channel, dispatchers, parked>>
    BY <1>9, EndRunDoes DEF EndRun
  <2> HIDE DEF s
  <2> QED
    BY <1>1, <2>2, <2>3, <2>4, QueuedFrame, MotionGoes
<1>10. ASSUME NEW w \in Workers, PopParked(w) PROVE Woken
  <2> DEFINE q == Slot(JobOf(w))
             h == Head(parked[q])
             s == Now("unparked", JobOf(w), h, worker[w].ok)
             r == Now("finishing", JobOf(w), NoJob, worker[w].ok)
  <2>1. /\ worker[w].next = NoJob /\ worker[w].job = JobOf(w) /\ q \in Slots
        /\ UNCHANGED <<channel, dispatchers>> /\ \A k \in Jobs : k # NoJob
    BY <1>10, PopDoes, QueueAssumption DEF PopParked, JobOf
  <2>2. CASE parked[q] = <<>> /\ parked' = parked /\ Goes(w, r)
    <3>1. p # q
      BY <2>2
    <3> HIDE DEF r
    <3>2. ASSUME NEW k \in Jobs, Slot(k) = p, InMotion(k) PROVE InMotion(k)'
      <4>1. k # worker[w].job
        BY <2>1, <3>1, <3>2
      <4> QED
        BY <2>1, <2>2, <3>2, <4>1, QueuedFrame, MotionGoes
    <3> QED
      BY <1>1, <2>2, <3>2
  <2>3. CASE /\ parked' = [parked EXCEPT ![q] = Tail(@)] /\ Goes(w, s)
             /\ h \in Jobs /\ Slot(h) = q
    <3>0. s.next = h
      BY DEF Now
    <3> HIDE DEF s
    <3>1. CASE p = q
      <4>1. worker'[w].next = h
        BY <2>3, <3>0, GoesTo
      <4> QED
        BY <2>3, <3>1, <4>1 DEF HasWaker, InMotion, Carried, Slot, Tier
    <3>2. CASE p # q
      <4>1. parked'[p] = parked[p]
        BY <2>3, <3>2 DEF SlotInv, Typed
      <4>2. ASSUME NEW k \in Jobs, Slot(k) = p, InMotion(k) PROVE InMotion(k)'
        <5>1. k # worker[w].job
          BY <2>1, <3>2, <4>2
        <5> QED
          BY <2>1, <2>3, <4>2, <5>1, QueuedFrame, MotionGoes
      <4> QED
        BY <1>1, <4>1, <4>2
    <3> QED
      BY <3>1, <3>2
  <2> QED
    BY <1>10, <2>2, <2>3, PopDoes
<1>11. ASSUME NEW w \in Workers, DispatchUnparked(w) PROVE Woken
  <2> DEFINE n == worker[w].next
             s == Now("finishing", JobOf(w), NoJob, worker[w].ok)
  <2>1. /\ n \in Jobs /\ Dispatch(n) /\ Goes(w, s) /\ worker[w].pc = "unparked"
        /\ parked' = parked
    BY <1>11, UnparkedDoes DEF DispatchUnparked
  <2>2. worker[w].pc \notin ToSlot
    BY <2>1 DEF ToSlot
  <2>3. \A k \in Jobs : (Queued(k) => Queued(k)') /\ (k = n => Queued(k)')
    BY <2>1, QueuedDispatch
  <2> HIDE DEF s
  <2> QED
    BY <1>1, <2>1, <2>2, <2>3, MotionGoes
<1>12. ASSUME NEW w \in Workers, FinishJob(w) PROVE Woken
  <2>1. /\ worker[w].pc = "finishing" /\ worker[w].next = NoJob /\ \A k \in Jobs : k # NoJob
        /\ UNCHANGED <<channel, dispatchers, parked>>
    BY <1>12, FinishDoes, QueueAssumption DEF FinishJob
  <2>2. PICK s : Goes(w, s)
    BY <1>12, FinishDoes
  <2>3. worker[w].pc \notin ToSlot
    BY <2>1 DEF ToSlot
  <2> QED
    BY <1>1, <2>1, <2>2, <2>3, QueuedFrame, MotionGoes
<1>13. ASSUME NEW w \in Workers, DispatchAgain(w) PROVE Woken
  <2>1. PICK s : Goes(w, s)
    BY <1>13, AgainDoes
  <2>2. /\ JobOf(w) \in Jobs /\ worker[w].job = JobOf(w) /\ worker[w].next = NoJob
        /\ Dispatch(JobOf(w)) /\ parked' = parked /\ \A k \in Jobs : k # NoJob
    BY <1>13, AgainDoes, QueueAssumption DEF DispatchAgain, JobOf
  <2>3. \A k \in Jobs : (Queued(k) => Queued(k)') /\ (k = JobOf(w) => Queued(k)')
    BY <2>2, QueuedDispatch
  <2> QED
    BY <1>1, <2>1, <2>2, <2>3, MotionGoes
<1>14. ASSUME NEW w \in Workers, WorkerStep(w) PROVE Woken
  BY <1>14, <1>6, <1>7, <1>8, <1>9, <1>10, <1>11, <1>12, <1>13 DEF WorkerStep
<1> QED
  BY <1>2, <1>3, <1>4, <1>14
  DEF Next, vars, Request, TimerFires, CallerFindsNoRoom, CallerGivesUp

-----------------------------------------------------------------------------
(* Accepted requests: a job that is owed a run has not started it, or is    *)
(* marked for another one.                                                  *)
InRun == {"running", "released", "unparked", "finishing"}
Started(j) == \E w \in Workers : worker[w].job = j /\ worker[w].pc \in InRun

LEMMA HeldMeans ==
  /\ AcceptedRequestsAreHeld
       <=> \A j \in owed \ abandoned :
             pending[j] = "rerun" \/ (pending[j] = "yes" /\ ~Started(j))
  /\ AcceptedRequestsAreHeld'
       <=> \A j \in owed' \ abandoned' :
             pending'[j] = "rerun" \/ (pending'[j] = "yes" /\ ~Started(j)')
BY DEF AcceptedRequestsAreHeld, Started, InRun

LEMMA StartedGoes ==
  ASSUME SlotInv, NEW w \in Workers, NEW s, Goes(w, s), NEW k,
         s.job = k /\ s.pc \in InRun => worker[w].job = k /\ worker[w].pc \in InRun
  PROVE  Started(k)' => Started(k)
BY GoesTo DEF Started

LEMMA StartedFrame == ASSUME worker' = worker, NEW k PROVE Started(k)' = Started(k)
BY DEF Started

LEMMA AcceptedStep ==
  TokenInv /\ AcceptedRequestsAreHeld /\ [Next]_vars => AcceptedRequestsAreHeld'
<1> SUFFICES ASSUME TokenInv, AcceptedRequestsAreHeld, [Next]_vars,
                    NEW k \in owed' \ abandoned'
             PROVE  pending'[k] = "rerun" \/ (pending'[k] = "yes" /\ ~Started(k)')
  BY HeldMeans
<1> USE DEF TokenInv
<1> DEFINE Held == pending'[k] = "rerun" \/ (pending'[k] = "yes" /\ ~Started(k)')
<1>0. /\ k \in owed \ abandoned
           => pending[k] = "rerun" \/ (pending[k] = "yes" /\ ~Started(k))
      /\ pending \in [Jobs -> {"no", "yes", "rerun"}]
      /\ owed \subseteq Jobs
  BY HeldMeans DEF RestTyped
(* What was held is held if nothing starts and its entry stays.             *)
<1>1. ASSUME k \in owed \ abandoned, pending'[k] = pending[k], Started(k)' => Started(k)
      PROVE  Held
  BY <1>0, <1>1
<1>2. CASE UNCHANGED <<worker, owed, abandoned, pending>>
  BY <1>1, <1>2, StartedFrame
<1>3. ASSUME NEW c \in Callers, NEW j \in Jobs, Enter(c, j), UNCHANGED <<worker, abandoned>>
      PROVE  Held
  <2>1. CASE k = j
    <3>1. CASE pending[j] = "no"
      <4>1. pending'[k] = "yes" /\ ~Started(k)'
        BY <1>0, <1>3, <2>1, <3>1, TokenIsUnique, StartedFrame DEF Enter, Started
      <4> QED
        BY <4>1
    <3>2. CASE pending[j] # "no"
      BY <1>0, <1>3, <2>1, <3>2 DEF Enter
    <3> QED
      BY <3>1, <3>2
  <2>2. CASE k # j
    <3>1. k \in owed \ abandoned /\ pending'[k] = pending[k]
      BY <1>0, <1>3, <2>2 DEF Enter
    <3> QED
      BY <1>1, <1>3, <3>1, StartedFrame
  <2> QED
    BY <2>1, <2>2
<1>4. ASSUME NEW c \in Callers, NEW j \in Jobs, Request(c, j) \/ TimerFires(c, j) PROVE Held
  BY <1>3, <1>4 DEF Request, TimerFires
<1>5. ASSUME NEW c \in Callers, CallerGivesUp(c) PROVE Held
  <2> DEFINE j == caller[c]
  <2>1. /\ j \in Jobs /\ pending[j] # "no" /\ worker' = worker
        /\ pending' = [pending EXCEPT ![j] = "no"]
    BY <1>5, TokenIsUnique DEF CallerGivesUp, SlotInv, Typed
  <2>2. k \in owed \ abandoned /\ k # j
    <3>1. CASE pending[j] = "rerun"
      BY <1>5, <3>1 DEF CallerGivesUp
    <3>2. CASE pending[j] # "rerun"
      BY <1>5, <3>2 DEF CallerGivesUp
    <3> QED
      BY <3>1, <3>2
  <2>3. pending'[k] = pending[k]
    BY <1>0, <2>1, <2>2
  <2> QED
    BY <1>1, <2>1, <2>2, <2>3, StartedFrame
<1>6. ASSUME NEW w \in Workers, NEW t \in Tiers, Take(w, t) PROVE Held
  <2> DEFINE s == Now("got", Head(channel[t]), NoJob, TRUE)
  <2>1. Goes(w, s) /\ UNCHANGED <<owed, abandoned, pending>>
    BY <1>6, TakeDoes DEF Take
  <2>2. s.pc \notin InRun
    BY DEF Now, InRun
  <2> HIDE DEF s
  <2> QED
    BY <1>1, <2>1, <2>2, StartedGoes
<1>7. ASSUME NEW w \in Workers, PollHigh(w) PROVE Held
  <2>1. CASE ~Take(w, "high")
    <3> DEFINE s == Now("waiting", NoJob, NoJob, worker[w].ok)
    <3>1. Goes(w, s) /\ UNCHANGED <<owed, abandoned, pending>>
      BY <1>7, <2>1, PollDoes
    <3>2. s.pc \notin InRun
      BY DEF Now, InRun
    <3> HIDE DEF s
    <3> QED
      BY <1>1, <3>1, <3>2, StartedGoes
  <2> QED
    BY <1>6, <2>1 DEF Tiers
<1>8. ASSUME NEW w \in Workers, ReceiveAny(w) PROVE Held
  BY <1>6, <1>8 DEF ReceiveAny
<1>9. ASSUME NEW w \in Workers, AcquireSlot(w) PROVE Held
  <2> DEFINE j == JobOf(w)
  <2>1. pending' = pending
    BY <1>9 DEF AcquireSlot
  <2>2. CASE SlotFree(j)
    <3> DEFINE s == Now("running", j, NoJob, worker[w].ok)
    <3>1. Goes(w, s) /\ owed' = owed \ {j} /\ abandoned' = abandoned \ {j}
      BY <1>9, <2>2, AcquireDoes DEF AcquireSlot, JobOf
    <3>2. s.job = j
      BY DEF Now
    <3>3. k # j /\ k \in owed \ abandoned
      BY <3>1
    <3> HIDE DEF s
    <3> QED
      BY <1>1, <2>1, <3>1, <3>2, <3>3, StartedGoes
  <2>3. CASE ~SlotFree(j)
    <3> DEFINE s == Now("idle", NoJob, NoJob, TRUE)
    <3>1. Goes(w, s) /\ UNCHANGED <<owed, abandoned>>
      BY <1>9, <2>3, AcquireDoes DEF AcquireSlot, JobOf
    <3>2. s.pc \notin InRun
      BY DEF Now, InRun
    <3> HIDE DEF s
    <3> QED
      BY <1>1, <2>1, <3>1, <3>2, StartedGoes
  <2> QED
    BY <2>2, <2>3
(* A worker on its way through a run starts nothing.                        *)
<1>10. ASSUME NEW w \in Workers, NEW s, Goes(w, s), s.job = worker[w].job,
              worker[w].pc \in InRun, UNCHANGED <<owed, abandoned, pending>>
       PROVE  Held
  BY <1>1, <1>10, StartedGoes
<1>11. ASSUME NEW w \in Workers, EndRun(w) PROVE Held
  <2>1. PICK ok \in BOOLEAN : Goes(w, Now("released", JobOf(w), NoJob, ok))
    BY <1>11, EndRunDoes
  <2>2. worker[w].pc \in InRun /\ UNCHANGED <<owed, abandoned, pending>>
    BY <1>11 DEF EndRun, InRun
  <2> QED
    BY <1>10, <2>1, <2>2 DEF Now, JobOf
<1>12. ASSUME NEW w \in Workers, PopParked(w) PROVE Held
  <2>1. worker[w].pc \in InRun /\ UNCHANGED <<owed, abandoned, pending>>
    BY <1>12 DEF PopParked, InRun
  <2>2. PICK s : Goes(w, s) /\ s.job = worker[w].job
    <3> DEFINE r == Now("finishing", JobOf(w), NoJob, worker[w].ok)
               u == Now("unparked", JobOf(w), Head(parked[Slot(JobOf(w))]), worker[w].ok)
    <3>1. Goes(w, r) \/ Goes(w, u)
      BY <1>12, PopDoes
    <3>2. r.job = worker[w].job /\ u.job = worker[w].job
      BY DEF Now, JobOf
    <3> HIDE DEF r, u
    <3> QED
      BY <3>1, <3>2
  <2> QED
    BY <1>10, <2>1, <2>2
<1>13. ASSUME NEW w \in Workers, DispatchUnparked(w) PROVE Held
  <2>1. worker[w].pc \in InRun /\ UNCHANGED <<owed, abandoned, pending>>
    BY <1>13 DEF DispatchUnparked, InRun
  <2>2. PICK s : Goes(w, s) /\ s.job = worker[w].job
    <3> DEFINE r == Now("finishing", JobOf(w), NoJob, worker[w].ok)
    <3>1. Goes(w, r)
      BY <1>13, UnparkedDoes
    <3>2. r.job = worker[w].job
      BY DEF Now, JobOf
    <3> HIDE DEF r
    <3> QED
      BY <3>1, <3>2
  <2> QED
    BY <1>10, <2>1, <2>2
<1>14. ASSUME NEW w \in Workers, FinishJob(w) PROVE Held
  <2> DEFINE j == JobOf(w)
  <2>1. /\ j \in Jobs /\ worker[w].job = j /\ worker[w].pc = "finishing"
        /\ UNCHANGED <<owed, abandoned>>
    BY <1>14, FinishDoes DEF FinishJob, JobOf
  <2>2. PICK s : Goes(w, s) /\ s.pc \notin InRun
    <3> DEFINE i == Now("idle", NoJob, NoJob, TRUE)
               a == Now("again", j, NoJob, worker[w].ok)
    <3>1. Goes(w, i) \/ Goes(w, a)
      BY <1>14, FinishDoes
    <3>2. i.pc \notin InRun /\ a.pc \notin InRun
      BY DEF Now, InRun
    <3> HIDE DEF i, a
    <3> QED
      BY <3>1, <3>2
  <2>3. CASE k = j
    <3>1. pending[j] = "rerun"
      BY <1>0, <2>1, <2>3 DEF Started, InRun
    <3>2. pending'[j] = "yes"
      BY <1>0, <1>14, <2>1, <3>1 DEF FinishJob
    <3>3. \A v \in Workers : worker[v].job = k => v = w
      BY <2>1, <2>3, TokenIsUnique
    <3>4. ~Started(k)'
      BY <2>2, <3>3, GoesTo DEF Started
    <3> QED
      BY <2>3, <3>2, <3>4
  <2>4. CASE k # j
    <3>1. pending'[k] = pending[k]
      BY <1>0, <1>14, <2>1, <2>4 DEF FinishJob
    <3> QED
      BY <1>1, <2>1, <2>2, <3>1, StartedGoes
  <2> QED
    BY <2>3, <2>4
<1>15. ASSUME NEW w \in Workers, DispatchAgain(w) PROVE Held
  <2> DEFINE s == Now("idle", NoJob, NoJob, TRUE)
  <2>1. Goes(w, s) /\ UNCHANGED <<owed, abandoned, pending>>
    BY <1>15, AgainDoes DEF DispatchAgain
  <2>2. s.pc \notin InRun
    BY DEF Now, InRun
  <2> HIDE DEF s
  <2> QED
    BY <1>1, <2>1, <2>2, StartedGoes
<1>16. ASSUME NEW w \in Workers, WorkerStep(w) PROVE Held
  BY <1>16, <1>7, <1>8, <1>9, <1>11, <1>12, <1>13, <1>14, <1>15 DEF WorkerStep
<1> QED
  BY <1>2, <1>4, <1>5, <1>16 DEF Next, vars, CallerDispatches, CallerFindsNoRoom, DispatcherSends

-----------------------------------------------------------------------------
(* Retries: a failing job is in the map or has a timer.  A caller that may  *)
(* give up does not hold the only hope of one: while its entry carries no   *)
(* rerun, the timer is still running.                                       *)
Owing == failing \ (Gone \cup abandoned)
WaitingRetryIsKept ==
  \A c \in Impatient, j \in Owing : caller[c] = j /\ pending[j] = "yes" => timers[j] > 0

RetryInv == FailingJobsAreRetried /\ WaitingRetryIsKept

LEMMA RetryMeans ==
  /\ RetryInv <=> \A j \in Owing :
       /\ pending[j] # "no" \/ timers[j] > 0
       /\ \A c \in Impatient : caller[c] = j /\ pending[j] = "yes" => timers[j] > 0
  /\ RetryInv' <=> \A j \in Owing' :
       /\ pending'[j] # "no" \/ timers'[j] > 0
       /\ \A c \in Impatient : caller'[c] = j /\ pending'[j] = "yes" => timers'[j] > 0
BY DEF RetryInv, FailingJobsAreRetried, WaitingRetryIsKept, Owing

LEMMA RetryStep == TokenInv /\ RetryInv /\ [Next]_vars => RetryInv'
<1> SUFFICES ASSUME TokenInv, RetryInv, [Next]_vars, NEW k \in Owing'
             PROVE  /\ pending'[k] # "no" \/ timers'[k] > 0
                    /\ \A c \in Impatient :
                         caller'[c] = k /\ pending'[k] = "yes" => timers'[k] > 0
  BY RetryMeans
<1> USE DEF TokenInv
<1> DEFINE Fine == /\ pending'[k] # "no" \/ timers'[k] > 0
                   /\ \A c \in Impatient :
                        caller'[c] = k /\ pending'[k] = "yes" => timers'[k] > 0
<1>0. /\ k \in Owing =>
           /\ pending[k] # "no" \/ timers[k] > 0
           /\ \A c \in Impatient : caller[c] = k /\ pending[k] = "yes" => timers[k] > 0
      /\ pending \in [Jobs -> {"no", "yes", "rerun"}]
      /\ timers \in [Jobs -> Nat] /\ caller \in [Callers -> Jobs \cup {NoJob}]
      /\ Impatient \subseteq Callers
  BY RetryMeans, QueueAssumption DEF RestTyped, SlotInv, Typed
<1>k. k \in Jobs /\ k # NoJob
  BY RestTypedStep, QueueAssumption DEF Owing, RestTyped
<1>1. ASSUME k \in Owing, pending'[k] = pending[k], timers'[k] = timers[k],
             \A c \in Impatient : caller'[c] = k => caller[c] = k
      PROVE  Fine
  BY <1>0, <1>1
<1>2. CASE UNCHANGED <<pending, failing, timers, abandoned, caller>>
  BY <1>1, <1>2 DEF Owing
<1>3. ASSUME NEW c \in Callers, NEW j \in Jobs, Enter(c, j), UNCHANGED <<failing, abandoned>>,
             \/ timers' = timers
             \/ c \notin Impatient /\ timers' = [timers EXCEPT ![j] = @ - 1]
      PROVE  Fine
  <2>1. k \in Owing
    BY <1>3 DEF Owing
  <2>2. CASE k # j
    BY <1>0, <1>1, <1>3, <1>k, <2>1, <2>2 DEF Enter
  <2>3. CASE k = j /\ pending[j] # "no"
    BY <1>0, <1>3, <1>k, <2>3 DEF Enter
  <2>4. CASE k = j /\ pending[j] = "no"
    <3>1. /\ pending'[k] = "yes" /\ timers[k] > 0 /\ \A d \in Callers : caller[d] # k
          /\ caller' = [caller EXCEPT ![c] = j]
      BY <1>0, <1>3, <1>k, <2>1, <2>4, TokenIsUnique DEF Enter
    <3> QED
      BY <1>0, <1>3, <3>1
  <2> QED
    BY <2>2, <2>3, <2>4
<1>4. ASSUME NEW c \in Callers, NEW j \in Jobs, Request(c, j) \/ TimerFires(c, j) PROVE Fine
  BY <1>3, <1>4 DEF Request, TimerFires
<1>5. ASSUME NEW c \in Callers, CallerDispatches(c) PROVE Fine
  BY <1>0, <1>1, <1>5, <1>k DEF CallerDispatches, Owing
<1>6. ASSUME NEW c \in Callers, CallerGivesUp(c) PROVE Fine
  <2> DEFINE j == caller[c]
  <2>1. /\ j \in Jobs /\ c \in Impatient /\ pending[j] # "no" /\ timers' = timers
        /\ failing' = failing /\ pending' = [pending EXCEPT ![j] = "no"]
        /\ caller' = [caller EXCEPT ![c] = NoJob]
    BY <1>0, <1>6, TokenIsUnique DEF CallerGivesUp, RestTyped
  <2>2. CASE k = j
    <3>1. pending[j] # "rerun" /\ abandoned' = abandoned
      BY <1>6, <2>2 DEF CallerGivesUp, Owing
    <3>2. k \in Owing /\ pending[j] = "yes"
      BY <1>0, <2>1, <3>1 DEF Owing
    <3>3. timers[k] > 0
      BY <1>0, <2>1, <2>2, <3>2
    <3> QED
      BY <2>1, <3>3
  <2>3. CASE k # j
    <3>1. k \in Owing
      BY <1>6, <2>1, <2>3 DEF CallerGivesUp, Owing
    <3> QED
      BY <1>0, <1>1, <1>k, <2>1, <2>3, <3>1
  <2> QED
    BY <2>2, <2>3
<1>7. ASSUME NEW w \in Workers, AcquireSlot(w) PROVE Fine
  <2>1. UNCHANGED <<pending, failing, timers, caller>>
    BY <1>7 DEF AcquireSlot
  <2>2. CASE k \in Owing
    BY <1>1, <2>1, <2>2
(* The abandoned job itself runs again: it is in the map, by its token.     *)
  <2>3. CASE k \notin Owing
    <3>1. k = JobOf(w)
      BY <1>7, <2>1, <2>3 DEF AcquireSlot, Owing, JobOf
    <3> QED
      BY <1>0, <1>k, <2>1, <3>1, TokenIsUnique DEF JobOf
  <2> QED
    BY <2>2, <2>3
<1>8. ASSUME NEW w \in Workers, FinishJob(w) PROVE Fine
  <2> DEFINE j == JobOf(w)
  <2>1. /\ j \in Jobs /\ worker[w].job = j /\ UNCHANGED <<abandoned, caller>>
        /\ failing' = IF worker[w].ok THEN failing \ {j} ELSE failing \cup {j}
    BY <1>8, FinishDoes DEF FinishJob, JobOf
  <2>2. CASE k = j
    <3>1. ~worker[w].ok /\ k \notin Gone
      BY <2>1, <2>2 DEF Owing
    <3>2. \A c \in Callers : caller[c] # k
      BY <2>1, <2>2, TokenIsUnique
    <3>3. pending'[k] # "no" \/ timers'[k] > 0
      <4>1. CASE pending[j] = "rerun"
        BY <1>0, <1>8, <2>1, <2>2, <4>1 DEF FinishJob
      <4>2. CASE pending[j] # "rerun"
        <5>1. timers' = [timers EXCEPT ![j] = @ + 1]
          BY <1>8, <2>1, <2>2, <3>1, <4>2 DEF FinishJob, Retried
        <5> QED
          BY <1>0, <2>1, <2>2, <5>1
      <4> QED
        BY <4>1, <4>2
    <3> QED
      BY <1>0, <2>1, <3>2, <3>3
  <2>3. CASE k # j
    <3>1. k \in Owing
      BY <2>1, <2>3 DEF Owing
    <3>2. pending'[k] = pending[k] /\ timers'[k] = timers[k]
      BY <1>0, <1>8, <1>k, <2>1, <2>3 DEF FinishJob
    <3> QED
      BY <1>1, <2>1, <3>1, <3>2
  <2> QED
    BY <2>2, <2>3
<1>9. ASSUME NEW w \in Workers, WorkerStep(w) PROVE Fine
  BY <1>2, <1>7, <1>8, <1>9
  DEF WorkerStep, PollHigh, ReceiveAny, Take, EndRun, PopParked, DispatchUnparked, DispatchAgain
<1> QED
  BY <1>2, <1>4, <1>5, <1>6, <1>9
  DEF Next, vars, CallerFindsNoRoom, DispatcherSends

-----------------------------------------------------------------------------
(* The invariant of the queue.                                              *)
QueueInv ==
  /\ TokenInv /\ TimersBounded
  /\ SlotIsHeld /\ ParkedHaveAWaker
  /\ AcceptedRequestsAreHeld /\ RetryInv

LEMMA QueueInit == Init => QueueInv
<1> SUFFICES ASSUME Init PROVE QueueInv
  OBVIOUS
<1>1. SlotInv
  BY SlotInit
<1>2. RestTyped
  BY QueueAssumption DEF Init, RestTyped
<1>3. \A w \in Workers : /\ worker[w].job = NoJob /\ worker[w].next = NoJob
                         /\ worker[w].pc = "idle"
  BY DEF Init, IdleWorker
<1>4. IdleHoldsNothing /\ SlotIsHeld /\ TimersBounded
  BY <1>3 DEF Init, IdleHoldsNothing, SlotIsHeld, TimersBounded, FailedRun
<1>5. ParkedHaveAWaker /\ AcceptedRequestsAreHeld /\ RetryInv
  BY DEF Init, ParkedHaveAWaker, AcceptedRequestsAreHeld, RetryInv, FailingJobsAreRetried,
         WaitingRetryIsKept, Owing
<1>6. ASSUME NEW j \in Jobs PROVE Tokens(j) = IF pending[j] = "no" THEN 0 ELSE 1
  <2>1. j # NoJob /\ Tier(j) \in Tiers /\ Slot(j) \in Slots
    BY QueueAssumption, JobPlaces
  <2>2. /\ {c \in Callers : caller[c] = j} = {}
        /\ {w \in Workers : worker[w].job = j} = {}
        /\ {w \in Workers : worker[w].next = j} = {}
    BY <1>3, <2>1 DEF Init
  <2>3. CallersWith(j) = 0 /\ WorkersWith(j) = 0 /\ WorkersNext(j) = 0
    BY <2>2, FS_EmptySet DEF CallersWith, WorkersWith, WorkersNext
  <2>4. InChannel(j) = 0 /\ InParked(j) = 0 /\ dispatchers[j] = 0 /\ pending[j] = "no"
    BY <2>1, OccurrencesOfNone DEF Init, InChannel, InParked
  <2> QED
    BY <1>1, <1>2, <2>3, <2>4, TokenTypes
<1> QED
  BY <1>1, <1>2, <1>4, <1>5, <1>6 DEF QueueInv, TokenInv, OneTokenPerPendingJob

LEMMA QueueStep == QueueInv /\ [Next]_vars => QueueInv'
<1> SUFFICES ASSUME QueueInv, [Next]_vars PROVE QueueInv'
  OBVIOUS
<1>1. TokenInv /\ SlotInv
  BY DEF QueueInv, TokenInv
<1>2. TokenInv'
  BY <1>1, SlotStep, RestTypedStep, IdleStep, OneTokenStep DEF TokenInv
<1> QED
  BY <1>1, <1>2, TimersStep, HeldStep, WakerStep, AcceptedStep, RetryStep DEF QueueInv

THEOREM QueueIsSound == Spec => []QueueInv
BY QueueInit, QueueStep, PTL DEF Spec

(* Every variable keeps its type; in particular no channel is ever longer   *)
(* than its capacity and there are no more retry timers than failed runs.   *)
THEOREM QueueTypes == Spec => []TypeOK
<1>1. QueueInv => TypeOK
  <2> SUFFICES ASSUME QueueInv PROVE TypeOK
    OBVIOUS
  <2>1. SlotInv /\ RestTyped /\ TimersBounded
    BY DEF QueueInv, TokenInv
  <2>2. timers \in [Jobs -> 0..MaxFailures]
    BY <2>1, QueueAssumption DEF RestTyped, TimersBounded
  <2> QED
    BY <2>1, <2>2 DEF SlotInv, Typed, RestTyped, TypeOK, WorkerStates, WorkerPCs
<1> QED
  BY <1>1, QueueIsSound, PTL

(* sync.go:74-77: the pending map is the record of what is in the system.   *)
(* However callers, dispatchers, workers and timers interleave, a job in it *)
(* is carried by exactly one of them and any other job by none.             *)
THEOREM OneToken == Spec => []OneTokenPerPendingJob
<1>1. QueueInv => OneTokenPerPendingJob
  BY DEF QueueInv, TokenInv
<1> QED
  BY <1>1, QueueIsSound, PTL

(* acquireSyncSlot and releaseSyncSlot lose no wake-up between TryLock-or-  *)
(* park and unlock-then-pop: while jobs are parked for a slot, another job  *)
(* of that slot is going to release it.                                     *)
THEOREM ParkedAreWoken == Spec => []ParkedJobsAreWoken
<1>1. QueueInv => ParkedJobsAreWoken
  <2> SUFFICES ASSUME QueueInv, NEW s \in Slots, parked[s] # <<>>
               PROVE  \E j \in Jobs : Slot(j) = s /\ OnItsWay(j)
    BY DEF ParkedJobsAreWoken
  <2>1. PICK j \in Jobs : Slot(j) = s /\ InMotion(j)
    BY DEF QueueInv, ParkedHaveAWaker, HasWaker
  <2>2. InChannel(j) \in Nat /\ dispatchers[j] \in Nat
    BY TokenTypes DEF QueueInv, TokenInv
  <2>3. Queued(j) => dispatchers[j] > 0 \/ Occurrences(j, channel[Tier(j)]) > 0
    BY <2>2 DEF Queued, InChannel
  <2>4. OnItsWay(j)
    BY <2>1, <2>3 DEF InMotion, Carried, ToSlot, OnItsWay
  <2> QED
    BY <2>1, <2>4
<1> QED
  BY <1>1, QueueIsSound, PTL

(* A request that enqueueSync accepted is owed a run that starts after it:  *)
(* it is never folded into a run that is already going without the rerun    *)
(* mark, and no mark is lost when that run ends.                            *)
THEOREM AcceptedAreHeld == Spec => []AcceptedRequestsAreHeld
<1>1. QueueInv => AcceptedRequestsAreHeld
  BY DEF QueueInv
<1> QED
  BY <1>1, QueueIsSound, PTL

(* A failing job whose account and folder exist is in the map or has a      *)
(* retry timer, unless a caller that gave up abandoned it.                  *)
THEOREM FailingAreRetried == Spec => []FailingJobsAreRetried
<1>1. QueueInv => FailingJobsAreRetried
  BY DEF QueueInv, RetryInv
<1> QED
  BY <1>1, QueueIsSound, PTL
=============================================================================
