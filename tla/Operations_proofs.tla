------------------------- MODULE Operations_proofs -------------------------
(***************************************************************************)
(* Mail operations, for any finite set of mails, any server and any number *)
(* of operations, passes, foreign changes and restarts: an operation only  *)
(* touches the mails it was asked for, what failed or was undone touched    *)
(* nothing, rows name the mail their UID stands for, no move loses a mail,  *)
(* a success is complete, and operations follow OperationLifecycle.         *)
(***************************************************************************)
EXTENDS Operations, FiniteSetTheorems, FunctionTheorems, TLAPS

(* The types of the variables.  Rows and copies have UIDs above 0, and the  *)
(* finite tables are what makes their UIDs and numbers countable.           *)
Messages == Mails \X (Nat \ {0})
Copies == [folder : Folders, uid : Nat \ {0}, mail : Mails]
Rows == [msg : Messages, folder : Folders, validity : 1..MaxValidity, uid : Nat \ {0}]
Moves == [uid : Nat \ {0}, to : Nat \ {0}, validity : 1..MaxValidity]
Statuses == {"none", "queued", "running", "succeeded", "failed", "cancelled", "unknown",
             "needs_attention"}
TargetSets == {T \in SUBSET Messages : IsFiniteSet(T)}
OpStates == [status : Statuses, kind : {"flag", "archive", "move", "trash", "delete"},
             targets : TargetSets, to : Folders, window : BOOLEAN]
WorkerPCs == {"idle", "claimed", "select", "selected", "copied", "commit", "finish"}
WorkerStates ==
  [pc : WorkerPCs, op : 0..MaxOps, chosen : SUBSET Rows, todo : SUBSET Rows,
   group : SUBSET Rows, session : 0..MaxValidity, strategy : {"none", "move", "copy"},
   moved : SUBSET Moves, committed : BOOLEAN,
   outcome : {"none", "succeeded", "failed", "unknown", "needs_attention"}]
PassPCs == {"idle", "read", "selected", "prepared", "listed", "stored"}
PassStates ==
  [pc : PassPCs, folder : Folders, pending : SUBSET Ops, validity : 0..MaxValidity, next : Nat,
   listed : SUBSET Copies]

ServerTyped ==
  /\ remote \subseteq Copies /\ IsFiniteSet(remote)
  /\ validity \in [Folders -> 1..MaxValidity] /\ nextUID \in [Folders -> Nat \ {0}]
TablesTyped ==
  /\ checkpoint \in [Folders -> 1..MaxValidity]
  /\ messages \subseteq Messages /\ IsFiniteSet(messages)
  /\ locations \subseteq Rows /\ \A r \in locations : r.msg \in messages
OpsTyped == op \in [Ops -> OpStates] /\ ready \in Seq(Ops)
HistoryTyped == touched \in [Ops -> SUBSET Mails] /\ removed \subseteq Mails
BoundsTyped ==
  /\ passes \in 0..MaxPasses /\ events \in 0..MaxEvents /\ faults \in 0..MaxFaults
Typed ==
  /\ ServerTyped /\ TablesTyped /\ OpsTyped /\ worker \in WorkerStates /\ pass \in PassStates
  /\ HistoryTyped /\ BoundsTyped

(* A UID below UIDNEXT stands for one copy of its folder.                   *)
UniqueUIDs ==
  /\ \A c \in remote : c.uid < nextUID[c.folder]
  /\ \A c, d \in remote : c.folder = d.folder /\ c.uid = d.uid => c = d

(* What the worker holds: an operation that runs (or that a rebuild took    *)
(* away), and rows of its targets, a group of which is of one folder and of *)
(* the UIDVALIDITY the session was opened under.                            *)
Busy ==
  /\ worker.pc = "idle" => worker = IdleWorker
  /\ worker.pc # "idle" => worker.op \in Ops /\ Current.status \in {"running", "needs_attention"}
  /\ worker.todo \subseteq worker.chosen /\ worker.group \subseteq worker.chosen
  /\ \A r \in worker.chosen :
       r.msg \in Current.targets /\ (Current.kind = "delete" => r.folder = "trash")
  /\ worker.pc \in {"selected", "copied", "commit"} =>
       \A q, r \in worker.group : q.folder = r.folder /\ r.validity = worker.session
  /\ worker.pc = "copied" => Moving
  /\ worker.pc = "claimed" => ~worker.committed /\ worker.group = {}
  /\ worker.pc = "finish" => worker.outcome # "none"

-----------------------------------------------------------------------------
(* Counting.  Rank numbers copies with distinct UIDs from 0, in the order   *)
(* of their UIDs.                                                           *)
LEMMA RankFacts ==
  ASSUME NEW S \in SUBSET Copies, IsFiniteSet(S),
         \A c, d \in S : c.uid = d.uid => c = d
  PROVE  /\ Cardinality(S) \in Nat
         /\ \A c \in S : Rank(c, S) \in Nat /\ Rank(c, S) < Cardinality(S)
         /\ \A c, d \in S : Rank(c, S) = Rank(d, S) => c = d
<1> DEFINE Below(c) == {d \in S : d.uid < c.uid}
<1>1. Cardinality(S) \in Nat
  BY FS_CardinalityType
<1>2. ASSUME NEW c \in S
      PROVE  IsFiniteSet(Below(c)) /\ Cardinality(Below(c)) \in Nat /\ c \notin Below(c)
  <2>1. Below(c) \in SUBSET S /\ c \notin Below(c)
    BY DEF Copies
  <2>2. IsFiniteSet(Below(c))
    BY <2>1, FS_Subset
  <2> QED
    BY <2>1, <2>2, FS_CardinalityType
<1>3. ASSUME NEW c \in S, NEW T, IsFiniteSet(T), Below(c) \subseteq T, c \in T
      PROVE  Cardinality(Below(c)) < Cardinality(T)
  <2>1. IsFiniteSet(T \ {c}) /\ Cardinality(T \ {c}) = Cardinality(T) - 1
    BY <1>3, FS_RemoveElement
  <2>2. Below(c) \in SUBSET (T \ {c})
    BY <1>3, <1>2
  <2>3. Cardinality(Below(c)) <= Cardinality(T \ {c})
    BY <2>1, <2>2, FS_Subset
  <2>4. Cardinality(T) \in Nat /\ Cardinality(Below(c)) \in Nat
    BY <1>2, <1>3, FS_CardinalityType
  <2> HIDE DEF Below
  <2> QED
    BY <2>1, <2>3, <2>4
<1>4. ASSUME NEW c \in S PROVE Cardinality(Below(c)) < Cardinality(S)
  BY <1>3
<1>5. ASSUME NEW c \in S, NEW d \in S, c.uid < d.uid
      PROVE  Cardinality(Below(c)) < Cardinality(Below(d))
  <2>1. Below(c) \subseteq Below(d) /\ c \in Below(d)
    BY <1>5 DEF Copies
  <2> QED
    BY <1>2, <1>3, <2>1
<1>6. ASSUME NEW c \in S, NEW d \in S, c # d PROVE Cardinality(Below(c)) # Cardinality(Below(d))
  <2>1. c.uid \in Nat /\ d.uid \in Nat /\ c.uid # d.uid
    BY <1>6 DEF Copies
  <2>2. Cardinality(Below(c)) \in Nat /\ Cardinality(Below(d)) \in Nat
    BY <1>2
  <2>3. CASE c.uid < d.uid
    <3>1. Cardinality(Below(c)) < Cardinality(Below(d))
      BY <1>5, <2>3
    <3> HIDE DEF Below
    <3> QED
      BY <2>2, <3>1
  <2>4. CASE d.uid < c.uid
    <3>1. Cardinality(Below(d)) < Cardinality(Below(c))
      BY <1>5, <2>4
    <3> HIDE DEF Below
    <3> QED
      BY <2>2, <3>1
  <2> QED
    BY <2>1, <2>3, <2>4
<1>7. \A c : Rank(c, S) = Cardinality(Below(c))
  BY DEF Rank
<1> HIDE DEF Below
<1> QED
  BY <1>1, <1>2, <1>4, <1>6, <1>7

(* What a transfer appends: one new copy for each of S, with a UID of its   *)
(* own at or above UIDNEXT.                                                 *)
LEMMA AppendedFacts ==
  ASSUME NEW S \in SUBSET Copies, IsFiniteSet(S), NEW f \in Folders, nextUID[f] \in Nat \ {0},
         \A c, d \in S : c.uid = d.uid => c = d
  PROVE  /\ Appended(S, f) \subseteq Copies /\ IsFiniteSet(Appended(S, f))
         /\ \A a \in Appended(S, f) :
              /\ a.folder = f /\ nextUID[f] <= a.uid /\ a.uid < nextUID[f] + Cardinality(S)
              /\ \E c \in S : a.mail = c.mail /\ a.uid = nextUID[f] + Rank(c, S)
         /\ \A a, b \in Appended(S, f) : a.uid = b.uid => a = b
         /\ \A c \in S : \E a \in Appended(S, f) : a.mail = c.mail
<1> DEFINE A(c) == [folder |-> f, uid |-> nextUID[f] + Rank(c, S), mail |-> c.mail]
           F == [c \in S |-> A(c)]
<1>0. Appended(S, f) = {A(c) : c \in S}
  BY DEF Appended
<1>1. /\ Cardinality(S) \in Nat
      /\ \A c \in S : Rank(c, S) \in Nat /\ Rank(c, S) < Cardinality(S)
      /\ \A c, d \in S : Rank(c, S) = Rank(d, S) => c = d
  BY RankFacts
<1>2. \A c \in S : /\ A(c) \in Copies /\ A(c).folder = f /\ A(c).mail = c.mail
                   /\ A(c).uid = nextUID[f] + Rank(c, S)
                   /\ nextUID[f] <= A(c).uid /\ A(c).uid < nextUID[f] + Cardinality(S)
  BY <1>1 DEF Copies
<1>3. \A c, d \in S : A(c).uid = A(d).uid => c = d
  <2> SUFFICES ASSUME NEW c \in S, NEW d \in S, A(c).uid = A(d).uid PROVE Rank(c, S) = Rank(d, S)
    BY <1>1
  <2> QED
    BY <1>1, <1>2
<1>4. F \in Surjection(S, Appended(S, f))
  BY <1>0, Fun_IsSurj
<1>5. IsFiniteSet(Appended(S, f))
  BY <1>4, FS_Surjection
<1> HIDE DEF A
<1> QED
  BY <1>0, <1>2, <1>3, <1>5

(* At the start a copy per mail, numbered 1 to the number of mails.         *)
LEMMA InitialNumbers ==
  LET number == CHOOSE n \in Injection(Mails, 1..Cardinality(Mails)) : TRUE
  IN  /\ Cardinality(Mails) \in Nat /\ number \in [Mails -> 1..Cardinality(Mails)]
      /\ \A m, n \in Mails : number[m] = number[n] => m = n
<1> DEFINE N == Cardinality(Mails)
           I == Injection(Mails, 1..N)
           number == CHOOSE n \in I : TRUE
<1>1. N \in Nat /\ ExistsBijection(1..N, Mails)
  BY OperationsAssumption, FS_CardinalityType
<1>2. ExistsBijection(Mails, 1..N)
  BY <1>1, Fun_ExistsBijSymmetric
<1>3. Bijection(Mails, 1..N) # {}
  BY <1>2, Fun_ExistsBij
<1>4. I # {}
  BY <1>3, Fun_BijectionProperties
<1>5. number \in I
  <2> HIDE DEF I
  <2> QED
    BY <1>4
<1>6. number \in [Mails -> 1..N] /\ \A a, b \in Mails : number[a] = number[b] => a = b
  BY <1>5, Fun_InjectionProperties, ZenonT(30)
<1> QED
  BY <1>1, <1>6

LEMMA InitServer == Init => ServerTyped /\ UniqueUIDs
<1> SUFFICES ASSUME Init PROVE ServerTyped /\ UniqueUIDs
  OBVIOUS
<1> DEFINE number == CHOOSE n \in Injection(Mails, 1..Cardinality(Mails)) : TRUE
<1>1. /\ Cardinality(Mails) \in Nat /\ number \in [Mails -> 1..Cardinality(Mails)]
      /\ \A m, n \in Mails : number[m] = number[n] => m = n
  BY InitialNumbers
<1> HIDE DEF number
<1>2. PICK place \in [Mails -> {"inbox", "trash"}] :
        remote = {[folder |-> place[m], uid |-> number[m], mail |-> m] : m \in Mails}
  BY DEF Init, number
<1>3. remote \subseteq Copies /\ \A c \in remote : c.uid = number[c.mail] /\ c.uid \in 1..Cardinality(Mails)
  BY <1>1, <1>2 DEF Copies, Folders
<1>4. \A c, d \in remote : c.uid = d.uid => c = d
  BY <1>1, <1>2
<1> DEFINE F == [m \in Mails |-> [folder |-> place[m], uid |-> number[m], mail |-> m]]
<1>5. F \in Surjection(Mails, remote)
  BY <1>2, Fun_IsSurj
<1>6. IsFiniteSet(remote)
  BY <1>5, FS_Surjection, OperationsAssumption
<1>7. validity \in [Folders -> 1..MaxValidity] /\ nextUID = [f \in Folders |-> Cardinality(Mails) + 1]
  BY OperationsAssumption DEF Init
<1>8. nextUID \in [Folders -> Nat \ {0}] /\ \A f \in Folders : nextUID[f] = Cardinality(Mails) + 1
  BY <1>1, <1>7
<1>9. \A c \in remote : c.uid < nextUID[c.folder]
  <2> SUFFICES ASSUME NEW c \in remote PROVE c.uid < nextUID[c.folder]
    OBVIOUS
  <2>1. c.folder \in Folders /\ c.uid \in 1..Cardinality(Mails)
    BY <1>3 DEF Copies
  <2> QED
    BY <1>1, <1>8, <2>1
<1> QED
  BY <1>3, <1>4, <1>6, <1>7, <1>8, <1>9 DEF ServerTyped, UniqueUIDs

LEMMA InitTables == Init => TablesTyped /\ \A r \in locations : r.validity = 1
<1> SUFFICES ASSUME Init PROVE TablesTyped /\ \A r \in locations : r.validity = 1
  OBVIOUS
<1> DEFINE number == CHOOSE n \in Injection(Mails, 1..Cardinality(Mails)) : TRUE
<1>1. /\ Cardinality(Mails) \in Nat /\ number \in [Mails -> 1..Cardinality(Mails)]
  BY InitialNumbers
<1> HIDE DEF number
<1>2. PICK place \in [Mails -> {"inbox", "trash"}] :
        locations = {[msg |-> <<m, 1>>, folder |-> place[m], validity |-> 1, uid |-> number[m]] :
                       m \in Mails}
  BY DEF Init, number
<1>3. messages = {<<m, 1>> : m \in Mails} /\ checkpoint = validity /\ validity = [f \in Folders |-> 1]
  BY DEF Init
<1>4. messages \subseteq Messages
  BY <1>3 DEF Messages
<1> DEFINE G == [m \in Mails |-> <<m, 1>>]
<1>5. G \in Surjection(Mails, messages)
  BY <1>3, Fun_IsSurj
<1>6. IsFiniteSet(messages)
  BY <1>5, FS_Surjection, OperationsAssumption
<1>7. locations \subseteq Rows /\ \A r \in locations : r.msg \in messages /\ r.validity = 1
  <2>1. 1 \in 1..MaxValidity
    BY OperationsAssumption
  <2> SUFFICES ASSUME NEW m \in Mails
               PROVE  /\ <<m, 1>> \in messages /\ <<m, 1>> \in Messages
                      /\ place[m] \in Folders /\ number[m] \in Nat \ {0}
    BY <1>2, <2>1 DEF Rows
  <2> QED
    BY <1>1, <1>2, <1>3, <1>4 DEF Folders
<1>8. checkpoint \in [Folders -> 1..MaxValidity]
  BY <1>3, OperationsAssumption
<1> QED
  BY <1>4, <1>6, <1>7, <1>8 DEF TablesTyped

LEMMA InitTyped == Init => Typed /\ UniqueUIDs /\ Busy
<1> SUFFICES ASSUME Init PROVE Typed /\ UniqueUIDs /\ Busy
  OBVIOUS
<1>1. NoOp \in OpStates
  BY FS_EmptySet DEF NoOp, OpStates, TargetSets, Statuses, Folders
<1>2. OpsTyped
  BY <1>1 DEF Init, OpsTyped
<1>3. worker \in WorkerStates /\ pass \in PassStates
  BY OperationsAssumption DEF Init, IdleWorker, IdlePass, WorkerStates, WorkerPCs, PassStates, PassPCs, Folders
<1>4. HistoryTyped /\ BoundsTyped
  BY OperationsAssumption DEF Init, HistoryTyped, BoundsTyped
<1>5. Busy
  BY DEF Init, Busy, IdleWorker
<1> QED
  BY <1>2, <1>3, <1>4, <1>5, InitServer, InitTables DEF Typed

-----------------------------------------------------------------------------
(* How the worker moves.                                                    *)
SameTask ==
  /\ worker'.op = worker.op /\ worker'.chosen = worker.chosen
  /\ worker'.strategy = worker.strategy
SameGroup ==
  /\ worker'.todo = worker.todo /\ worker'.group = worker.group
  /\ worker'.session = worker.session

LEMMA FinishFacts ==
  ASSUME worker \in WorkerStates, NEW out \in {"succeeded", "failed", "unknown", "needs_attention"},
         Finish(out)
  PROVE  /\ worker' \in WorkerStates /\ SameTask /\ SameGroup
         /\ worker'.pc = "finish" /\ worker'.outcome = out
         /\ worker'.moved = worker.moved /\ worker'.committed = worker.committed
BY DEF Finish, WorkerStates, WorkerPCs, SameTask, SameGroup

LEMMA GotoFacts ==
  ASSUME worker \in WorkerStates, NEW pc \in WorkerPCs, Goto(pc)
  PROVE  /\ worker' \in WorkerStates /\ SameTask /\ SameGroup
         /\ worker'.pc = pc /\ worker'.outcome = worker.outcome
         /\ worker'.moved = worker.moved /\ worker'.committed = worker.committed
BY DEF Goto, WorkerStates, SameTask, SameGroup

LEMMA PartialFacts == Partial \in {"failed", "unknown"} /\ (worker.committed => Partial = "unknown")
BY DEF Partial

LEMMA IdleWorkerState ==
  /\ IdleWorker \in WorkerStates /\ IdleWorker.pc = "idle"
  /\ IdleWorker.chosen = {} /\ IdleWorker.todo = {} /\ IdleWorker.group = {}
  /\ IdleWorker.moved = {} /\ IdleWorker.committed = FALSE
BY OperationsAssumption DEF IdleWorker, WorkerStates, WorkerPCs

LEMMA ClaimFacts ==
  ASSUME Typed, ClaimOperation
  PROVE  \E o \in Ops :
           /\ op[o].status = "queued" /\ op' = [op EXCEPT ![o].status = "running"]
           /\ worker' \in WorkerStates /\ worker'.pc = "claimed" /\ worker'.op = o
           /\ worker'.chosen = {} /\ worker'.todo = {} /\ worker'.group = {}
           /\ worker'.moved = {} /\ worker'.committed = FALSE
           /\ ready' \in Seq(Ops) /\ worker.pc = "idle"
           /\ \E i \in DOMAIN ready : ready[i] = o /\ ready' = SubSeq(ready, i + 1, Len(ready))
<1>1. PICK i \in DOMAIN ready :
        /\ worker.pc = "idle"
        /\ op[ready[i]].status = "queued" /\ op' = [op EXCEPT ![ready[i]].status = "running"]
        /\ ready' = SubSeq(ready, i + 1, Len(ready))
        /\ worker' = [IdleWorker EXCEPT !.pc = "claimed", !.op = ready[i]]
  BY DEF ClaimOperation
<1>2. ready \in Seq(Ops)
  BY DEF Typed, OpsTyped
<1>3. i \in 1..Len(ready) /\ Len(ready) \in Nat
  BY <1>1, <1>2
<1>4. ready[i] \in Ops
  BY <1>2, <1>3
<1>5. ready' \in Seq(Ops)
  BY <1>1, <1>2, <1>3
<1>6. ready[i] \in 0..MaxOps
  BY <1>4, OperationsAssumption DEF Ops
<1>7. /\ worker' \in WorkerStates /\ worker'.pc = "claimed" /\ worker'.op = ready[i]
      /\ worker'.chosen = {} /\ worker'.todo = {} /\ worker'.group = {}
      /\ worker'.moved = {} /\ worker'.committed = FALSE
  BY <1>1, <1>6, IdleWorkerState DEF WorkerStates, WorkerPCs
<1> QED
  BY <1>1, <1>4, <1>5, <1>7

(* The rows a plan chooses are rows of the targets; a delete's are in the   *)
(* trash.                                                                   *)
LEMMA SourcesFacts ==
  ASSUME NEW rows, NEW S \in Choices(rows),
         Current.kind \in {"flag", "archive", "move", "trash", "delete"}
  PROVE  S \subseteq rows /\ \A r \in S : Current.kind = "delete" => r.folder = "trash"
<1>1. CASE Current.kind = "flag"
  BY <1>1 DEF Choices
<1>2. CASE Current.kind = "delete"
  BY <1>2 DEF Choices, TrashOnly
<1>3. CASE Current.kind \in {"archive", "move", "trash"}
  BY <1>3 DEF Choices, OneOfEach
<1> QED
  BY <1>1, <1>2, <1>3

(* LoadOperation finishes without a plan, or plans from the rows of the     *)
(* targets.                                                                 *)
Plans ==
  \E sources \in Choices({r \in locations : r.msg \in Current.targets}) :
    /\ worker'.op = worker.op /\ worker'.chosen = sources /\ worker'.todo = sources
    /\ worker'.group = worker.group /\ worker'.session = worker.session
    /\ worker'.moved = worker.moved /\ worker'.committed = worker.committed
    /\ \/ worker'.pc = "select"
       \/ worker'.pc = "finish" /\ worker'.outcome = "needs_attention"
       \/ worker'.pc = "finish" /\ worker'.outcome = "succeeded" /\ sources = {}

LEMMA LoadFacts ==
  ASSUME Typed, Busy, LoadOperation
  PROVE  /\ worker' \in WorkerStates
         /\ Plans \/ Finish("failed") \/ Finish("needs_attention")
<1> DEFINE rows == {r \in locations : r.msg \in Current.targets}
           planned(s, sources) ==
             [worker EXCEPT !.chosen = sources, !.todo = sources, !.strategy = s]
<1>1. CASE Finish("failed") \/ Finish("needs_attention")
  BY <1>1, FinishFacts DEF Typed
<1>2. CASE ~(Finish("failed") \/ Finish("needs_attention"))
  <2>1. PICK s \in Strategies, sources \in Choices(rows) :
          worker' =
            IF sources = {}
            THEN [planned(s, sources) EXCEPT !.pc = "finish",
                    !.outcome = IF Moving THEN "succeeded" ELSE "needs_attention"]
            ELSE IF s = "none" /\ Current.kind # "flag"
            THEN [planned(s, sources) EXCEPT !.pc = "finish", !.outcome = "needs_attention"]
            ELSE [planned(s, sources) EXCEPT !.pc = "select"]
    BY <1>2 DEF LoadOperation
  <2>2. s \in {"none", "move", "copy"}
    BY OperationsAssumption
  <2>3. Current \in OpStates
    BY DEF Typed, OpsTyped, Busy, LoadOperation, Current
  <2>4. sources \in SUBSET Rows
    <3>1. sources \subseteq rows
      BY <2>3, SourcesFacts DEF OpStates
    <3> QED
      BY <3>1 DEF Typed, TablesTyped
  <2>5. worker \in WorkerStates
    BY DEF Typed
  <2>6. planned(s, sources) \in WorkerStates
    BY <2>2, <2>4, <2>5 DEF WorkerStates
  <2>7. /\ planned(s, sources).op = worker.op /\ planned(s, sources).chosen = sources /\ planned(s, sources).todo = sources
        /\ planned(s, sources).group = worker.group /\ planned(s, sources).session = worker.session
        /\ planned(s, sources).moved = worker.moved /\ planned(s, sources).committed = worker.committed
    BY <2>5 DEF WorkerStates
  <2> HIDE DEF planned
  <2>8. /\ worker' \in WorkerStates
        /\ worker'.op = worker.op /\ worker'.chosen = sources /\ worker'.todo = sources
        /\ worker'.group = worker.group /\ worker'.session = worker.session
        /\ worker'.moved = worker.moved /\ worker'.committed = worker.committed
        /\ \/ worker'.pc = "select"
           \/ worker'.pc = "finish" /\ worker'.outcome = "needs_attention"
           \/ worker'.pc = "finish" /\ worker'.outcome = "succeeded" /\ sources = {}
    <3>1. CASE sources = {}
      BY <2>1, <2>6, <2>7, <3>1 DEF WorkerStates, WorkerPCs
    <3>2. CASE sources # {} /\ s = "none" /\ Current.kind # "flag"
      BY <2>1, <2>6, <2>7, <3>2 DEF WorkerStates, WorkerPCs
    <3>3. CASE sources # {} /\ ~(s = "none" /\ Current.kind # "flag")
      BY <2>1, <2>6, <2>7, <3>3 DEF WorkerStates, WorkerPCs
    <3> QED
      BY <3>1, <3>2, <3>3
  <2> QED
    BY <2>8 DEF Plans
<1> QED
  BY <1>1, <1>2

(* selectLocationGroup takes a group that is of one folder and of its       *)
(* present UIDVALIDITY.                                                     *)
Selects ==
  /\ worker'.pc = "selected" /\ SameTask
  /\ worker'.group \subseteq worker.todo /\ worker'.todo = worker.todo \ worker'.group
  /\ worker'.moved = {} /\ worker'.committed = worker.committed
  /\ \A q, r \in worker'.group :
       q.folder = r.folder /\ r.validity = worker'.session /\ validity[r.folder] = worker'.session

LEMMA SelectFacts ==
  ASSUME Typed, SelectLocationGroup
  PROVE  /\ worker' \in WorkerStates
         /\ Selects \/ Finish("needs_attention") \/ Finish(Partial)
<1>1. CASE Finish("needs_attention") \/ Finish(Partial)
  BY <1>1, FinishFacts, PartialFacts DEF Typed
<1>2. CASE ~(Finish("needs_attention") \/ Finish(Partial))
  <2>1. PICK group \in GroupsOf(worker.todo) : \E r \in group :
          /\ SameValidity(r)
          /\ worker' = [worker EXCEPT !.pc = "selected", !.group = group, !.moved = {},
                          !.session = validity[r.folder], !.todo = @ \ group]
    BY <1>2 DEF SelectLocationGroup
  <2>2. PICK r \in group :
          /\ r.validity = validity[r.folder]
          /\ worker' = [worker EXCEPT !.pc = "selected", !.group = group, !.moved = {},
                          !.session = validity[r.folder], !.todo = @ \ group]
    BY <2>1 DEF SameValidity
  <2>3. PICK p \in worker.todo :
          group = {q \in worker.todo : q.folder = p.folder /\ q.validity = p.validity}
    BY <2>1 DEF GroupsOf
  <2>4. worker \in WorkerStates /\ worker.todo \in SUBSET Rows /\ group \in SUBSET Rows
    BY <2>3 DEF Typed, WorkerStates
  <2>5. validity[r.folder] \in 0..MaxValidity
    BY <2>4, <2>2 DEF Typed, ServerTyped, Rows
  <2>6. /\ worker' \in WorkerStates /\ worker'.pc = "selected" /\ SameTask
        /\ worker'.group = group /\ worker'.todo = worker.todo \ group
        /\ worker'.moved = {} /\ worker'.committed = worker.committed
        /\ worker'.session = validity[r.folder]
    BY <2>2, <2>4, <2>5 DEF WorkerStates, WorkerPCs, SameTask
  <2>7. \A q \in group : q.folder = r.folder /\ q.validity = r.validity
    BY <2>2, <2>3
  <2> QED
    BY <2>2, <2>3, <2>6, <2>7 DEF Selects
<1> QED
  BY <1>1, <1>2

(* The copies a command is for are of one folder, that of the group, and    *)
(* the group's rows have the UIDVALIDITY they are found under.              *)
LEMMA SelectedFacts ==
  ASSUME Typed, UniqueUIDs, Busy, worker.pc \in {"selected", "copied"}
  PROVE  /\ Selected \subseteq remote /\ Selected \subseteq Copies /\ IsFiniteSet(Selected)
         /\ \A c, d \in Selected : c.folder = d.folder /\ (c.uid = d.uid => c = d)
         /\ \A c \in Selected, r \in worker.group :
              /\ SessionIsGood /\ c.folder = r.folder
              /\ r.validity = validity[r.folder]
         /\ \A c \in Selected : \E r \in worker.group : c.uid = r.uid
<1>1. Selected \in SUBSET remote
  BY DEF Selected
<1>2. remote \subseteq Copies /\ IsFiniteSet(remote)
  BY DEF Typed, ServerTyped
<1>3. IsFiniteSet(Selected)
  BY <1>1, <1>2, FS_Subset
<1>4. \A q, r \in worker.group : q.folder = r.folder /\ r.validity = worker.session
  BY DEF Busy
<1>5. \A c \in Selected : SessionIsGood /\ \E r \in worker.group : r.folder = c.folder /\ r.uid = c.uid
  BY DEF Selected
<1>6. \A c \in Selected, r \in worker.group :
        SessionIsGood /\ c.folder = r.folder /\ r.validity = validity[r.folder]
  BY <1>4, <1>5 DEF SessionIsGood
<1>7. \A c, d \in Selected : c.folder = d.folder
  BY <1>4, <1>5
<1>8. \A c, d \in Selected : c.uid = d.uid => c = d
  BY <1>1, <1>7 DEF UniqueUIDs
<1> QED
  BY <1>1, <1>2, <1>3, <1>5, <1>6, <1>7, <1>8

(* The operation that is applied.                                           *)
LEMMA CurrentFacts ==
  ASSUME Typed, Busy, worker.pc # "idle"
  PROVE  /\ worker.op \in Ops /\ Current \in OpStates /\ Current.to \in Folders
         /\ Current.status \in {"running", "needs_attention"}
         /\ Current.kind \in {"flag", "archive", "move", "trash", "delete"}
BY DEF Typed, OpsTyped, Busy, Current, OpStates

LEMMA MailsOfFacts == ASSUME NEW S, S \subseteq Copies PROVE MailsOf(S) \subseteq Mails
BY DEF MailsOf, Copies

LEMMA TouchFacts ==
  ASSUME Typed, Busy, worker.pc # "idle", NEW S \in SUBSET Copies, Touch(S)
  PROVE  /\ touched' \in [Ops -> SUBSET Mails]
         /\ touched'[worker.op] = touched[worker.op] \cup MailsOf(S)
         /\ \A o \in Ops : o # worker.op => touched'[o] = touched[o]
<1>1. worker.op \in Ops /\ touched \in [Ops -> SUBSET Mails]
  BY CurrentFacts DEF Typed, HistoryTyped
<1>2. MailsOf(S) \subseteq Mails
  BY MailsOfFacts
<1> QED
  BY <1>1, <1>2 DEF Touch

(* What a transfer of the copies S does.                                    *)
Transfers(S) ==
  LET f == Current.to IN
  /\ S \subseteq Selected
  /\ \/ worker.strategy = "copy" /\ remote' = remote \cup Appended(S, f)
     \/ worker.strategy # "copy" /\ remote' = (remote \ S) \cup Appended(S, f)
  /\ nextUID' = [nextUID EXCEPT ![f] = @ + Cardinality(S)]
  /\ Touch(S) /\ SameTask /\ SameGroup /\ worker'.committed = worker.committed
  /\ \/ worker'.pc = "finish" /\ worker'.outcome = "unknown" /\ worker'.moved = worker.moved
     \/ /\ SessionIsGood /\ S = Selected
        /\ worker'.pc = IF worker.strategy = "copy" THEN "copied" ELSE "commit"
        /\ worker'.moved \subseteq Moves
        /\ \A p \in worker'.moved :
             p.validity = validity[f] /\ \E c \in S : p.uid = c.uid /\ p.to = nextUID[f] + Rank(c, S)

LEMMA TransferFacts ==
  ASSUME Typed, UniqueUIDs, Busy, Transfer
  PROVE  worker' \in WorkerStates /\ \E S \in SUBSET Selected : Transfers(S)
<1> DEFINE f == Current.to
           copying == worker.strategy = "copy"
           Moved(S, pairs) == {[uid |-> p[1], to |-> p[2], validity |-> validity[f]] : p \in pairs}
<1>1. PICK S \in SUBSET Selected :
        /\ remote' = (IF copying THEN remote ELSE remote \ S) \cup Appended(S, f)
        /\ nextUID' = [nextUID EXCEPT ![f] = @ + Cardinality(S)]
        /\ Touch(S)
        /\ \/ Finish("unknown")
           \/ /\ Answers(S)
              /\ \E pairs \in {{}, UIDPairs(S, f)} :
                   worker' = [worker EXCEPT !.pc = IF copying THEN "copied" ELSE "commit",
                                            !.moved = Moved(S, pairs)]
  BY DEF Transfer
<1>2. worker \in WorkerStates /\ worker.pc = "selected" /\ f \in Folders
  BY CurrentFacts DEF Typed, Transfer
<1>3. CASE Finish("unknown")
  <2>1. worker' \in WorkerStates /\ SameTask /\ SameGroup /\ worker'.committed = worker.committed
        /\ worker'.pc = "finish" /\ worker'.outcome = "unknown" /\ worker'.moved = worker.moved
    BY <1>2, <1>3, FinishFacts
  <2> QED
    BY <1>1, <2>1 DEF Transfers
<1>4. CASE ~Finish("unknown")
  <2>1. PICK pairs \in {{}, UIDPairs(S, f)} :
          worker' = [worker EXCEPT !.pc = IF copying THEN "copied" ELSE "commit",
                                   !.moved = Moved(S, pairs)]
    BY <1>1, <1>4
  <2>2. S \subseteq Copies /\ IsFiniteSet(S) /\ \A c, d \in S : c.uid = d.uid => c = d
    <3>1. IsFiniteSet(Selected) /\ Selected \subseteq Copies
          /\ \A c, d \in Selected : c.uid = d.uid => c = d
      BY <1>2, SelectedFacts
    <3> QED
      BY <3>1, FS_Subset
  <2>3. \A c \in S : Rank(c, S) \in Nat
    BY <2>2, RankFacts
  <2>4. validity[f] \in 1..MaxValidity /\ nextUID[f] \in Nat \ {0}
    BY <1>2 DEF Typed, ServerTyped
  <2>5. /\ Moved(S, pairs) \subseteq Moves
        /\ \A p \in Moved(S, pairs) :
             p.validity = validity[f] /\ \E c \in S : p.uid = c.uid /\ p.to = nextUID[f] + Rank(c, S)
    <3>1. CASE pairs = {}
      BY <3>1
    <3>2. CASE pairs = UIDPairs(S, f)
      <4> SUFFICES ASSUME NEW p \in Moved(S, pairs)
                   PROVE  /\ p \in Moves /\ p.validity = validity[f]
                          /\ \E c \in S : p.uid = c.uid /\ p.to = nextUID[f] + Rank(c, S)
        OBVIOUS
      <4>1. PICK c \in S : p = [uid |-> c.uid, to |-> nextUID[f] + Rank(c, S), validity |-> validity[f]]
        BY <3>2 DEF UIDPairs
      <4>2. c.uid \in Nat \ {0} /\ nextUID[f] + Rank(c, S) \in Nat \ {0}
        BY <2>2, <2>3, <2>4 DEF Copies
      <4> QED
        BY <2>4, <4>1, <4>2 DEF Moves
    <3> QED
      BY <2>1, <3>1, <3>2
  <2> DEFINE M == Moved(S, pairs)
  <2> HIDE DEF Moved
  <2>6. worker' = [worker EXCEPT !.pc = IF copying THEN "copied" ELSE "commit", !.moved = M]
    BY <2>1
  <2>7. M \in SUBSET Moves
    BY <2>5
  <2> HIDE DEF M
  <2>8. /\ worker' \in WorkerStates /\ SameTask /\ SameGroup /\ worker'.committed = worker.committed
        /\ worker'.pc = (IF copying THEN "copied" ELSE "commit") /\ worker'.moved = M
    BY <1>2, <2>6, <2>7 DEF WorkerStates, WorkerPCs, SameTask, SameGroup
  <2>9. SessionIsGood /\ S = Selected
    BY <1>1, <1>4 DEF Answers
  <2>10. /\ worker'.moved \subseteq Moves
         /\ \A p \in worker'.moved :
              p.validity = validity[f] /\ \E c \in S : p.uid = c.uid /\ p.to = nextUID[f] + Rank(c, S)
    BY <2>5, <2>8 DEF M
  <2>11. worker'.pc = IF worker.strategy = "copy" THEN "copied" ELSE "commit"
    BY <2>8
  <2>12. \/ worker.strategy = "copy" /\ remote' = remote \cup Appended(S, f)
         \/ worker.strategy # "copy" /\ remote' = (remote \ S) \cup Appended(S, f)
    BY <1>1
  <2> QED
    BY <1>1, <2>8, <2>9, <2>10, <2>11, <2>12 DEF Transfers
<1> QED
  BY <1>3, <1>4

LEMMA CommitFacts ==
  ASSUME Typed, CommitProgress
  PROVE  /\ worker' \in WorkerStates /\ SameTask /\ SameGroup /\ worker'.pc = "select"
         /\ worker'.committed = TRUE /\ worker'.moved = worker.moved
         /\ worker'.outcome = worker.outcome
BY DEF Typed, CommitProgress, NextGroup, WorkerStates, WorkerPCs, SameTask, SameGroup

(* The messages an ID may be taken by are finitely many.                    *)
LEMMA NamedFacts ==
  ASSUME messages \subseteq Messages, IsFiniteSet(messages), OpsTyped
  PROVE  Named \subseteq Messages /\ IsFiniteSet(Named)
<1> DEFINE Targets == {op[o].targets : o \in Ops}
<1>1. \A T \in Targets : T \subseteq Messages /\ IsFiniteSet(T)
  BY DEF OpsTyped, OpStates, TargetSets
<1> DEFINE F == [o \in Ops |-> op[o].targets]
<1>2. IsFiniteSet(Targets)
  <2>1. IsFiniteSet(Ops)
    BY OperationsAssumption, FS_Interval DEF Ops
  <2>2. F \in Surjection(Ops, Targets)
    BY Fun_IsSurj
  <2> HIDE DEF F, Targets
  <2> QED
    BY <2>1, <2>2, FS_Surjection
<1> HIDE DEF Targets
<1>3. IsFiniteSet(UNION Targets) /\ UNION Targets \subseteq Messages
  BY <1>1, <1>2, FS_UNION
<1>4. Named = messages \cup UNION Targets
  BY DEF Named, Targets
<1>5. IsFiniteSet(messages \cup UNION Targets)
  BY <1>3, FS_Union
<1> QED
  BY <1>3, <1>4, <1>5

(* The row that a pass makes for a copy stands for the copy's mail.         *)
LEMMA NewMessageFacts ==
  ASSUME messages \subseteq Messages, IsFiniteSet(messages), OpsTyped, NEW c \in Copies
  PROVE  NewMessage(c) \in Messages /\ NewMessage(c) \notin Named /\ MailOf(NewMessage(c)) = c.mail
<1> DEFINE N == Cardinality(Named)
           Rs == {<<c.mail, n>> : n \in 1..(N + 1)}
           F == [n \in 1..(N + 1) |-> <<c.mail, n>>]
<1>0. IsFiniteSet(Named)
  BY NamedFacts
<1>1. N \in Nat
  BY <1>0, FS_CardinalityType
<1>2. \E m \in Rs : m \notin Named
  <2> SUFFICES ASSUME \A m \in Rs : m \in Named PROVE FALSE
    OBVIOUS
  <2>1. F \in Injection(1..(N + 1), Named)
    BY Fun_IsInj
  <2>2. Cardinality(1..(N + 1)) <= N
    BY <1>0, <2>1, FS_Injection
  <2>3. Cardinality(1..(N + 1)) = N + 1
    <3> HIDE DEF N
    <3> QED
      BY <1>1, FS_Interval
  <2> HIDE DEF N
  <2> QED
    BY <1>1, <2>2, <2>3
<1>3. NewMessage(c) \in Rs /\ NewMessage(c) \notin Named
  BY <1>2 DEF NewMessage
<1>4. \A m \in Rs : m \in Messages /\ MailOf(m) = c.mail
  <2> HIDE DEF N
  <2> QED
    BY <1>1 DEF Messages, MailOf, Copies
<1> HIDE DEF Rs
<1> QED
  BY <1>3, <1>4

LEMMA MessagesForFacts ==
  ASSUME Typed, NEW c \in Copies, NEW m \in MessagesFor(c)
  PROVE  m \in Messages /\ MailOf(m) = c.mail
<1>1. messages \subseteq Messages /\ IsFiniteSet(messages) /\ OpsTyped
  BY DEF Typed, TablesTyped
<1>2. NewMessage(c) \in Messages /\ MailOf(NewMessage(c)) = c.mail
  BY <1>1, NewMessageFacts
<1> QED
  BY <1>1, <1>2 DEF MessagesFor

(* Rows that come with a move lie in its destination, each for a row of the *)
(* group.                                                                   *)
LEMMA ArrivalsFacts ==
  ASSUME Typed, Busy, worker.pc # "idle"
  PROVE  /\ Arrivals \subseteq Rows
         /\ \A a \in Arrivals : \E r \in worker.group, p \in worker.moved :
              /\ r.uid = p.uid /\ a.msg = r.msg /\ a.folder = Current.to
              /\ a.validity = p.validity /\ a.uid = p.to
<1>1. worker.group \subseteq Rows /\ worker.moved \subseteq Moves /\ Current.to \in Folders
  BY CurrentFacts DEF Typed, WorkerStates
<1> SUFFICES ASSUME NEW a \in Arrivals
             PROVE  /\ a \in Rows
                    /\ \E r \in worker.group, p \in worker.moved :
                         /\ r.uid = p.uid /\ a.msg = r.msg /\ a.folder = Current.to
                         /\ a.validity = p.validity /\ a.uid = p.to
  OBVIOUS
<1>2. PICK x \in worker.group \X worker.moved :
        x[1].uid = x[2].uid /\ a = [msg |-> x[1].msg, folder |-> Current.to,
                                    validity |-> x[2].validity, uid |-> x[2].to]
  BY DEF Arrivals
<1>3. x[1] \in worker.group /\ x[2] \in worker.moved
  OBVIOUS
<1>4. x[1] \in Rows /\ x[2] \in Moves
  BY <1>1, <1>3
<1>5. a \in Rows
  BY <1>1, <1>2, <1>4 DEF Rows, Moves
<1> QED
  BY <1>2, <1>3, <1>5

-----------------------------------------------------------------------------
(* The server.  Whatever happens to a folder, either its UIDVALIDITY grows, *)
(* or its UIDNEXT does not shrink and the copies it gains have UIDs at or   *)
(* above it: a UID once used stands for the same copy or for none.          *)
Advances(f) ==
  \/ validity[f] < validity'[f]
  \/ /\ validity'[f] = validity[f] /\ nextUID[f] <= nextUID'[f]
     /\ \A c \in remote' : c.folder = f => c \in remote \/ nextUID[f] <= c.uid
ServerSound == ServerTyped' /\ UniqueUIDs' /\ \A f \in Folders : Advances(f)

LEMMA RemoveStep ==
  ASSUME ServerTyped, UniqueUIDs, remote' \subseteq remote, UNCHANGED <<validity, nextUID>>
  PROVE  ServerSound
<1>1. IsFiniteSet(remote')
  BY FS_Subset DEF ServerTyped
<1>2. ServerTyped'
  BY <1>1 DEF ServerTyped
<1>3. UniqueUIDs'
  BY DEF UniqueUIDs
<1>4. \A f \in Folders : Advances(f)
  BY DEF Advances, ServerTyped
<1> QED
  BY <1>2, <1>3, <1>4 DEF ServerSound

LEMMA AppendStep ==
  ASSUME ServerTyped, UniqueUIDs, NEW f \in Folders, NEW R \in SUBSET remote,
         NEW S \in SUBSET remote, \A c, d \in S : c.uid = d.uid => c = d,
         remote' = R \cup Appended(S, f),
         nextUID' = [nextUID EXCEPT ![f] = @ + Cardinality(S)], UNCHANGED validity
  PROVE  ServerSound
<1> DEFINE A == Appended(S, f)
           N == Cardinality(S)
<1>1. /\ remote \subseteq Copies /\ IsFiniteSet(remote)
      /\ validity \in [Folders -> 1..MaxValidity] /\ nextUID \in [Folders -> Nat \ {0}]
  BY DEF ServerTyped
<1>2. IsFiniteSet(S) /\ IsFiniteSet(R)
  BY <1>1, FS_Subset
<1>3. /\ A \subseteq Copies /\ IsFiniteSet(A)
      /\ \A a \in A : a.folder = f /\ nextUID[f] <= a.uid /\ a.uid < nextUID[f] + N
      /\ \A a, b \in A : a.uid = b.uid => a = b
  BY <1>1, <1>2, AppendedFacts
<1>4. N \in Nat
  BY <1>2, FS_CardinalityType
<1>5. IsFiniteSet(remote')
  BY <1>2, <1>3, FS_Union
<1> HIDE DEF A, N
<1>6. remote' = R \cup A /\ nextUID' = [nextUID EXCEPT ![f] = @ + N]
  BY DEF A, N
<1>7. nextUID' \in [Folders -> Nat \ {0}] /\ nextUID'[f] = nextUID[f] + N
      /\ \A g \in Folders : g # f => nextUID'[g] = nextUID[g]
  BY <1>1, <1>4, <1>6
<1>8. \A g \in Folders : nextUID[g] <= nextUID'[g]
  BY <1>1, <1>4, <1>7
<1>9. ServerTyped'
  BY <1>1, <1>3, <1>5, <1>6, <1>7 DEF ServerTyped
<1>10. \A c \in remote' : c.uid < nextUID'[c.folder]
  <2> SUFFICES ASSUME NEW c \in remote' PROVE c.uid < nextUID'[c.folder]
    OBVIOUS
  <2>1. CASE c \in R
    <3>1. c.uid < nextUID[c.folder] /\ c.folder \in Folders /\ c.uid \in Nat
      BY <1>1, <2>1 DEF UniqueUIDs, Copies
    <3> QED
      BY <1>1, <1>7, <1>8, <3>1
  <2>2. CASE c \in A
    BY <1>3, <1>7, <2>2
  <2> QED
    BY <1>6, <2>1, <2>2
<1>11. \A c, d \in remote' : c.folder = d.folder /\ c.uid = d.uid => c = d
  <2>1. ASSUME NEW c \in R, NEW d \in A PROVE ~(c.folder = d.folder /\ c.uid = d.uid)
    <3>1. c.uid < nextUID[c.folder] /\ c.uid \in Nat
      BY <1>1 DEF UniqueUIDs, Copies
    <3>2. d.folder = f /\ nextUID[f] <= d.uid /\ d.uid \in Nat
      BY <1>3 DEF Copies
    <3> QED
      BY <1>1, <3>1, <3>2
  <2> QED
    BY <1>3, <1>6, <2>1 DEF UniqueUIDs
<1>12. \A g \in Folders : Advances(g)
  BY <1>1, <1>3, <1>6, <1>8 DEF Advances
<1> QED
  BY <1>9, <1>10, <1>11, <1>12 DEF ServerSound, UniqueUIDs

LEMMA RecreateStep ==
  ASSUME ServerTyped, UniqueUIDs, NEW f \in Folders, Recreate(f)
  PROVE  ServerSound
<1> DEFINE here == {c \in remote : c.folder = f}
           N == Cardinality(here)
<1>1. /\ remote \subseteq Copies /\ IsFiniteSet(remote)
      /\ validity \in [Folders -> 1..MaxValidity] /\ nextUID \in [Folders -> Nat \ {0}]
  BY DEF ServerTyped
<1>2. here \in SUBSET remote /\ IsFiniteSet(here) /\ IsFiniteSet(remote \ here) /\ N \in Nat
  <2>1. here \in SUBSET remote
    OBVIOUS
  <2> QED
    BY <1>1, <2>1, FS_Subset, FS_Difference, FS_CardinalityType
<1>3. PICK number \in Injection(here, 1..N) :
        remote' = (remote \ here) \cup {[c EXCEPT !.uid = number[c]] : c \in here}
  BY DEF Recreate
<1>4. /\ validity[f] < MaxValidity /\ validity' = [validity EXCEPT ![f] = @ + 1]
      /\ nextUID' = [nextUID EXCEPT ![f] = N + 1]
  BY DEF Recreate
<1>5. number \in [here -> 1..N] /\ \A c, d \in here : number[c] = number[d] => c = d
  <2> HIDE DEF here, N
  <2> QED
    BY Fun_InjectionProperties
<1> DEFINE B(c) == [c EXCEPT !.uid = number[c]]
           renamed == {B(c) : c \in here}
           F == [c \in here |-> B(c)]
<1>6. \A c \in here : B(c) \in Copies /\ B(c).folder = f /\ B(c).uid = number[c] /\ B(c).uid \in 1..N
  <2> SUFFICES ASSUME NEW c \in here
               PROVE  B(c) \in Copies /\ B(c).folder = f /\ B(c).uid = number[c] /\ B(c).uid \in 1..N
    OBVIOUS
  <2>1. c \in Copies /\ c.folder = f /\ number[c] \in 1..N
    BY <1>1, <1>2, <1>5
  <2>2. number[c] \in Nat \ {0}
    <3> HIDE DEF N
    <3> QED
      BY <1>2, <2>1
  <2> QED
    BY <2>1, <2>2 DEF Copies
<1>7. F \in Surjection(here, renamed)
  BY Fun_IsSurj
<1>8. IsFiniteSet(renamed)
  BY <1>2, <1>7, FS_Surjection
<1> HIDE DEF B, N
<1>9. \A a, b \in renamed : a.uid = b.uid => a = b
  <2>1. \A c, d \in here : B(c).uid = B(d).uid => c = d
    BY <1>5, <1>6
  <2> QED
    BY <2>1
<1>10. renamed \subseteq Copies /\ \A a \in renamed : a.folder = f /\ a.uid \in 1..N
  BY <1>6
<1>11. remote' = (remote \ here) \cup renamed
  BY <1>3 DEF B
<1> HIDE DEF renamed
<1>12. IsFiniteSet(remote')
  BY <1>2, <1>8, <1>11, FS_Union
<1>13. validity' \in [Folders -> 1..MaxValidity] /\ validity[f] < validity'[f]
       /\ \A g \in Folders : g # f => validity'[g] = validity[g]
  <2>1. validity[f] \in 1..MaxValidity /\ MaxValidity \in Nat
    BY <1>1, OperationsAssumption
  <2>2. validity[f] + 1 \in 1..MaxValidity /\ validity[f] < validity[f] + 1
    BY <1>4, <2>1
  <2> QED
    BY <1>1, <1>4, <2>2
<1>14. nextUID' \in [Folders -> Nat \ {0}] /\ nextUID'[f] = N + 1
       /\ \A g \in Folders : g # f => nextUID'[g] = nextUID[g]
  BY <1>1, <1>2, <1>4
<1>15. ServerTyped'
  BY <1>1, <1>10, <1>11, <1>12, <1>13, <1>14 DEF ServerTyped
<1>16. \A c \in remote' : \/ c \in remote /\ c.folder # f
                          \/ c \in renamed
  BY <1>11
<1>17. \A c \in remote' : c.uid < nextUID'[c.folder]
  <2> SUFFICES ASSUME NEW c \in remote' PROVE c.uid < nextUID'[c.folder]
    OBVIOUS
  <2>1. CASE c \in remote /\ c.folder # f
    BY <1>1, <1>14, <2>1 DEF UniqueUIDs, Copies
  <2>2. CASE c \in renamed
    BY <1>2, <1>10, <1>14, <2>2
  <2> QED
    BY <1>16, <2>1, <2>2
<1>18. \A c, d \in remote' : c.folder = d.folder /\ c.uid = d.uid => c = d
  BY <1>9, <1>10, <1>16 DEF UniqueUIDs
<1>19. \A g \in Folders : Advances(g)
  <2> SUFFICES ASSUME NEW g \in Folders PROVE Advances(g)
    OBVIOUS
  <2>1. CASE g = f
    BY <1>13, <2>1 DEF Advances
  <2>2. CASE g # f
    BY <1>1, <1>10, <1>13, <1>14, <1>16, <2>2 DEF Advances
  <2> QED
    BY <2>1, <2>2
<1> QED
  BY <1>15, <1>17, <1>18, <1>19 DEF ServerSound, UniqueUIDs

(* Every step.                                                              *)
LEMMA ServerStep ==
  ASSUME Typed, UniqueUIDs, Busy, [Next]_vars
  PROVE  ServerSound
<1>0. ServerTyped
  BY DEF Typed
<1>1. CASE UNCHANGED server
  BY <1>0, <1>1, RemoveStep DEF server
<1>2. CASE Transfer
  <2>1. PICK S \in SUBSET Selected : Transfers(S)
    BY <1>2, TransferFacts
  <2>2. worker.pc = "selected" /\ UNCHANGED validity /\ Current.to \in Folders
    BY <1>2, CurrentFacts DEF Transfer
  <2>3. S \subseteq remote /\ \A c, d \in S : c.uid = d.uid => c = d
    BY <2>2, SelectedFacts
  <2>4. nextUID' = [nextUID EXCEPT ![Current.to] = @ + Cardinality(S)]
    BY <2>1 DEF Transfers
  <2>5. CASE remote' = remote \cup Appended(S, Current.to)
    BY <1>0, <2>2, <2>3, <2>4, <2>5, AppendStep
  <2>6. CASE remote' = (remote \ S) \cup Appended(S, Current.to)
    BY <1>0, <2>2, <2>3, <2>4, <2>6, AppendStep
  <2> QED
    BY <2>1, <2>5, <2>6 DEF Transfers
<1>3. CASE Expunge
  <2>1. remote' \subseteq remote /\ UNCHANGED <<validity, nextUID>>
    BY <1>3 DEF Expunge
  <2> QED
    BY <1>0, <2>1, RemoveStep
<1>4. ASSUME NEW c \in remote, OtherClientExpunges(c) PROVE ServerSound
  <2>1. remote' \subseteq remote /\ UNCHANGED <<validity, nextUID>>
    BY <1>4 DEF OtherClientExpunges
  <2> QED
    BY <1>0, <2>1, RemoveStep
<1>5. ASSUME NEW c \in remote, NEW f \in Folders, OtherClientTransfers(c, f) PROVE ServerSound
  <2>1. PICK gone \in {{}, {c}} : remote' = (remote \ gone) \cup Appended({c}, f)
    BY <1>5 DEF OtherClientTransfers
  <2>2. Cardinality({c}) = 1
    BY FS_Singleton
  <2>3. nextUID' = [nextUID EXCEPT ![f] = @ + Cardinality({c})] /\ UNCHANGED validity
    BY <1>5, <2>2 DEF OtherClientTransfers
  <2>4. {c} \in SUBSET remote /\ (\A a, b \in {c} : a.uid = b.uid => a = b) /\ remote \ gone \in SUBSET remote
    OBVIOUS
  <2> QED
    BY <1>0, <2>1, <2>3, <2>4, AppendStep
<1>6. ASSUME NEW f \in Folders, Recreate(f) PROVE ServerSound
  BY <1>0, <1>6, RecreateStep
<1>7. CASE \E o \in Ops, k \in Kinds, T \in SUBSET messages, f \in Folders : CreateOperation(o, k, T, f)
  BY <1>1, <1>7 DEF CreateOperation
<1>8. CASE \E o \in Ops : WindowCloses(o) \/ UndoOperation(o)
  BY <1>1, <1>8 DEF WindowCloses, UndoOperation
<1>9. CASE WorkerStep
  BY <1>1, <1>2, <1>3, <1>9 DEF WorkerStep, ClaimOperation, LoadOperation, SelectLocationGroup,
     StoreFlags, CommitProgress, CommitFails, AllGroupsDone, FinishOperation, FinishFails
<1>10. CASE PassStep \/ Restart
  BY <1>1, <1>10 DEF PassStep, PendingOperationIDs, SelectFolder, PrepareFolder, ListFolder, StoreMessages,
     ReconcileFolder, Restart
<1>11. CASE UNCHANGED vars
  BY <1>1, <1>11 DEF vars
<1> QED
  BY <1>4, <1>5, <1>6, <1>7, <1>8, <1>9, <1>10, <1>11 DEF Next

-----------------------------------------------------------------------------
(* The operations table.  An operation once created keeps what it is for,   *)
(* and only one that starts, ends, is undone or is taken over by the user   *)
(* changes its status.                                                      *)
Kept(o) ==
  op[o].status # "none" =>
    /\ op'[o].status # "none" /\ op'[o].kind = op[o].kind
    /\ op'[o].targets = op[o].targets /\ op'[o].to = op[o].to
Goes(o) ==
  \/ op'[o].status = op[o].status
  \/ op[o].status = "none" /\ op'[o].status = "queued"
  \/ op[o].status = "queued" /\ op'[o].status = "cancelled"
  \/ /\ op[o].status = "queued" /\ op'[o].status = "running"
     /\ ClaimOperation /\ worker'.op = o
  \/ op[o].status \in {"queued", "running"} /\ op'[o].status = "needs_attention"
  \/ op[o].status = "running" /\ Restart /\ op'[o].status = "unknown"
  \/ /\ op[o].status = "running" /\ op'[o].status = worker.outcome
     /\ FinishOperation /\ o = worker.op
OpsSound == OpsTyped' /\ \A o \in Ops : Kept(o) /\ Goes(o)

(* Setting the status of one operation.                                     *)
LEMMA StatusChanges ==
  ASSUME op \in [Ops -> OpStates], NEW o \in Ops, NEW s \in Statuses,
         op' = [op EXCEPT ![o].status = s]
  PROVE  /\ op' \in [Ops -> OpStates] /\ op'[o].status = s /\ op'[o].kind = op[o].kind
         /\ op'[o].targets = op[o].targets /\ op'[o].to = op[o].to /\ op'[o].window = op[o].window
         /\ \A p \in Ops : p # o => op'[p] = op[p]
<1>1. [op[o] EXCEPT !.status = s] \in OpStates
  BY DEF OpStates
<1> QED
  BY <1>1 DEF OpStates

LEMMA CreateOps ==
  ASSUME OpsTyped, messages \subseteq Messages, IsFiniteSet(messages),
         NEW o \in Ops, NEW k \in Kinds, NEW T \in SUBSET messages, NEW f \in Folders,
         CreateOperation(o, k, T, f)
  PROVE  OpsSound /\ (\A p \in Ops : p # o => op'[p] = op[p]) /\ op[o].status = "none"
         /\ op'[o].status = "queued"
<1>1. k \in {"flag", "archive", "move", "trash", "delete"} /\ T \in TargetSets
  BY OperationsAssumption, FS_Subset DEF TargetSets
<1> DEFINE new == [status |-> "queued", kind |-> k, targets |-> T, to |-> f,
                   window |-> k \in {"archive", "trash"}]
<1>2. new \in OpStates /\ new.status = "queued"
  BY <1>1 DEF OpStates, Statuses
<1> HIDE DEF new
<1>3. op' = [op EXCEPT ![o] = new] /\ op[o].status = "none"
  BY DEF CreateOperation, new
<1>4. op' \in [Ops -> OpStates] /\ op'[o] = new /\ \A p \in Ops : p # o => op'[p] = op[p]
  BY <1>2, <1>3 DEF OpsTyped
<1>5. ready' \in Seq(Ops)
  BY DEF CreateOperation, OpsTyped
<1> QED
  BY <1>2, <1>3, <1>4, <1>5 DEF OpsSound, OpsTyped, Kept, Goes

LEMMA WindowOps ==
  ASSUME OpsTyped, NEW o \in Ops, WindowCloses(o)
  PROVE  OpsSound /\ \A p \in Ops : op'[p].status = op[p].status
<1>1. op' = [op EXCEPT ![o].window = FALSE] /\ op \in [Ops -> OpStates]
  BY DEF WindowCloses, OpsTyped
<1>2. [op[o] EXCEPT !.window = FALSE] \in OpStates
  BY <1>1 DEF OpStates
<1>3. /\ op' \in [Ops -> OpStates] /\ op'[o].status = op[o].status /\ op'[o].kind = op[o].kind
      /\ op'[o].targets = op[o].targets /\ op'[o].to = op[o].to
      /\ \A p \in Ops : p # o => op'[p] = op[p]
  BY <1>1, <1>2 DEF OpStates
<1>4. ready' \in Seq(Ops)
  BY DEF WindowCloses, OpsTyped
<1>5. \A p \in Ops : op'[p].status = op[p].status
  BY <1>3
<1> QED
  BY <1>3, <1>4, <1>5 DEF OpsSound, OpsTyped, Kept, Goes

LEMMA UndoOps ==
  ASSUME OpsTyped, NEW o \in Ops, UndoOperation(o)
  PROVE  OpsSound /\ (\A p \in Ops : p # o => op'[p] = op[p])
         /\ op[o].status = "queued" /\ op'[o].status = "cancelled"
<1>1. /\ op' = [op EXCEPT ![o].status = "cancelled", ![o].window = FALSE]
      /\ op \in [Ops -> OpStates] /\ op[o].status = "queued" /\ UNCHANGED ready
  BY DEF UndoOperation, OpsTyped
<1>2. [op[o] EXCEPT !.status = "cancelled", !.window = FALSE] \in OpStates
  BY <1>1 DEF OpStates, Statuses
<1>3. /\ op' \in [Ops -> OpStates] /\ op'[o].status = "cancelled" /\ op'[o].kind = op[o].kind
      /\ op'[o].targets = op[o].targets /\ op'[o].to = op[o].to
      /\ \A p \in Ops : p # o => op'[p] = op[p]
  BY <1>1, <1>2 DEF OpStates, Statuses
<1> QED
  BY <1>1, <1>3 DEF OpsSound, OpsTyped, Kept, Goes

LEMMA ClaimOps == ASSUME Typed, ClaimOperation PROVE OpsSound
<1>1. PICK o \in Ops :
        /\ op[o].status = "queued" /\ op' = [op EXCEPT ![o].status = "running"]
        /\ worker'.op = o /\ ready' \in Seq(Ops)
  BY ClaimFacts
<1>2. OpsTyped
  BY DEF Typed
<1>3. /\ op' \in [Ops -> OpStates] /\ op'[o].status = "running" /\ op'[o].kind = op[o].kind
      /\ op'[o].targets = op[o].targets /\ op'[o].to = op[o].to
      /\ \A p \in Ops : p # o => op'[p] = op[p]
  BY <1>1, <1>2, StatusChanges DEF OpsTyped, Statuses
<1> QED
  BY <1>1, <1>3 DEF OpsSound, OpsTyped, Kept, Goes

LEMMA FinishOps == ASSUME Typed, Busy, FinishOperation PROVE OpsSound
<1>1. /\ OpsTyped /\ worker.op \in Ops /\ UNCHANGED ready
      /\ worker.outcome \in Statuses /\ worker.outcome # "none"
  BY CurrentFacts DEF Typed, Busy, FinishOperation, WorkerStates, Statuses
<1>2. CASE op[worker.op].status = "running"
  <2>1. op' = [op EXCEPT ![worker.op].status = worker.outcome]
    BY <1>2 DEF FinishOperation, StillRunning
  <2>2. /\ op' \in [Ops -> OpStates] /\ op'[worker.op].status = worker.outcome
        /\ op'[worker.op].kind = op[worker.op].kind
        /\ op'[worker.op].targets = op[worker.op].targets /\ op'[worker.op].to = op[worker.op].to
        /\ \A p \in Ops : p # worker.op => op'[p] = op[p]
    BY <1>1, <2>1, StatusChanges DEF OpsTyped
  <2> QED
    BY <1>1, <1>2, <2>2 DEF OpsSound, OpsTyped, Kept, Goes
<1>3. CASE op[worker.op].status # "running"
  <2>1. UNCHANGED op
    BY <1>3 DEF FinishOperation, StillRunning
  <2> QED
    BY <1>1, <2>1 DEF OpsSound, OpsTyped, Kept, Goes
<1> QED
  BY <1>2, <1>3

LEMMA PrepareOps ==
  ASSUME OpsTyped, PrepareFolder
  PROVE  OpsSound
         /\ \/ op' = op
            \/ \A o \in Ops :
                 \/ op'[o] = op[o]
                 \/ /\ op[o].status \in {"queued", "running"} /\ op'[o].status = "needs_attention"
                    /\ op'[o].window = FALSE
<1>1. CASE UNCHANGED op
  BY <1>1 DEF OpsSound, OpsTyped, Kept, Goes, PrepareFolder
<1>2. CASE op' = [o \in Ops |->
               IF o \in pass.pending /\ op[o].status \in {"queued", "running"}
               THEN [op[o] EXCEPT !.status = "needs_attention", !.window = FALSE] ELSE op[o]]
  <2>1. ASSUME NEW o \in Ops
        PROVE  LET q == [op[o] EXCEPT !.status = "needs_attention", !.window = FALSE]
               IN  q \in OpStates /\ q.status = "needs_attention" /\ q.window = FALSE
                   /\ q.kind = op[o].kind /\ q.targets = op[o].targets /\ q.to = op[o].to
    BY DEF OpsTyped, OpStates, Statuses
  <2>2. op' \in [Ops -> OpStates]
    BY <1>2, <2>1 DEF OpsTyped
  <2>3. ASSUME NEW o \in Ops
        PROVE  \/ op'[o] = op[o]
               \/ /\ op[o].status \in {"queued", "running"} /\ op'[o].status = "needs_attention"
                  /\ op'[o].window = FALSE /\ op'[o].kind = op[o].kind
                  /\ op'[o].targets = op[o].targets /\ op'[o].to = op[o].to
    BY <1>2, <2>1
  <2> QED
    BY <2>2, <2>3 DEF OpsSound, OpsTyped, Kept, Goes, PrepareFolder
<1> QED
  BY <1>1, <1>2 DEF PrepareFolder

LEMMA RestartOps ==
  ASSUME OpsTyped, Restart
  PROVE  OpsSound
         /\ \A o \in Ops : \/ op'[o] = op[o]
                           \/ /\ op[o].status = "running" /\ op'[o].status = "unknown"
                              /\ op'[o].window = op[o].window
<1>1. op' = [o \in Ops |-> IF op[o].status = "running" THEN [op[o] EXCEPT !.status = "unknown"] ELSE op[o]]
  BY DEF Restart, StillRunning, Recovered
<1>2. ASSUME NEW o \in Ops
      PROVE  LET q == [op[o] EXCEPT !.status = "unknown"]
             IN  q \in OpStates /\ q.status = "unknown" /\ q.window = op[o].window
                 /\ q.kind = op[o].kind /\ q.targets = op[o].targets /\ q.to = op[o].to
  BY DEF OpsTyped, OpStates, Statuses
<1>3. op' \in [Ops -> OpStates]
  BY <1>1, <1>2 DEF OpsTyped
<1>4. ASSUME NEW o \in Ops
      PROVE  \/ op'[o] = op[o]
             \/ /\ op[o].status = "running" /\ op'[o].status = "unknown"
                /\ op'[o].window = op[o].window /\ op'[o].kind = op[o].kind
                /\ op'[o].targets = op[o].targets /\ op'[o].to = op[o].to
  BY <1>1, <1>2
<1> QED
  BY <1>3, <1>4 DEF OpsSound, OpsTyped, Kept, Goes, Restart

LEMMA OpsStep == ASSUME Typed, Busy, [Next]_vars PROVE OpsSound
<1>0. OpsTyped /\ messages \subseteq Messages /\ IsFiniteSet(messages)
  BY DEF Typed, TablesTyped
<1>1. CASE UNCHANGED opTables
  BY <1>0, <1>1 DEF opTables, OpsSound, OpsTyped, Kept, Goes
<1>2. CASE \E o \in Ops, k \in Kinds, T \in SUBSET messages, f \in Folders : CreateOperation(o, k, T, f)
  BY <1>0, <1>2, CreateOps
<1>3. CASE \E o \in Ops : WindowCloses(o) \/ UndoOperation(o)
  BY <1>0, <1>3, WindowOps, UndoOps
<1>4. CASE WorkerStep
  BY <1>1, <1>4, ClaimOps, FinishOps DEF WorkerStep, LoadOperation, SelectLocationGroup,
     StoreFlags, Transfer, Expunge, CommitProgress, CommitFails, AllGroupsDone, FinishFails
<1>5. CASE PassStep \/ Restart
  BY <1>0, <1>1, <1>5, PrepareOps, RestartOps DEF PassStep, PendingOperationIDs, SelectFolder, ListFolder,
     StoreMessages, ReconcileFolder
<1>6. CASE \/ \E c \in remote : OtherClientExpunges(c) \/ \E f \in Folders : OtherClientTransfers(c, f)
           \/ \E f \in Folders : Recreate(f)
  BY <1>1, <1>6 DEF OtherClientExpunges, OtherClientTransfers, Recreate
<1>7. CASE UNCHANGED vars
  BY <1>1, <1>7 DEF vars
<1> QED
  BY <1>2, <1>3, <1>4, <1>5, <1>6, <1>7 DEF Next

-----------------------------------------------------------------------------
(* The mail tables, the pass, the history and the bounds keep their types.  *)
(* A pass that has prepared its folder knows a UIDVALIDITY it once had.     *)
PassValid ==
  pass.pc \in {"selected", "prepared", "listed", "stored"} => pass.validity \in 1..validity[pass.folder]

LEMMA WithLocationFacts ==
  ASSUME TablesTyped, NEW rows \in SUBSET locations, locations' = rows,
         messages' = WithLocation(rows), checkpoint' \in [Folders -> 1..MaxValidity]
  PROVE  TablesTyped'
<1>1. messages' \in SUBSET messages /\ messages' \subseteq Messages
  BY DEF WithLocation, TablesTyped
<1>2. IsFiniteSet(messages')
  BY <1>1, FS_Subset DEF TablesTyped
<1> QED
  BY <1>1, <1>2 DEF WithLocation, TablesTyped

LEMMA CommitTables ==
  ASSUME Typed, Busy, CommitProgress
  PROVE  TablesTyped'
<1>1. /\ worker.pc = "commit" /\ {r.msg : r \in Arrivals} \subseteq messages /\ UNCHANGED checkpoint
      /\ locations' = IF Current.kind = "flag" THEN locations ELSE AfterMove
      /\ messages' = IF Current.kind = "delete" THEN Remaining(AfterMove) ELSE messages
  BY DEF CommitProgress
<1>2. TablesTyped
  BY DEF Typed
<1>3. Arrivals \subseteq Rows /\ \A a \in Arrivals : a.msg \in messages
  BY <1>1, ArrivalsFacts
<1>4. AfterMove \subseteq locations \cup Arrivals
  BY DEF AfterMove
<1> HIDE DEF AfterMove, Arrivals
<1>5. AfterMove \subseteq Rows /\ \A r \in AfterMove : r.msg \in messages
  BY <1>2, <1>3, <1>4 DEF TablesTyped
<1>6. locations' \subseteq Rows /\ \A r \in locations' : r.msg \in messages
  BY <1>1, <1>2, <1>5 DEF TablesTyped
<1>7. messages' \in SUBSET messages
  BY <1>1 DEF Remaining
<1>8. IsFiniteSet(messages') /\ messages' \subseteq Messages
  BY <1>2, <1>7, FS_Subset DEF TablesTyped
<1>9. \A r \in locations' : r.msg \in messages'
  BY <1>1, <1>6 DEF Remaining
<1> QED
  BY <1>1, <1>2, <1>6, <1>8, <1>9 DEF TablesTyped

LEMMA StoreTables ==
  ASSUME Typed, PassValid, StoreMessages
  PROVE  TablesTyped'
<1>1. TablesTyped /\ pass \in PassStates /\ pass.pc = "listed" /\ UNCHANGED checkpoint
  BY DEF Typed, StoreMessages
<1>2. CASE UNCHANGED <<locations, messages>>
  BY <1>1, <1>2 DEF TablesTyped
<1>3. ASSUME NEW c \in pass.listed, NEW m \in MessagesFor(c),
             locations' = locations \cup {[msg |-> m, folder |-> c.folder,
                                           validity |-> pass.validity, uid |-> c.uid]},
             messages' = messages \cup {m}
      PROVE  TablesTyped'
  <2>1. c \in Copies
    BY <1>1 DEF PassStates
  <2>2. m \in Messages
    BY <2>1, MessagesForFacts
  <2>3. pass.validity \in 1..MaxValidity
    <3>1. pass.folder \in Folders /\ validity[pass.folder] \in 1..MaxValidity
      BY <1>1 DEF Typed, ServerTyped, PassStates
    <3> QED
      BY <1>1, <3>1, OperationsAssumption DEF PassValid
  <2> DEFINE new == [msg |-> m, folder |-> c.folder, validity |-> pass.validity, uid |-> c.uid]
  <2>4. new \in Rows /\ new.msg = m
    BY <2>1, <2>2, <2>3 DEF Rows, Copies
  <2> HIDE DEF new
  <2>5. locations' = locations \cup {new}
    BY <1>3 DEF new
  <2>6. IsFiniteSet(messages')
    BY <1>1, <1>3, FS_AddElement DEF TablesTyped
  <2> QED
    BY <1>1, <1>3, <2>2, <2>4, <2>5, <2>6 DEF TablesTyped
<1> QED
  BY <1>2, <1>3 DEF StoreMessages

LEMMA TablesStep ==
  ASSUME Typed, Busy, PassValid, [Next]_vars
  PROVE  TablesTyped'
<1>0. TablesTyped
  BY DEF Typed
<1>1. CASE UNCHANGED mailTables
  BY <1>0, <1>1 DEF mailTables, TablesTyped
<1>2. CASE PrepareFolder
  <2> DEFINE f == pass.folder
  <2>1. f \in Folders /\ pass.validity \in 1..MaxValidity
    <3>1. f \in Folders /\ validity[f] \in 1..MaxValidity
      BY DEF Typed, PassStates, ServerTyped
    <3>2. pass.validity \in 1..validity[f]
      BY <1>2 DEF PassValid, PrepareFolder
    <3> QED
      BY <3>1, <3>2, OperationsAssumption
  <2>2. checkpoint' \in [Folders -> 1..MaxValidity]
    BY <1>0, <1>2, <2>1 DEF PrepareFolder, TablesTyped
  <2> DEFINE kept == {r \in locations : r.folder # f}
  <2>3. CASE locations' = kept /\ messages' = WithLocation(kept)
    BY <1>0, <2>2, <2>3, WithLocationFacts
  <2>4. CASE UNCHANGED <<locations, messages>>
    BY <1>0, <2>2, <2>4 DEF TablesTyped
  <2> QED
    BY <1>2, <2>3, <2>4 DEF PrepareFolder
<1>3. CASE ReconcileFolder
  <2> DEFINE kept == {r \in locations :
                        r.folder = pass.folder =>
                          /\ r.validity = pass.validity
                          /\ r.uid >= pass.next \/ \E c \in pass.listed : c.uid = r.uid}
  <2>1. locations' = kept /\ messages' = WithLocation(kept) /\ UNCHANGED checkpoint
    BY <1>3 DEF ReconcileFolder
  <2>2. kept \in SUBSET locations
    OBVIOUS
  <2> HIDE DEF kept
  <2>3. checkpoint' \in [Folders -> 1..MaxValidity]
    BY <1>0, <2>1 DEF TablesTyped
  <2> QED
    BY <1>0, <2>1, <2>2, <2>3, WithLocationFacts
<1>4. CASE WorkerStep
  BY <1>1, <1>4, CommitTables DEF WorkerStep, ClaimOperation, LoadOperation, SelectLocationGroup,
     StoreFlags, Transfer, Expunge, CommitFails, AllGroupsDone, FinishOperation, FinishFails
<1>5. CASE PassStep
  BY <1>1, <1>2, <1>3, <1>5, StoreTables DEF PassStep, PendingOperationIDs, SelectFolder, ListFolder
<1>6. CASE ~(WorkerStep \/ PassStep)
  BY <1>1, <1>6 DEF Next, vars, CreateOperation, WindowCloses, UndoOperation, Restart,
     OtherClientExpunges, OtherClientTransfers, Recreate
<1> QED
  BY <1>4, <1>5, <1>6

LEMMA IdlePassState == IdlePass \in PassStates /\ IdlePass.pc = "idle" /\ IdlePass.listed = {}
BY OperationsAssumption DEF IdlePass, PassStates, PassPCs, Folders

(* The effect of the pass's steps on the pass.                              *)
PassMoves ==
  \/ UNCHANGED pass
  \/ pass' = IdlePass
  \/ /\ pass'.pc = "read" /\ pass'.listed = {}
  \/ /\ SelectFolder /\ pass'.pc = "selected" /\ pass'.folder = pass.folder
     /\ pass'.validity = validity[pass.folder] /\ pass'.next = nextUID[pass.folder]
     /\ pass'.listed = pass.listed
  \/ /\ PrepareFolder /\ pass'.pc = "prepared" /\ pass'.folder = pass.folder
     /\ pass'.validity = pass.validity /\ pass'.next = pass.next /\ pass'.listed = pass.listed
  \/ /\ ListFolder /\ pass'.pc = "listed" /\ pass'.folder = pass.folder
     /\ pass'.validity = pass.validity /\ pass'.next = pass.next
     /\ validity[pass.folder] = pass.validity
     /\ pass'.listed = {c \in remote : c.folder = pass.folder}
  \/ /\ StoreMessages /\ pass'.pc = "stored" /\ pass'.folder = pass.folder
     /\ pass'.validity = pass.validity /\ pass'.next = pass.next /\ pass'.listed = pass.listed

LEMMA PassStepFacts ==
  ASSUME Typed, [Next]_vars
  PROVE  pass' \in PassStates /\ PassMoves
<1>0. pass \in PassStates /\ pass.folder \in Folders
  BY DEF Typed, PassStates
<1>1. CASE UNCHANGED pass
  BY <1>0, <1>1 DEF PassMoves
<1>2. ASSUME NEW f \in Folders, PendingOperationIDs(f) PROVE pass' \in PassStates /\ PassMoves
  BY <1>2, IdlePassState DEF PendingOperationIDs, PassMoves, PassStates, PassPCs
<1>3. CASE SelectFolder \/ PrepareFolder
  <2>1. CASE SelectFolder
    <3>1. pass' = [pass EXCEPT !.pc = "selected", !.validity = validity[pass.folder],
                               !.next = nextUID[pass.folder]]
      BY <2>1 DEF SelectFolder
    <3>2. validity[pass.folder] \in 0..MaxValidity /\ nextUID[pass.folder] \in Nat
      BY <1>0 DEF Typed, ServerTyped
    <3> QED
      BY <1>0, <2>1, <3>1, <3>2 DEF PassMoves, PassStates, PassPCs
  <2>2. CASE PrepareFolder
    <3>1. pass' = [pass EXCEPT !.pc = "prepared"]
      BY <2>2 DEF PrepareFolder
    <3> QED
      BY <1>0, <2>2, <3>1 DEF PassMoves, PassStates, PassPCs
  <2> QED
    BY <1>3, <2>1, <2>2
<1>4. CASE ListFolder
  <2>1. CASE pass' = IdlePass
    BY <2>1, IdlePassState DEF PassMoves
  <2>2. CASE pass' # IdlePass
    <3> DEFINE here == {c \in remote : c.folder = pass.folder}
    <3>1. pass' = [pass EXCEPT !.pc = "listed", !.listed = here] /\ validity[pass.folder] = pass.validity
      BY <1>4, <2>2 DEF ListFolder
    <3>2. here \in SUBSET Copies
      BY DEF Typed, ServerTyped
    <3> HIDE DEF here
    <3>3. pass' \in PassStates /\ pass'.pc = "listed" /\ pass'.folder = pass.folder
          /\ pass'.validity = pass.validity /\ pass'.next = pass.next /\ pass'.listed = here
      BY <1>0, <3>1, <3>2 DEF PassStates, PassPCs
    <3> QED
      BY <1>4, <3>1, <3>3 DEF PassMoves, here
  <2> QED
    BY <2>1, <2>2
<1>5. CASE StoreMessages
  <2>1. CASE pass' = [pass EXCEPT !.pc = "stored"]
    BY <1>0, <1>5, <2>1 DEF PassMoves, PassStates, PassPCs
  <2> QED
    BY <1>1, <1>5, <2>1 DEF StoreMessages
<1>6. CASE ReconcileFolder \/ Restart
  BY <1>6, IdlePassState DEF ReconcileFolder, Restart, PassMoves
<1>7. CASE PassStep
  BY <1>2, <1>3, <1>4, <1>5, <1>6, <1>7 DEF PassStep
<1>8. CASE WorkerStep
  BY <1>1, <1>8 DEF WorkerStep, ClaimOperation, LoadOperation, SelectLocationGroup, StoreFlags,
     Transfer, Expunge, CommitProgress, CommitFails, AllGroupsDone, FinishOperation, FinishFails
<1>9. CASE ~(WorkerStep \/ PassStep \/ Restart)
  BY <1>1, <1>9 DEF Next, vars, CreateOperation, WindowCloses, UndoOperation,
     OtherClientExpunges, OtherClientTransfers, Recreate
<1> QED
  BY <1>6, <1>7, <1>8, <1>9

LEMMA PassValidStep ==
  ASSUME Typed, PassValid, ServerSound, [Next]_vars
  PROVE  PassValid'
<1>1. pass' \in PassStates /\ PassMoves /\ pass \in PassStates /\ pass.folder \in Folders
  BY PassStepFacts DEF Typed, PassStates
<1>2. validity \in [Folders -> 1..MaxValidity] /\ validity' \in [Folders -> 1..MaxValidity]
  BY DEF Typed, ServerTyped, ServerSound
<1>3. MaxValidity \in Nat
  BY OperationsAssumption
<1>4. \A f \in Folders : validity[f] <= validity'[f]
  BY <1>2, <1>3 DEF ServerSound, Advances
<1>5. validity[pass.folder] \in 1..validity[pass.folder]
  BY <1>1, <1>2, <1>3
<1>6. \A v : v \in 1..validity[pass.folder] => v \in 1..validity'[pass.folder]
  BY <1>1, <1>2, <1>3, <1>4
<1>7. CASE UNCHANGED pass
  BY <1>6, <1>7 DEF PassValid
<1>8. CASE pass' = IdlePass
  BY <1>8, IdlePassState DEF PassValid
<1>9. CASE SelectFolder \/ PrepareFolder
  BY <1>1, <1>5, <1>6, <1>7, <1>8, <1>9
     DEF PassValid, PassMoves, SelectFolder, PrepareFolder, ListFolder, StoreMessages
<1>10. CASE ListFolder
  BY <1>1, <1>6, <1>7, <1>8, <1>10
     DEF PassValid, PassMoves, SelectFolder, PrepareFolder, ListFolder, StoreMessages
<1>11. CASE StoreMessages
  BY <1>1, <1>6, <1>7, <1>8, <1>11
     DEF PassValid, PassMoves, SelectFolder, PrepareFolder, ListFolder, StoreMessages
<1> QED
  BY <1>1, <1>7, <1>8, <1>9, <1>10, <1>11 DEF PassMoves, PassValid

-----------------------------------------------------------------------------
(* The worker.  What STORE and EXPUNGE do to it, and what its remaining     *)
(* steps do.                                                                *)
Commands(S) ==
  /\ S \subseteq Selected /\ Touch(S) /\ SameTask /\ SameGroup
  /\ worker'.moved = worker.moved /\ worker'.committed = worker.committed
  /\ \/ worker'.pc = "finish" /\ worker'.outcome = "unknown"
     \/ worker'.pc = "commit" /\ SessionIsGood /\ S = Selected

LEMMA StoreFlagsFacts ==
  ASSUME Typed, StoreFlags
  PROVE  worker' \in WorkerStates /\ \E S \in SUBSET Selected : Commands(S)
<1>1. PICK S \in SUBSET Selected : Touch(S) /\ (Finish("unknown") \/ (Answers(S) /\ Goto("commit")))
  BY DEF StoreFlags
<1>2. worker \in WorkerStates
  BY DEF Typed
<1>3. CASE Finish("unknown")
  BY <1>1, <1>2, <1>3, FinishFacts DEF Commands
<1>4. CASE Answers(S) /\ Goto("commit")
  <2>1. "commit" \in WorkerPCs
    BY DEF WorkerPCs
  <2> QED
    BY <1>1, <1>2, <1>4, <2>1, GotoFacts DEF Commands, Answers
<1> QED
  BY <1>1, <1>3, <1>4

LEMMA ExpungeFacts ==
  ASSUME Typed, Expunge
  PROVE  /\ worker' \in WorkerStates
         /\ \E S \in SUBSET Selected :
              /\ Commands(S) /\ remote' = remote \ S
              /\ removed' = removed \cup
                   MailsOf({c \in S : Current.kind = "delete" /\ c.folder = "trash"})
<1>1. PICK S \in SUBSET Selected :
        /\ remote' = remote \ S
        /\ Touch(S)
        /\ removed' = removed \cup MailsOf({c \in S : Current.kind = "delete" /\ c.folder = "trash"})
        /\ Finish("unknown") \/ (Answers(S) /\ Goto("commit"))
  BY DEF Expunge
<1>2. worker \in WorkerStates
  BY DEF Typed
<1>3. worker' \in WorkerStates /\ Commands(S)
  <2>1. CASE Finish("unknown")
    BY <1>1, <1>2, <2>1, FinishFacts DEF Commands
  <2>2. CASE Answers(S) /\ Goto("commit")
    <3>1. "commit" \in WorkerPCs
      BY DEF WorkerPCs
    <3> QED
      BY <1>1, <1>2, <2>2, <3>1, GotoFacts DEF Commands, Answers
  <2> QED
    BY <1>1, <2>1, <2>2
<1> QED
  BY <1>1, <1>3

(* The steps that only end an operation, or the worker's hold on it.        *)
Ends ==
  /\ worker' \in WorkerStates
  /\ \/ worker' = IdleWorker
     \/ /\ SameTask /\ SameGroup /\ worker.pc # "idle" /\ worker'.pc = "finish"
        /\ worker'.moved = worker.moved /\ worker'.committed = worker.committed
        /\ \/ worker'.outcome = "unknown"
           \/ AllGroupsDone /\ worker'.outcome = "succeeded"
           \/ worker.pc = "finish" /\ worker.outcome = "succeeded" /\ worker'.outcome = Partial

LEMMA EndsFacts ==
  ASSUME Typed, CommitFails \/ AllGroupsDone \/ FinishOperation \/ FinishFails \/ Restart
  PROVE  Ends
<1>1. worker \in WorkerStates
  BY DEF Typed
<1>2. CASE FinishOperation \/ Restart
  BY <1>2, IdleWorkerState DEF FinishOperation, Restart, Ends
<1>3. CASE CommitFails
  <2>1. worker.pc = "commit" /\ Finish("unknown")
    BY <1>3 DEF CommitFails
  <2> QED
    BY <1>1, <2>1, FinishFacts DEF Ends
<1>4. CASE AllGroupsDone
  <2>1. worker.pc = "select" /\ Finish("succeeded")
    BY <1>4 DEF AllGroupsDone
  <2> QED
    BY <1>1, <1>4, <2>1, FinishFacts DEF Ends
<1>5. CASE FinishFails
  <2>1. CASE worker.outcome = "succeeded"
    <3>1. worker.pc = "finish" /\ Finish(Partial)
      BY <1>5, <2>1 DEF FinishFails
    <3> QED
      BY <1>1, <2>1, <3>1, FinishFacts, PartialFacts DEF Ends
  <2>2. CASE worker.outcome # "succeeded"
    BY <1>5, <2>2, IdleWorkerState DEF FinishFails, Ends
  <2> QED
    BY <2>1, <2>2
<1> QED
  BY <1>2, <1>3, <1>4, <1>5

(* An idle worker holds nothing.                                            *)
LEMMA IdleBusy == ASSUME worker' = IdleWorker PROVE Busy'
BY IdleWorkerState DEF Busy

(* While the worker holds its operation nobody else ends it.                *)
LEMMA CurrentStays ==
  ASSUME Typed, Busy, OpsSound, worker.pc # "idle", ~FinishOperation, ~Restart
  PROVE  /\ worker.op \in Ops
         /\ op'[worker.op].status \in {"running", "needs_attention"}
         /\ op'[worker.op].kind = Current.kind /\ op'[worker.op].targets = Current.targets
         /\ op'[worker.op].to = Current.to
<1>1. worker.op \in Ops /\ Current = op[worker.op] /\ Current.status \in {"running", "needs_attention"}
  BY CurrentFacts DEF Current
<1>2. ~ClaimOperation
  BY DEF ClaimOperation
<1> QED
  BY <1>1, <1>2 DEF OpsSound, Kept, Goes

LEMMA BusyKeeps ==
  ASSUME Typed, Busy, OpsSound, SameTask, SameGroup, ~FinishOperation, ~Restart,
         worker.pc # "idle", worker'.pc # "idle",
         worker'.pc \in {"selected", "copied", "commit"} => worker.pc \in {"selected", "copied", "commit"},
         worker'.pc = "copied" => Moving, worker'.pc # "claimed",
         worker'.pc = "finish" => worker'.outcome # "none"
  PROVE  Busy'
<1> DEFINE o == worker.op
<1>1. /\ o \in Ops /\ op'[o].status \in {"running", "needs_attention"}
      /\ op'[o].kind = Current.kind /\ op'[o].targets = Current.targets
  BY CurrentStays
<1>2. worker'.op = o
  BY DEF SameTask
<1>3. Current' = op'[o]
  BY <1>2 DEF Current
<1> HIDE DEF o
<1>4. Moving' <=> Moving
  BY <1>1, <1>3 DEF Moving
<1>5. worker'.op \in Ops /\ Current'.status \in {"running", "needs_attention"}
  BY <1>1, <1>2, <1>3
<1>6. \A r \in worker'.chosen :
        r.msg \in Current'.targets /\ (Current'.kind = "delete" => r.folder = "trash")
  BY <1>1, <1>3 DEF Busy, SameTask
<1>7. worker'.todo \subseteq worker'.chosen /\ worker'.group \subseteq worker'.chosen
  BY DEF Busy, SameTask, SameGroup
<1>8. worker'.pc \in {"selected", "copied", "commit"} =>
        \A q, r \in worker'.group : q.folder = r.folder /\ r.validity = worker'.session
  BY DEF Busy, SameGroup
<1> QED
  BY <1>4, <1>5, <1>6, <1>7, <1>8 DEF Busy

LEMMA LoadBusy ==
  ASSUME Typed, Busy, OpsSound, LoadOperation
  PROVE  worker' \in WorkerStates /\ Busy'
<1>1. worker.pc = "claimed" /\ ~FinishOperation /\ ~Restart
  <2>1. UNCHANGED faults
    BY DEF LoadOperation, bounds
  <2>2. faults \in Nat
    BY DEF Typed, BoundsTyped
  <2>3. worker.pc = "claimed"
    BY DEF LoadOperation
  <2>4. ~FinishOperation
    BY <2>3 DEF FinishOperation
  <2>5. ~Restart
    BY <2>1, <2>2 DEF Restart, Fault
  <2> QED
    BY <2>3, <2>4, <2>5
<1>2. worker' \in WorkerStates /\ worker \in WorkerStates /\ (Plans \/ Finish("failed") \/ Finish("needs_attention"))
  BY LoadFacts DEF Typed
<1>3. CASE Finish("failed") \/ Finish("needs_attention")
  BY <1>1, <1>2, <1>3, FinishFacts, BusyKeeps
<1>4. CASE Plans
  <2> DEFINE o == worker.op
             rows == {r \in locations : r.msg \in Current.targets}
  <2>1. /\ o \in Ops /\ op'[o].status \in {"running", "needs_attention"}
        /\ op'[o].kind = Current.kind /\ op'[o].targets = Current.targets
    BY <1>1, CurrentStays
  <2>2. Current.kind \in {"flag", "archive", "move", "trash", "delete"}
    BY <1>1, CurrentFacts
  <2>3. PICK sources \in Choices(rows) :
           /\ worker'.op = o /\ worker'.chosen = sources /\ worker'.todo = sources
           /\ worker'.group = worker.group /\ worker'.pc \in {"select", "finish"}
           /\ worker'.pc = "finish" => worker'.outcome # "none"
    BY <1>4 DEF Plans
  <2>4. Current' = op'[o]
    BY <2>3 DEF Current
  <2>5. sources \subseteq rows /\ \A r \in sources : Current.kind = "delete" => r.folder = "trash"
    BY <2>2, SourcesFacts
  <2>6. \A r \in worker'.chosen :
          r.msg \in Current'.targets /\ (Current'.kind = "delete" => r.folder = "trash")
    BY <2>1, <2>3, <2>4, <2>5
  <2>7. worker.group = {}
    BY <1>1 DEF Busy
  <2> HIDE DEF o, rows
  <2>8. worker'.op \in Ops /\ Current'.status \in {"running", "needs_attention"}
    BY <2>1, <2>3, <2>4
  <2>9. worker'.todo \subseteq worker'.chosen /\ worker'.group \subseteq worker'.chosen
    BY <2>3, <2>7
  <2> QED
    BY <1>2, <2>3, <2>6, <2>8, <2>9 DEF Busy
<1> QED
  BY <1>2, <1>3, <1>4

LEMMA NotRestart == ASSUME Typed, UNCHANGED faults PROVE ~Restart
<1>1. faults \in Nat
  BY DEF Typed, BoundsTyped
<1> QED
  BY <1>1 DEF Restart, Fault

LEMMA SelectBusy ==
  ASSUME Typed, Busy, OpsSound, SelectLocationGroup
  PROVE  worker' \in WorkerStates /\ Busy'
<1>1. worker.pc = "select" /\ UNCHANGED faults
  BY DEF SelectLocationGroup, bounds
<1>2. ~FinishOperation /\ ~Restart
  BY <1>1, NotRestart DEF FinishOperation
<1>3. /\ worker' \in WorkerStates /\ worker \in WorkerStates
      /\ Selects \/ Finish("needs_attention") \/ Finish(Partial)
  BY SelectFacts DEF Typed
<1>4. CASE Finish("needs_attention") \/ Finish(Partial)
  BY <1>1, <1>2, <1>3, <1>4, FinishFacts, PartialFacts, BusyKeeps
<1>5. CASE Selects
  <2> DEFINE o == worker.op
  <2>1. /\ o \in Ops /\ op'[o].status \in {"running", "needs_attention"}
        /\ op'[o].kind = Current.kind /\ op'[o].targets = Current.targets
    BY <1>1, <1>2, CurrentStays
  <2>2. worker'.op = o /\ worker'.chosen = worker.chosen /\ worker'.pc = "selected"
    BY <1>5 DEF Selects, SameTask
  <2>3. Current' = op'[o]
    BY <2>2 DEF Current
  <2> HIDE DEF o
  <2>4. \A r \in worker'.chosen :
          r.msg \in Current'.targets /\ (Current'.kind = "delete" => r.folder = "trash")
    BY <2>1, <2>2, <2>3 DEF Busy
  <2>5. worker'.todo \subseteq worker'.chosen /\ worker'.group \subseteq worker'.chosen
    BY <1>5, <2>2 DEF Busy, Selects
  <2>6. \A q, r \in worker'.group : q.folder = r.folder /\ r.validity = worker'.session
    BY <1>5 DEF Selects
  <2>7. worker'.op \in Ops /\ Current'.status \in {"running", "needs_attention"}
    BY <2>1, <2>2, <2>3
  <2> QED
    BY <1>3, <2>2, <2>4, <2>5, <2>6, <2>7 DEF Busy
<1> QED
  BY <1>3, <1>4, <1>5

LEMMA ClaimBusy ==
  ASSUME Typed, Busy, OpsSound, ClaimOperation
  PROVE  worker' \in WorkerStates /\ Busy'
<1>1. PICK o \in Ops :
        /\ op[o].status = "queued" /\ op' = [op EXCEPT ![o].status = "running"]
        /\ worker' \in WorkerStates /\ worker'.pc = "claimed" /\ worker'.op = o
        /\ worker'.chosen = {} /\ worker'.todo = {} /\ worker'.group = {}
        /\ worker'.moved = {} /\ worker'.committed = FALSE
  BY ClaimFacts
<1>2. op'[o].status = "running"
  BY <1>1, StatusChanges DEF Typed, OpsTyped, Statuses
<1>3. Current'.status = "running"
  BY <1>1, <1>2 DEF Current
<1> QED
  BY <1>1, <1>3 DEF Busy

(* The steps that run commands, or finish a group.                          *)
LEMMA CommandBusy ==
  ASSUME Typed, UniqueUIDs, Busy, OpsSound, StoreFlags \/ Transfer \/ Expunge \/ CommitProgress
  PROVE  worker' \in WorkerStates /\ Busy'
<1>1. worker.pc \in {"selected", "copied", "commit"} /\ UNCHANGED faults
  BY DEF StoreFlags, Transfer, Expunge, CommitProgress, bounds
<1>2. ~FinishOperation /\ ~Restart
  BY <1>1, NotRestart DEF FinishOperation
<1>3. CASE StoreFlags \/ Expunge
  <2>1. worker' \in WorkerStates /\ \E S \in SUBSET Selected : Commands(S)
    BY <1>3, StoreFlagsFacts, ExpungeFacts
  <2>2. SameTask /\ SameGroup /\ worker'.pc \in {"finish", "commit"}
        /\ (worker'.pc = "finish" => worker'.outcome # "none")
    BY <2>1 DEF Commands
  <2> QED
    BY <1>1, <1>2, <2>1, <2>2, BusyKeeps
<1>4. CASE Transfer
  <2>1. worker' \in WorkerStates /\ \E S \in SUBSET Selected : Transfers(S)
    BY <1>4, TransferFacts
  <2>2. SameTask /\ SameGroup /\ worker'.pc \in {"finish", "commit", "copied"}
        /\ (worker'.pc = "finish" => worker'.outcome # "none")
    BY <2>1 DEF Transfers
  <2>3. Moving
    BY <1>4 DEF Transfer
  <2> QED
    BY <1>1, <1>2, <2>1, <2>2, <2>3, BusyKeeps
<1>5. CASE CommitProgress
  BY <1>1, <1>2, <1>5, CommitFacts, BusyKeeps
<1> QED
  BY <1>3, <1>4, <1>5

LEMMA EndsBusy ==
  ASSUME Typed, Busy, OpsSound, CommitFails \/ AllGroupsDone \/ FinishOperation \/ FinishFails \/ Restart
  PROVE  worker' \in WorkerStates /\ Busy'
<1>1. Ends
  BY EndsFacts
<1>2. CASE worker' = IdleWorker
  BY <1>1, <1>2, IdleBusy DEF Ends
<1>3. CASE worker' # IdleWorker
  <2>1. /\ SameTask /\ SameGroup /\ worker.pc # "idle" /\ worker'.pc = "finish"
        /\ worker'.outcome # "none" /\ worker' \in WorkerStates
    BY <1>1, <1>3, PartialFacts DEF Ends
  <2>2. ~FinishOperation /\ ~Restart
    BY <1>3 DEF FinishOperation, Restart
  <2> QED
    BY <2>1, <2>2, BusyKeeps
<1> QED
  BY <1>2, <1>3

LEMMA BusyStep ==
  ASSUME Typed, UniqueUIDs, Busy, OpsSound, [Next]_vars
  PROVE  worker' \in WorkerStates /\ Busy'
<1>1. CASE UNCHANGED <<worker, faults>>
  <2>1. worker \in WorkerStates /\ faults \in Nat
    BY DEF Typed, BoundsTyped
  <2>2. CASE worker.pc = "idle"
    BY <1>1, <2>1, <2>2, IdleBusy DEF Busy
  <2>3. CASE worker.pc # "idle"
    <3>1. ~Restart
      BY <1>1, <2>1 DEF Restart, Fault
    <3>2. ~FinishOperation
      BY <1>1, <2>3, IdleWorkerState DEF FinishOperation
    <3>3. CASE worker.pc # "claimed"
      BY <1>1, <2>1, <2>3, <3>1, <3>2, <3>3, BusyKeeps DEF SameTask, SameGroup, Busy
    <3>4. CASE worker.pc = "claimed"
      <4>1. /\ worker.op \in Ops /\ op'[worker.op].status \in {"running", "needs_attention"}
            /\ op'[worker.op].kind = Current.kind /\ op'[worker.op].targets = Current.targets
        BY <2>3, <3>1, <3>2, CurrentStays
      <4>2. Current' = op'[worker.op]
        BY <1>1 DEF Current
      <4>3. Current'.status \in {"running", "needs_attention"} /\ Current'.kind = Current.kind
            /\ Current'.targets = Current.targets
        BY <4>1, <4>2
      <4> QED
        BY <1>1, <2>1, <3>4, <4>1, <4>3 DEF Busy
    <3> QED
      BY <3>3, <3>4
  <2> QED
    BY <2>2, <2>3
<1>2. CASE WorkerStep
  BY <1>2, ClaimBusy, LoadBusy, SelectBusy, CommandBusy, EndsBusy DEF WorkerStep
<1>3. CASE Restart
  BY <1>3, EndsBusy
<1>4. CASE ~(WorkerStep \/ Restart)
  BY <1>1, <1>4 DEF Next, vars, bounds, CreateOperation, WindowCloses, UndoOperation, PassStep,
     PendingOperationIDs, SelectFolder, PrepareFolder, ListFolder, StoreMessages, ReconcileFolder,
     OtherClientExpunges, OtherClientTransfers, Recreate, Event
<1> QED
  BY <1>2, <1>3, <1>4

-----------------------------------------------------------------------------
(* Types and the worker's hold together.                                    *)
LEMMA HistoryStep == ASSUME Typed, UniqueUIDs, Busy, [Next]_vars PROVE HistoryTyped'
<1>0. HistoryTyped /\ remote \subseteq Copies
  BY DEF Typed, ServerTyped
<1>1. CASE UNCHANGED history
  BY <1>0, <1>1 DEF history, HistoryTyped
<1>2. CASE StoreFlags \/ Transfer \/ Expunge
  <2>1. worker.pc \in {"selected", "copied"} /\ worker.pc # "idle"
    BY <1>2 DEF StoreFlags, Transfer, Expunge
  <2>2. PICK S \in SUBSET Selected : Touch(S)
    BY <1>2 DEF StoreFlags, Transfer, Expunge
  <2>3. Selected \subseteq Copies
    BY <2>1, SelectedFacts
  <2>4. touched' \in [Ops -> SUBSET Mails]
    BY <2>1, <2>2, <2>3, TouchFacts
  <2>5. removed' \subseteq Mails
    <3>1. CASE UNCHANGED removed
      BY <1>0, <3>1 DEF HistoryTyped
    <3>2. CASE Expunge
      <4>1. PICK T \in SUBSET Selected :
              removed' = removed \cup MailsOf({c \in T : Current.kind = "delete" /\ c.folder = "trash"})
        BY <3>2 DEF Expunge
      <4>2. {c \in T : Current.kind = "delete" /\ c.folder = "trash"} \subseteq Copies
        BY <2>3
      <4> QED
        BY <1>0, <4>1, <4>2, MailsOfFacts DEF HistoryTyped
    <3> QED
      BY <1>2, <3>1, <3>2 DEF StoreFlags, Transfer
  <2> QED
    BY <2>4, <2>5 DEF HistoryTyped
<1>3. ASSUME NEW c \in remote, OtherClientExpunges(c) PROVE HistoryTyped'
  BY <1>0, <1>3 DEF OtherClientExpunges, HistoryTyped, Copies
<1>4. CASE WorkerStep
  BY <1>1, <1>2, <1>4 DEF WorkerStep, ClaimOperation, LoadOperation, SelectLocationGroup,
     CommitProgress, CommitFails, AllGroupsDone, FinishOperation, FinishFails
<1>5. CASE ~WorkerStep
  BY <1>1, <1>3, <1>5 DEF Next, vars, CreateOperation, WindowCloses, UndoOperation, PassStep, Restart,
     PendingOperationIDs, SelectFolder, PrepareFolder, ListFolder, StoreMessages, ReconcileFolder,
     OtherClientTransfers, Recreate
<1> QED
  BY <1>4, <1>5

LEMMA BoundsStep == ASSUME BoundsTyped, [Next]_vars PROVE BoundsTyped'
<1>0. MaxPasses \in Nat /\ MaxEvents \in Nat /\ MaxFaults \in Nat
  BY OperationsAssumption
<1>1. CASE UNCHANGED bounds
  BY <1>1 DEF bounds, BoundsTyped
<1>2. CASE Fault /\ UNCHANGED <<passes, events>>
  BY <1>0, <1>2 DEF Fault, BoundsTyped
<1>3. CASE Event /\ UNCHANGED <<passes, faults>>
  BY <1>0, <1>3 DEF Event, BoundsTyped
<1>4. ASSUME NEW f \in Folders, PendingOperationIDs(f) PROVE BoundsTyped'
  BY <1>0, <1>4 DEF PendingOperationIDs, BoundsTyped
<1>5. CASE WorkerStep
  BY <1>1, <1>2, <1>5 DEF WorkerStep, ClaimOperation, LoadOperation, SelectLocationGroup, StoreFlags,
     Transfer, Expunge, CommitProgress, CommitFails, AllGroupsDone, FinishOperation, FinishFails, bounds
<1>6. CASE PassStep \/ Restart
  BY <1>1, <1>2, <1>4, <1>6 DEF PassStep, Restart, SelectFolder, PrepareFolder, ListFolder,
     StoreMessages, ReconcileFolder
<1>7. CASE ~(WorkerStep \/ PassStep \/ Restart)
  BY <1>1, <1>3, <1>7 DEF Next, vars, CreateOperation, WindowCloses, UndoOperation,
     OtherClientExpunges, OtherClientTransfers, Recreate
<1> QED
  BY <1>5, <1>6, <1>7

TypeInv == Typed /\ UniqueUIDs /\ Busy /\ PassValid

LEMMA TypeInvInit == Init => TypeInv
<1>1. Init => PassValid
  BY IdlePassState DEF Init, PassValid
<1> QED
  BY <1>1, InitTyped DEF TypeInv

LEMMA TypeInvStep ==
  ASSUME TypeInv, [Next]_vars
  PROVE  TypeInv' /\ ServerSound /\ OpsSound
<1>1. Typed /\ UniqueUIDs /\ Busy /\ PassValid
  BY DEF TypeInv
<1>2. ServerSound /\ OpsSound
  BY <1>1, ServerStep, OpsStep
<1>3. ServerTyped' /\ UniqueUIDs' /\ OpsTyped'
  BY <1>2 DEF ServerSound, OpsSound
<1>4. TablesTyped' /\ pass' \in PassStates /\ PassValid'
  BY <1>1, <1>2, TablesStep, PassStepFacts, PassValidStep
<1>5. worker' \in WorkerStates /\ Busy'
  BY <1>1, <1>2, BusyStep
<1>6. HistoryTyped' /\ BoundsTyped'
  BY <1>1, HistoryStep, BoundsStep DEF Typed
<1> QED
  BY <1>2, <1>3, <1>4, <1>5, <1>6 DEF TypeInv, Typed

-----------------------------------------------------------------------------
(* Names(f, v, u, m): UID u of folder f under UIDVALIDITY v stands for mail *)
(* m or for nothing, now and for ever: v is not of the future, and if it is *)
(* of the present then u is below UIDNEXT and no other mail has it.         *)
Names(f, v, u, m) ==
  /\ v <= validity[f]
  /\ v = validity[f] =>
       u < nextUID[f] /\ \A c \in remote : c.folder = f /\ c.uid = u => c.mail = m
RowNames(r) == Names(r.folder, r.validity, r.uid, MailOf(r.msg))

(* Everything the program remembers by UID: rows, the worker's plan, a      *)
(* pass's listing, and the destination UIDs of a move not yet committed.    *)
LocationsName == \A r \in locations : RowNames(r)
PlanNames == \A r \in worker.chosen : RowNames(r)
ListingNames ==
  /\ \A c \in pass.listed :
       c.folder = pass.folder /\ Names(pass.folder, pass.validity, c.uid, c.mail)
  /\ pass.pc \in {"idle", "read", "selected", "prepared"} => pass.listed = {}
MovesName ==
  \A r \in worker.group, p \in worker.moved :
    r.uid = p.uid => Names(Current.to, p.validity, p.to, MailOf(r.msg))
NamesInv == LocationsName /\ PlanNames /\ ListingNames /\ MovesName

(* The same of the state after a step, for a folder, UID and mail that are  *)
(* read before it.                                                          *)
NamesNext(f, v, u, m) ==
  /\ v <= validity'[f]
  /\ v = validity'[f] =>
       u < nextUID'[f] /\ \A c \in remote' : c.folder = f /\ c.uid = u => c.mail = m

LEMMA NamesKept ==
  ASSUME Typed, ServerSound
  PROVE  \A f \in Folders, v \in Nat, u \in Nat, m \in Mails : Names(f, v, u, m) => NamesNext(f, v, u, m)
<1> SUFFICES ASSUME NEW f \in Folders, NEW v \in Nat, NEW u \in Nat, NEW m \in Mails, Names(f, v, u, m)
             PROVE  NamesNext(f, v, u, m)
  OBVIOUS
<1>1. /\ validity[f] \in Nat /\ validity'[f] \in Nat
      /\ nextUID[f] \in Nat /\ nextUID'[f] \in Nat
  BY OperationsAssumption DEF Typed, ServerTyped, ServerSound
<1>2. v <= validity[f]
  BY DEF Names
<1>3. CASE validity[f] < validity'[f]
  BY <1>1, <1>2, <1>3 DEF Names, NamesNext
<1>4. CASE /\ validity'[f] = validity[f] /\ nextUID[f] <= nextUID'[f]
           /\ \A c \in remote' : c.folder = f => c \in remote \/ nextUID[f] <= c.uid
  <2> SUFFICES ASSUME v = validity[f]
               PROVE  u < nextUID'[f] /\ \A c \in remote' : c.folder = f /\ c.uid = u => c.mail = m
    BY <1>2, <1>4 DEF Names, NamesNext
  <2>1. u < nextUID[f] /\ \A c \in remote : c.folder = f /\ c.uid = u => c.mail = m
    BY DEF Names
  <2>2. \A c \in remote' : c.folder = f /\ c.uid = u => c \in remote
    BY <1>1, <1>4, <2>1
  <2> QED
    BY <1>1, <1>4, <2>1, <2>2
<1> QED
  BY <1>3, <1>4 DEF ServerSound, Advances

LEMMA RowNamesKept ==
  ASSUME Typed, ServerSound
  PROVE  \A r \in Rows : RowNames(r) => RowNames(r)'
<1> SUFFICES ASSUME NEW r \in Rows, RowNames(r) PROVE RowNames(r)'
  OBVIOUS
<1>1. r.folder \in Folders /\ r.validity \in Nat /\ r.uid \in Nat /\ MailOf(r.msg) \in Mails
  BY OperationsAssumption DEF Rows, Messages, MailOf
<1> QED
  BY <1>1, NamesKept DEF RowNames, Names, NamesNext

(* A copy that is on the server names its mail.                             *)
LEMMA CopiesName ==
  ASSUME Typed, UniqueUIDs
  PROVE  \A c \in remote : Names(c.folder, validity[c.folder], c.uid, c.mail)
<1>1. \A c \in remote : c.folder \in Folders
  BY DEF Typed, ServerTyped, Copies
<1> QED
  BY <1>1, OperationsAssumption DEF UniqueUIDs, Names, Typed, ServerTyped

LEMMA InitNames == Init => NamesInv
<1> SUFFICES ASSUME Init PROVE NamesInv
  OBVIOUS
<1> DEFINE number == CHOOSE n \in Injection(Mails, 1..Cardinality(Mails)) : TRUE
<1>1. /\ Cardinality(Mails) \in Nat /\ number \in [Mails -> 1..Cardinality(Mails)]
      /\ \A m, n \in Mails : number[m] = number[n] => m = n
  BY InitialNumbers
<1> HIDE DEF number
<1>2. PICK place \in [Mails -> {"inbox", "trash"}] :
        /\ remote = {[folder |-> place[m], uid |-> number[m], mail |-> m] : m \in Mails}
        /\ locations = {[msg |-> <<m, 1>>, folder |-> place[m], validity |-> 1, uid |-> number[m]] :
                          m \in Mails}
  BY DEF Init, number
<1>3. validity = [f \in Folders |-> 1] /\ nextUID = [f \in Folders |-> Cardinality(Mails) + 1]
      /\ worker = IdleWorker /\ pass = IdlePass
  BY DEF Init
<1>4. \A c \in remote : c.uid = number[c.mail] /\ c.mail \in Mails
  BY <1>2
<1>5. ASSUME NEW m \in Mails
      PROVE  Names(place[m], 1, number[m], m)
  <2>1. place[m] \in Folders
    BY <1>2 DEF Folders
  <2>2. validity[place[m]] = 1 /\ nextUID[place[m]] = Cardinality(Mails) + 1
    BY <1>3, <2>1
  <2>3. number[m] < Cardinality(Mails) + 1
    BY <1>1
  <2>4. \A c \in remote : c.uid = number[m] => c.mail = m
    BY <1>1, <1>4
  <2> QED
    BY <2>2, <2>3, <2>4 DEF Names
<1>6. LocationsName
  <2> SUFFICES ASSUME NEW r \in locations PROVE RowNames(r)
    BY DEF LocationsName
  <2>1. PICK m \in Mails :
          r = [msg |-> <<m, 1>>, folder |-> place[m], validity |-> 1, uid |-> number[m]]
    BY <1>2
  <2>2. MailOf(r.msg) = m /\ r.folder = place[m] /\ r.validity = 1 /\ r.uid = number[m]
    BY <2>1 DEF MailOf
  <2> QED
    BY <1>5, <2>2 DEF RowNames
<1> QED
  BY <1>3, <1>6, IdleWorkerState, IdlePassState DEF NamesInv, PlanNames, ListingNames, MovesName

LEMMA LocationsStep ==
  ASSUME TypeInv, NamesInv, ServerSound, [Next]_vars
  PROVE  LocationsName'
<1>0. Typed /\ Busy /\ PassValid /\ UniqueUIDs /\ LocationsName /\ locations \subseteq Rows
  BY DEF TypeInv, NamesInv, Typed, TablesTyped
<1>1. \A r \in Rows : RowNames(r) => RowNames(r)'
  BY <1>0, RowNamesKept
<1>2. CASE locations' \subseteq locations
  BY <1>0, <1>1, <1>2 DEF LocationsName
<1>3. CASE CommitProgress
  <2>1. worker.pc # "idle" /\ locations' \subseteq locations \cup Arrivals
    BY <1>3 DEF CommitProgress, AfterMove
  <2>2. Arrivals \subseteq Rows
    BY <1>0, <2>1, ArrivalsFacts
  <2>3. ASSUME NEW a \in Arrivals PROVE RowNames(a)
    <3>1. PICK r \in worker.group, p \in worker.moved :
            /\ r.uid = p.uid /\ a.msg = r.msg /\ a.folder = Current.to
            /\ a.validity = p.validity /\ a.uid = p.to
      BY <1>0, <2>1, ArrivalsFacts
    <3>2. Names(Current.to, p.validity, p.to, MailOf(r.msg))
      BY <3>1 DEF NamesInv, MovesName
    <3> QED
      BY <3>1, <3>2 DEF RowNames
  <2> HIDE DEF Arrivals
  <2> QED
    BY <1>0, <1>1, <2>1, <2>2, <2>3 DEF LocationsName
<1>4. CASE StoreMessages
  <2>1. CASE UNCHANGED locations
    BY <1>2, <2>1
  <2>2. ASSUME NEW c \in pass.listed, NEW m \in MessagesFor(c),
               locations' = locations \cup {[msg |-> m, folder |-> c.folder,
                                             validity |-> pass.validity, uid |-> c.uid]}
        PROVE  LocationsName'
    <3>1. c \in Copies /\ pass.folder \in Folders /\ pass.pc = "listed"
      BY <1>0, <1>4 DEF Typed, PassStates, StoreMessages
    <3>2. m \in Messages /\ MailOf(m) = c.mail
      BY <1>0, <3>1, MessagesForFacts
    <3>3. c.folder = pass.folder /\ Names(pass.folder, pass.validity, c.uid, c.mail)
      BY DEF NamesInv, ListingNames
    <3>4. pass.validity \in 1..MaxValidity
      <4>1. validity[pass.folder] \in 1..MaxValidity /\ pass.validity \in 1..validity[pass.folder]
        BY <1>0, <3>1 DEF Typed, ServerTyped, PassValid
      <4> QED
        BY <4>1, OperationsAssumption
    <3> DEFINE new == [msg |-> m, folder |-> c.folder, validity |-> pass.validity, uid |-> c.uid]
    <3>5. new \in Rows /\ new.msg = m /\ new.folder = c.folder /\ new.validity = pass.validity
          /\ new.uid = c.uid
      BY <3>1, <3>2, <3>4 DEF Rows, Copies
    <3>6. locations' = locations \cup {new}
      BY <2>2
    <3> HIDE DEF new
    <3>7. RowNames(new)
      BY <3>2, <3>3, <3>5 DEF RowNames
    <3> QED
      BY <1>0, <1>1, <3>5, <3>6, <3>7 DEF LocationsName
  <2> QED
    BY <1>4, <2>1, <2>2 DEF StoreMessages
<1>5. CASE WorkerStep
  BY <1>2, <1>3, <1>5 DEF WorkerStep, ClaimOperation, LoadOperation, SelectLocationGroup, mailTables,
     StoreFlags, Transfer, Expunge, CommitFails, AllGroupsDone, FinishOperation, FinishFails
<1>6. CASE PassStep
  BY <1>2, <1>4, <1>6 DEF PassStep, PendingOperationIDs, SelectFolder, PrepareFolder, ListFolder,
     ReconcileFolder, mailTables
<1>7. CASE ~(WorkerStep \/ PassStep)
  BY <1>2, <1>7 DEF Next, vars, mailTables, CreateOperation, WindowCloses, UndoOperation, Restart,
     OtherClientExpunges, OtherClientTransfers, Recreate
<1> QED
  BY <1>5, <1>6, <1>7

(* The plan: only LoadOperation makes one, from rows.                       *)
LEMMA ChosenFacts ==
  ASSUME TypeInv, [Next]_vars
  PROVE  worker'.chosen \subseteq worker.chosen \/ worker'.chosen \subseteq locations
<1>0. Typed /\ Busy /\ UniqueUIDs
  BY DEF TypeInv
<1>1. CASE ClaimOperation
  BY <1>0, <1>1, ClaimFacts
<1>2. CASE LoadOperation
  <2>1. CASE Finish("failed") \/ Finish("needs_attention")
    BY <1>0, <2>1, FinishFacts DEF SameTask, Typed
  <2>2. CASE Plans
    <3>1. Current.kind \in {"flag", "archive", "move", "trash", "delete"}
      BY <1>0, <1>2, CurrentFacts DEF LoadOperation
    <3> QED
      BY <2>2, <3>1, SourcesFacts DEF Plans
  <2> QED
    BY <1>0, <1>2, <2>1, <2>2, LoadFacts
<1>3. CASE SelectLocationGroup
  BY <1>0, <1>3, SelectFacts, FinishFacts, PartialFacts DEF Selects, SameTask, Typed
<1>4. CASE StoreFlags \/ Expunge
  BY <1>0, <1>4, StoreFlagsFacts, ExpungeFacts DEF Commands, SameTask
<1>5. CASE Transfer
  BY <1>0, <1>5, TransferFacts DEF Transfers, SameTask
<1>6. CASE CommitProgress
  BY <1>0, <1>6, CommitFacts DEF SameTask
<1>7. CASE CommitFails \/ AllGroupsDone \/ FinishOperation \/ FinishFails \/ Restart
  BY <1>0, <1>7, EndsFacts, IdleWorkerState DEF Ends, SameTask
<1>8. CASE WorkerStep \/ Restart
  BY <1>1, <1>2, <1>3, <1>4, <1>5, <1>6, <1>7, <1>8 DEF WorkerStep
<1>9. CASE UNCHANGED worker
  BY <1>9
<1>10. CASE ~(WorkerStep \/ Restart)
  BY <1>9, <1>10 DEF Next, vars, CreateOperation, WindowCloses, UndoOperation, PassStep,
     PendingOperationIDs, SelectFolder, PrepareFolder, ListFolder, StoreMessages, ReconcileFolder,
     OtherClientExpunges, OtherClientTransfers, Recreate
<1> QED
  BY <1>8, <1>10

LEMMA PlanStep ==
  ASSUME TypeInv, NamesInv, ServerSound, [Next]_vars
  PROVE  PlanNames'
<1>1. worker'.chosen \subseteq worker.chosen \/ worker'.chosen \subseteq locations
  BY ChosenFacts
<1>2. worker.chosen \subseteq Rows /\ locations \subseteq Rows /\ Typed
  BY DEF TypeInv, Typed, WorkerStates, TablesTyped
<1>3. \A r \in Rows : RowNames(r) => RowNames(r)'
  BY <1>2, RowNamesKept
<1> QED
  BY <1>1, <1>2, <1>3 DEF NamesInv, LocationsName, PlanNames

LEMMA ListingStep ==
  ASSUME TypeInv, NamesInv, ServerSound, [Next]_vars
  PROVE  ListingNames'
<1>0. Typed /\ UniqueUIDs /\ ListingNames /\ pass' \in PassStates /\ PassMoves
  BY PassStepFacts DEF TypeInv, NamesInv
<1>1. /\ pass.folder \in Folders /\ pass.validity \in Nat /\ pass.listed \subseteq Copies
      /\ remote \subseteq Copies
  BY <1>0, OperationsAssumption DEF Typed, PassStates, ServerTyped
<1>2. ASSUME NEW c \in Copies, NEW v \in Nat, NEW f \in Folders, Names(f, v, c.uid, c.mail)
      PROVE  NamesNext(f, v, c.uid, c.mail)
  BY <1>0, <1>2, NamesKept DEF Copies
<1>3. CASE UNCHANGED <<pass>> \/ StoreMessages
  <2>1. pass'.listed = pass.listed /\ pass'.folder = pass.folder /\ pass'.validity = pass.validity
        /\ (pass'.pc = pass.pc \/ pass'.pc = "stored")
    <3>1. pass' = [pass EXCEPT !.pc = "stored"] \/ UNCHANGED pass
      BY <1>3 DEF StoreMessages
    <3> QED
      BY <1>0, <3>1 DEF Typed, PassStates
  <2>2. \A c \in pass.listed : c.folder = pass.folder /\ NamesNext(pass.folder, pass.validity, c.uid, c.mail)
    <3> SUFFICES ASSUME NEW c \in pass.listed
                 PROVE  c.folder = pass.folder /\ NamesNext(pass.folder, pass.validity, c.uid, c.mail)
      OBVIOUS
    <3>1. c.folder = pass.folder /\ Names(pass.folder, pass.validity, c.uid, c.mail) /\ c \in Copies
      BY <1>0, <1>1 DEF ListingNames
    <3> QED
      BY <1>1, <1>2, <3>1
  <2>3. pass'.pc \in {"idle", "read", "selected", "prepared"} => pass'.listed = {}
    BY <1>0, <2>1 DEF ListingNames
  <2> QED
    BY <2>1, <2>2, <2>3 DEF ListingNames, Names, NamesNext
<1>4. CASE pass' = IdlePass \/ (pass'.pc = "read" /\ pass'.listed = {})
  BY <1>4, IdlePassState DEF ListingNames
<1>5. CASE SelectFolder \/ PrepareFolder
  <2>1. pass.listed = {} /\ pass'.listed = {}
    BY <1>0, <1>5 DEF SelectFolder, PrepareFolder, PassMoves, IdlePass, ListingNames, Typed, PassStates
  <2> QED
    BY <1>5, <2>1 DEF ListingNames
<1>6. CASE /\ ListFolder /\ pass'.pc = "listed" /\ pass'.folder = pass.folder
           /\ pass'.validity = pass.validity /\ validity[pass.folder] = pass.validity
           /\ pass'.listed = {c \in remote : c.folder = pass.folder}
  <2>1. ASSUME NEW c \in pass'.listed
        PROVE  c.folder = pass'.folder /\ NamesNext(pass.folder, pass.validity, c.uid, c.mail)
    <3>1. c \in remote /\ c.folder = pass.folder /\ c \in Copies
      BY <1>1, <1>6
    <3>2. Names(pass.folder, pass.validity, c.uid, c.mail)
      BY <1>0, <1>6, <3>1, CopiesName
    <3> QED
      BY <1>1, <1>2, <1>6, <3>1, <3>2
  <2> QED
    BY <1>6, <2>1 DEF ListingNames, Names, NamesNext
<1> QED
  BY <1>0, <1>3, <1>4, <1>5, <1>6 DEF PassMoves

(* The destination UIDs of a move: each is that of the copy the source UID  *)
(* stood for, hence of the mail of the row.                                 *)
LEMMA TransferNames ==
  ASSUME TypeInv, NamesInv, ServerSound, Transfer
  PROVE  MovesName'
<1>0. Typed /\ UniqueUIDs /\ Busy /\ PlanNames /\ worker.pc = "selected"
  BY DEF TypeInv, NamesInv, Transfer
<1>1. PICK S \in SUBSET Selected : Transfers(S)
  BY <1>0, TransferFacts
<1> DEFINE f == Current.to
<1>2. f \in Folders /\ worker.op \in Ops /\ UNCHANGED <<op, validity>>
  BY <1>0, CurrentFacts DEF Transfer, opTables
<1>3. Current' = Current
  BY <1>1, <1>2 DEF Current, Transfers, SameTask
<1>4. worker'.group = worker.group
  BY <1>1 DEF Transfers, SameGroup
<1>5. CASE worker'.moved = worker.moved /\ worker'.pc = "finish"
  <2> SUFFICES ASSUME NEW r \in worker.group, NEW p \in worker.moved, r.uid = p.uid
               PROVE  NamesNext(f, p.validity, p.to, MailOf(r.msg))
    BY <1>3, <1>4, <1>5 DEF MovesName, Names, NamesNext
  <2>1. Names(f, p.validity, p.to, MailOf(r.msg))
    BY DEF NamesInv, MovesName
  <2>2. p \in Moves /\ r \in Rows
    BY <1>0 DEF Typed, WorkerStates
  <2>3. p.validity \in Nat /\ p.to \in Nat /\ MailOf(r.msg) \in Mails
    BY <2>2, OperationsAssumption DEF Moves, Rows, Messages, MailOf
  <2> HIDE DEF f
  <2>4. NamesNext(f, p.validity, p.to, MailOf(r.msg))
    BY <1>0, <1>2, <2>1, <2>3, NamesKept
  <2> QED
    BY <1>3, <2>4 DEF f
<1>6. CASE ~(worker'.moved = worker.moved /\ worker'.pc = "finish")
  <2>1. \A p \in worker'.moved :
          p.validity = validity[f] /\ \E c \in S : p.uid = c.uid /\ p.to = nextUID[f] + Rank(c, S)
    BY <1>1, <1>6 DEF Transfers
  <2>2. S \subseteq Selected /\ remote' \subseteq remote \cup Appended(S, f)
        /\ nextUID' = [nextUID EXCEPT ![f] = @ + Cardinality(S)]
    BY <1>1 DEF Transfers
  <2>3. /\ Selected \subseteq Copies /\ Selected \subseteq remote /\ IsFiniteSet(Selected)
        /\ \A c, d \in Selected : c.uid = d.uid => c = d
        /\ \A c \in Selected, r \in worker.group :
             c.folder = r.folder /\ r.validity = validity[r.folder]
    BY <1>0, SelectedFacts
  <2>4. S \in SUBSET Copies /\ IsFiniteSet(S) /\ \A c, d \in S : c.uid = d.uid => c = d
    BY <2>2, <2>3, FS_Subset
  <2>5. nextUID \in [Folders -> Nat \ {0}] /\ nextUID[f] \in Nat \ {0}
    BY <1>0, <1>2 DEF Typed, ServerTyped
  <2>6. /\ Cardinality(S) \in Nat
        /\ \A c \in S : Rank(c, S) \in Nat /\ Rank(c, S) < Cardinality(S)
        /\ \A c, d \in S : Rank(c, S) = Rank(d, S) => c = d
    BY <2>4, RankFacts
  <2>7. \A a \in Appended(S, f) : \E c \in S : a.mail = c.mail /\ a.uid = nextUID[f] + Rank(c, S)
    BY <1>2, <2>4, <2>5, AppendedFacts
  <2> HIDE DEF f
  <2>8. nextUID'[f] = nextUID[f] + Cardinality(S)
    BY <1>2, <2>2, <2>5
  <2>9. validity'[f] = validity[f] /\ validity[f] <= validity[f]
    BY <1>0, <1>2 DEF Typed, ServerTyped
  <2>10. ASSUME NEW c \in S
         PROVE  /\ nextUID[f] + Rank(c, S) < nextUID'[f]
                /\ \A d \in remote' : d.folder = f /\ d.uid = nextUID[f] + Rank(c, S) => d.mail = c.mail
    <3>1. Rank(c, S) \in Nat /\ Rank(c, S) < Cardinality(S)
      BY <2>6
    <3>2. nextUID[f] + Rank(c, S) < nextUID'[f]
      BY <2>5, <2>6, <2>8, <3>1
    <3>3. ASSUME NEW d \in remote', d.folder = f, d.uid = nextUID[f] + Rank(c, S) PROVE d.mail = c.mail
      <4>1. CASE d \in remote
        <5>1. d.uid < nextUID[f]
          BY <1>0, <3>3, <4>1 DEF UniqueUIDs
        <5> QED
          BY <2>5, <3>1, <3>3, <5>1
      <4>2. CASE d \in Appended(S, f)
        <5>1. PICK e \in S : d.mail = e.mail /\ d.uid = nextUID[f] + Rank(e, S)
          BY <2>7, <4>2
        <5>2. Rank(e, S) \in Nat
          BY <2>6
        <5>3. Rank(e, S) = Rank(c, S)
          BY <2>5, <3>1, <3>3, <5>1, <5>2
        <5> QED
          BY <2>6, <5>1, <5>3
      <4> QED
        BY <2>2, <4>1, <4>2
    <3> QED
      BY <3>2, <3>3
  <2> SUFFICES ASSUME NEW r \in worker.group, NEW p \in worker'.moved, r.uid = p.uid
               PROVE  NamesNext(f, p.validity, p.to, MailOf(r.msg))
    BY <1>3, <1>4 DEF MovesName, f, Names, NamesNext
  <2>11. PICK c \in S : p.uid = c.uid /\ p.to = nextUID[f] + Rank(c, S) /\ p.validity = validity[f]
    BY <2>1
  <2>12. c.folder = r.folder /\ r.validity = validity[r.folder] /\ c \in remote
    BY <2>2, <2>3
  <2>13. RowNames(r)
    BY <1>0 DEF PlanNames, Busy
  <2>14. c.mail = MailOf(r.msg)
    BY <2>11, <2>12, <2>13 DEF RowNames, Names
  <2>15. /\ validity[f] <= validity'[f]
         /\ p.to < nextUID'[f]
         /\ \A d \in remote' : d.folder = f /\ d.uid = p.to => d.mail = MailOf(r.msg)
    BY <2>9, <2>10, <2>11, <2>14
  <2> QED
    BY <2>9, <2>11, <2>15 DEF NamesNext
<1> QED
  BY <1>5, <1>6

LEMMA MovesStep ==
  ASSUME TypeInv, TypeInv', NamesInv, ServerSound, OpsSound, [Next]_vars
  PROVE  MovesName'
<1>0. Typed /\ UniqueUIDs /\ Busy /\ MovesName
  BY DEF TypeInv, NamesInv
<1>1. CASE worker'.group = {} \/ worker'.moved = {}
  BY <1>1 DEF MovesName
<1>2. CASE /\ worker'.group = worker.group /\ worker'.moved = worker.moved
           /\ worker'.op = worker.op /\ ~FinishOperation /\ ~Restart
  <2>1. CASE worker.pc = "idle"
    BY <1>0, <1>1, <1>2, <2>1, IdleWorkerState DEF Busy
  <2>2. CASE worker.pc # "idle"
    <3>1. op'[worker.op].to = Current.to /\ Current.to \in Folders
      BY <1>0, <1>2, <2>2, CurrentStays, CurrentFacts
    <3>2. Current'.to = Current.to
      BY <1>2, <3>1 DEF Current
    <3> DEFINE f == Current.to
    <3> SUFFICES ASSUME NEW r \in worker.group, NEW p \in worker.moved, r.uid = p.uid
                 PROVE  NamesNext(Current'.to, p.validity, p.to, MailOf(r.msg))
      BY <1>2 DEF MovesName, Names, NamesNext
    <3>3. Names(f, p.validity, p.to, MailOf(r.msg))
      BY <1>0 DEF MovesName
    <3>4. p \in Moves /\ r \in Rows
      BY <1>0 DEF Typed, WorkerStates
    <3>5. p.validity \in Nat /\ p.to \in Nat /\ MailOf(r.msg) \in Mails
      BY <3>4, OperationsAssumption DEF Moves, Rows, Messages, MailOf
    <3> HIDE DEF f
    <3>6. f \in Folders /\ Current'.to = f
      <4>1. Current'.to = Current.to
        BY <3>2
      <4> QED
        BY <3>1, <4>1 DEF f
    <3>7. NamesNext(f, p.validity, p.to, MailOf(r.msg))
      BY <1>0, <3>3, <3>5, <3>6, NamesKept
    <3> QED
      BY <3>6, <3>7
  <2> QED
    BY <2>1, <2>2
<1>3. CASE ClaimOperation
  BY <1>0, <1>1, <1>3, ClaimFacts
<1>4. CASE FinishOperation \/ Restart \/ worker' = IdleWorker
  BY <1>1, <1>4, IdleWorkerState DEF FinishOperation, Restart
<1>5. CASE SelectLocationGroup
  <2>1. CASE Selects
    BY <1>1, <2>1 DEF Selects
  <2>2. CASE Finish("needs_attention") \/ Finish(Partial)
    <3>1. worker'.pc = "finish" /\ worker.pc = "select" /\ UNCHANGED faults
      BY <1>0, <1>5, <2>2, FinishFacts, PartialFacts DEF Typed, SelectLocationGroup, bounds
    <3>2. ~FinishOperation /\ ~Restart
      BY <1>0, <3>1, NotRestart DEF FinishOperation
    <3> QED
      BY <1>0, <1>2, <2>2, <3>2, FinishFacts, PartialFacts DEF Typed, SameTask, SameGroup
  <2> QED
    BY <1>0, <1>5, <2>1, <2>2, SelectFacts
<1>6. CASE LoadOperation
  <2>1. worker.pc = "claimed" /\ UNCHANGED faults
    BY <1>6 DEF LoadOperation, bounds
  <2>2. ~FinishOperation /\ ~Restart
    BY <1>0, <2>1, NotRestart DEF FinishOperation
  <2>3. worker'.group = worker.group /\ worker'.moved = worker.moved /\ worker'.op = worker.op
    BY <1>0, <1>6, LoadFacts, FinishFacts DEF Plans, SameTask, SameGroup, Typed
  <2> QED
    BY <1>2, <2>2, <2>3
<1>7. CASE StoreFlags \/ Expunge \/ CommitProgress
  <2>1. worker.pc # "finish" /\ UNCHANGED faults
    BY <1>7 DEF StoreFlags, Expunge, CommitProgress, bounds
  <2>2. ~FinishOperation /\ ~Restart
    BY <1>0, <2>1, NotRestart DEF FinishOperation
  <2>3. worker'.group = worker.group /\ worker'.moved = worker.moved /\ worker'.op = worker.op
    BY <1>0, <1>7, StoreFlagsFacts, ExpungeFacts, CommitFacts DEF Commands, SameTask, SameGroup
  <2> QED
    BY <1>2, <2>2, <2>3
<1>8. CASE CommitFails \/ AllGroupsDone \/ FinishFails
  <2>1. Ends
    BY <1>0, <1>8, EndsFacts
  <2>2. CASE worker' # IdleWorker
    <3>1. ~FinishOperation /\ ~Restart
      BY <2>2 DEF FinishOperation, Restart
    <3> QED
      BY <1>2, <2>1, <2>2, <3>1 DEF Ends, SameTask, SameGroup
  <2> QED
    BY <1>4, <2>2
<1>9. CASE WorkerStep
  BY <1>3, <1>4, <1>5, <1>6, <1>7, <1>8, <1>9, TransferNames DEF WorkerStep
<1>10. CASE ~WorkerStep /\ ~Restart
  <2>1. UNCHANGED worker
    BY <1>10 DEF Next, vars, CreateOperation, WindowCloses, UndoOperation, PassStep,
       PendingOperationIDs, SelectFolder, PrepareFolder, ListFolder, StoreMessages, ReconcileFolder,
       OtherClientExpunges, OtherClientTransfers, Recreate
  <2> QED
    BY <1>2, <1>10, <2>1 DEF WorkerStep
<1> QED
  BY <1>4, <1>9, <1>10

LEMMA NamesStep ==
  ASSUME TypeInv, NamesInv, [Next]_vars
  PROVE  NamesInv'
BY TypeInvStep, LocationsStep, PlanStep, ListingStep, MovesStep DEF NamesInv

-----------------------------------------------------------------------------
(* What has not been applied has changed nothing: as long as the worker may *)
(* still report a failure, or a success without a group, it has sent no     *)
(* command that changes a mailbox.                                          *)
NothingSent ==
  \/ worker.pc = "claimed"
  \/ worker.pc \in {"select", "selected"} /\ ~worker.committed
  \/ worker.pc = "finish" /\ worker.outcome = "failed"
  \/ worker.pc = "finish" /\ worker.outcome = "succeeded" /\ ~worker.committed
UntouchedInv == UnappliedIsUntouched /\ (NothingSent => touched[worker.op] = {})

LEMMA InitUntouched == Init => UntouchedInv
<1> SUFFICES ASSUME Init PROVE UntouchedInv
  OBVIOUS
<1>1. touched = [o \in Ops |-> {}] /\ worker = IdleWorker
  BY DEF Init
<1> QED
  BY <1>1, IdleWorkerState DEF UntouchedInv, UnappliedIsUntouched, NothingSent

(* Who touches: the worker's operation, by a command for copies of Selected.*)
LEMMA TouchedFacts ==
  ASSUME TypeInv, [Next]_vars
  PROVE  \/ UNCHANGED touched
         \/ /\ StoreFlags \/ Transfer \/ Expunge
            /\ worker.pc \in {"selected", "copied"}
            /\ \E S \in SUBSET Selected : Touch(S)
            /\ worker'.pc \in {"finish", "commit", "copied"} /\ worker'.op = worker.op
            /\ (worker'.pc = "finish" => worker'.outcome = "unknown")
<1>0. Typed /\ Busy /\ UniqueUIDs
  BY DEF TypeInv
<1>1. CASE StoreFlags \/ Expunge
  <2>1. \E S \in SUBSET Selected : Commands(S)
    BY <1>0, <1>1, StoreFlagsFacts, ExpungeFacts
  <2> QED
    BY <1>1, <2>1 DEF Commands, SameTask, StoreFlags, Expunge
<1>2. CASE Transfer
  <2>1. \E S \in SUBSET Selected : Transfers(S)
    BY <1>0, <1>2, TransferFacts
  <2> QED
    BY <1>2, <2>1 DEF Transfers, SameTask, Transfer
<1>3. CASE WorkerStep
  BY <1>1, <1>2, <1>3 DEF WorkerStep, history, ClaimOperation, LoadOperation, SelectLocationGroup,
     CommitProgress, CommitFails, AllGroupsDone, FinishOperation, FinishFails
<1>4. CASE ~WorkerStep
  BY <1>4 DEF Next, vars, history, CreateOperation, WindowCloses, UndoOperation, PassStep, Restart,
     PendingOperationIDs, SelectFolder, PrepareFolder, ListFolder, StoreMessages, ReconcileFolder,
     OtherClientExpunges, OtherClientTransfers, Recreate
<1> QED
  BY <1>3, <1>4

LEMMA UnappliedStep ==
  ASSUME TypeInv, UntouchedInv, OpsSound, [Next]_vars
  PROVE  UnappliedIsUntouched'
<1>0. Typed /\ Busy /\ UniqueUIDs
  BY DEF TypeInv
<1> SUFFICES ASSUME NEW o \in Ops, op'[o].status \in {"none", "queued", "cancelled", "failed"}
             PROVE  touched'[o] = {}
  BY DEF UnappliedIsUntouched
<1>1. Goes(o)
  BY DEF OpsSound
<1>2. CASE op[o].status \in {"none", "queued", "cancelled", "failed"}
  <2>1. touched[o] = {}
    BY <1>2 DEF UntouchedInv, UnappliedIsUntouched
  <2>2. CASE UNCHANGED touched
    BY <2>1, <2>2
  <2>3. CASE ~UNCHANGED touched
    <3>1. worker.pc \in {"selected", "copied"} /\ \E S \in SUBSET Selected : Touch(S)
      BY <2>3, TouchedFacts
    <3>2. PICK S \in SUBSET Selected : Touch(S)
      BY <3>1
    <3>3. worker.pc # "idle" /\ S \in SUBSET Copies
      BY <1>0, <3>1, SelectedFacts
    <3>4. o # worker.op
      BY <1>0, <1>2, <3>3, CurrentFacts DEF Current
    <3> QED
      BY <1>0, <2>1, <3>2, <3>3, <3>4, TouchFacts
  <2> QED
    BY <2>2, <2>3
<1>3. CASE op[o].status \notin {"none", "queued", "cancelled", "failed"}
  <2>1. /\ op[o].status = "running" /\ op'[o].status = worker.outcome
        /\ FinishOperation /\ o = worker.op
    BY <1>1, <1>3 DEF Goes
  <2>2. worker.outcome \in {"none", "succeeded", "failed", "unknown", "needs_attention"}
        /\ worker.pc = "finish"
    BY <1>0, <2>1 DEF FinishOperation, Typed, WorkerStates
  <2>3. NothingSent
    BY <1>0, <2>1, <2>2 DEF NothingSent, Busy
  <2>4. UNCHANGED touched
    BY <2>1 DEF FinishOperation, history
  <2> QED
    BY <2>1, <2>3, <2>4 DEF UntouchedInv
<1> QED
  BY <1>2, <1>3

LEMMA NothingSentStep ==
  ASSUME TypeInv, UntouchedInv, [Next]_vars, NothingSent'
  PROVE  touched'[worker'.op] = {}
<1>0. Typed /\ Busy /\ UniqueUIDs /\ worker \in WorkerStates
  BY DEF TypeInv, Typed
<1>1. UNCHANGED touched
  BY TouchedFacts DEF NothingSent
<1>2. CASE ClaimOperation
  <2>1. PICK o \in Ops : op[o].status = "queued" /\ worker'.op = o
    BY <1>0, <1>2, ClaimFacts
  <2> QED
    BY <1>1, <2>1 DEF UntouchedInv, UnappliedIsUntouched
<1>3. CASE NothingSent /\ worker'.op = worker.op
  BY <1>1, <1>3 DEF UntouchedInv
<1>4. CASE LoadOperation
  <2>1. NothingSent
    BY <1>4 DEF LoadOperation, NothingSent
  <2>2. worker'.op = worker.op
    BY <1>0, <1>4, LoadFacts, FinishFacts DEF Plans, SameTask
  <2> QED
    BY <1>3, <2>1, <2>2
<1>5. CASE SelectLocationGroup
  <2>1. worker.pc = "select"
    BY <1>5 DEF SelectLocationGroup
  <2>2. CASE Selects
    <3>1. NothingSent /\ worker'.op = worker.op
      BY <2>1, <2>2 DEF NothingSent, Selects, SameTask
    <3> QED
      BY <1>3, <3>1
  <2>3. CASE Finish("needs_attention") \/ Finish(Partial)
    <3>1. /\ worker'.pc = "finish" /\ worker'.op = worker.op /\ worker'.committed = worker.committed
          /\ worker'.outcome \in {"needs_attention", "failed", "unknown"}
          /\ (worker.committed => worker'.outcome # "failed")
      BY <1>0, <2>3, FinishFacts, PartialFacts DEF SameTask
    <3>2. NothingSent
      BY <2>1, <3>1 DEF NothingSent
    <3> QED
      BY <1>3, <3>1, <3>2
  <2> QED
    BY <1>0, <1>5, <2>2, <2>3, SelectFacts
<1>6. CASE StoreFlags \/ Expunge
  <2>1. \E S \in SUBSET Selected : Commands(S)
    BY <1>0, <1>6, StoreFlagsFacts, ExpungeFacts
  <2> QED
    BY <2>1 DEF Commands, NothingSent
<1>7. CASE Transfer
  <2>1. \E S \in SUBSET Selected : Transfers(S)
    BY <1>0, <1>7, TransferFacts
  <2> QED
    BY <2>1 DEF Transfers, NothingSent
<1>8. CASE CommitProgress
  BY <1>0, <1>8, CommitFacts DEF NothingSent
<1>9. CASE CommitFails \/ AllGroupsDone \/ FinishOperation \/ FinishFails \/ Restart
  <2>1. Ends
    BY <1>0, <1>9, EndsFacts
  <2>2. worker' # IdleWorker
    BY IdleWorkerState DEF NothingSent
  <2>3. /\ worker'.pc = "finish" /\ worker'.op = worker.op /\ worker'.committed = worker.committed
        /\ \/ worker'.outcome = "unknown"
           \/ AllGroupsDone /\ worker'.outcome = "succeeded"
           \/ worker.pc = "finish" /\ worker.outcome = "succeeded" /\ worker'.outcome = Partial
    BY <2>1, <2>2 DEF Ends, SameTask
  <2>4. NothingSent
    BY <2>3, PartialFacts DEF NothingSent, AllGroupsDone
  <2> QED
    BY <1>3, <2>3, <2>4
<1>10. CASE UNCHANGED worker
  BY <1>3, <1>10 DEF NothingSent
<1>11. CASE WorkerStep \/ Restart
  BY <1>2, <1>4, <1>5, <1>6, <1>7, <1>8, <1>9, <1>11 DEF WorkerStep
<1>12. CASE ~(WorkerStep \/ Restart)
  BY <1>10, <1>12 DEF Next, vars, CreateOperation, WindowCloses, UndoOperation, PassStep,
     PendingOperationIDs, SelectFolder, PrepareFolder, ListFolder, StoreMessages, ReconcileFolder,
     OtherClientExpunges, OtherClientTransfers, Recreate
<1> QED
  BY <1>11, <1>12

LEMMA UntouchedStep ==
  ASSUME TypeInv, UntouchedInv, [Next]_vars
  PROVE  UntouchedInv'
BY TypeInvStep, UnappliedStep, NothingSentStep DEF UntouchedInv

(* A command for the group is for copies of the targets' mails only.        *)
LEMMA SelectedAreTargets ==
  ASSUME TypeInv, NamesInv, worker.pc \in {"selected", "copied"}
  PROVE  MailsOf(Selected) \subseteq {MailOf(m) : m \in Current.targets}
<1>0. Typed /\ Busy /\ UniqueUIDs /\ PlanNames
  BY DEF TypeInv, NamesInv
<1> SUFFICES ASSUME NEW c \in Selected PROVE \E m \in Current.targets : MailOf(m) = c.mail
  BY DEF MailsOf
<1>1. PICK r \in worker.group : c.uid = r.uid
  BY <1>0, SelectedFacts
<1>2. c \in remote /\ c.folder = r.folder /\ r.validity = validity[r.folder]
  BY <1>0, SelectedFacts
<1>3. r \in worker.chosen /\ r.msg \in Current.targets
  BY <1>0 DEF Busy
<1>4. Names(r.folder, r.validity, r.uid, MailOf(r.msg))
  BY <1>0, <1>3 DEF PlanNames, RowNames
<1> QED
  BY <1>1, <1>2, <1>3, <1>4 DEF Names

LEMMA TargetsStep ==
  ASSUME TypeInv, NamesInv, UntouchedInv, OnlyTargetsTouched, [Next]_vars
  PROVE  OnlyTargetsTouched'
<1>0. Typed /\ Busy /\ UniqueUIDs /\ OpsSound
  BY TypeInvStep DEF TypeInv
<1> SUFFICES ASSUME NEW o \in Ops
             PROVE  touched'[o] \subseteq {MailOf(m) : m \in op'[o].targets}
  BY DEF OnlyTargetsTouched
<1>1. Kept(o)
  BY <1>0 DEF OpsSound
<1>2. touched[o] \subseteq {MailOf(m) : m \in op[o].targets}
  BY DEF OnlyTargetsTouched
<1>3. CASE touched'[o] = touched[o]
  <2>1. CASE op[o].status = "none"
    <3>1. touched[o] = {}
      BY <2>1 DEF UntouchedInv, UnappliedIsUntouched
    <3> QED
      BY <1>3, <3>1
  <2>2. CASE op[o].status # "none"
    BY <1>1, <1>2, <1>3, <2>2 DEF Kept
  <2> QED
    BY <2>1, <2>2
<1>4. CASE touched'[o] # touched[o]
  <2>1. worker.pc \in {"selected", "copied"} /\ \E S \in SUBSET Selected : Touch(S)
    BY <1>4, TouchedFacts
  <2>2. PICK S \in SUBSET Selected : Touch(S)
    BY <2>1
  <2>3. worker.pc # "idle" /\ S \in SUBSET Copies
    BY <1>0, <2>1, SelectedFacts
  <2>4. o = worker.op /\ touched'[o] = touched[o] \cup MailsOf(S)
    BY <1>0, <1>4, <2>2, <2>3, TouchFacts
  <2>5. MailsOf(S) \subseteq MailsOf(Selected)
    BY DEF MailsOf
  <2>6. MailsOf(S) \subseteq {MailOf(m) : m \in Current.targets}
    BY <2>1, <2>5, SelectedAreTargets
  <2>7. Current = op[o] /\ op[o].status # "none"
    BY <1>0, <2>3, <2>4, CurrentFacts DEF Current
  <2> QED
    BY <1>1, <1>2, <2>4, <2>6, <2>7 DEF Kept
<1> QED
  BY <1>3, <1>4

-----------------------------------------------------------------------------
(* Between COPY and the delete of the originals every mail that is about to *)
(* lose a copy has another one, or has been removed by another client.      *)
SafeCopies ==
  worker.pc = "copied" =>
    \A c \in Selected : c.mail \in removed \/ \E d \in remote \ Selected : d.mail = c.mail

(* A copy at the place of a row the mailbox still has was there before.     *)
LEMMA PlaceFacts ==
  ASSUME Typed, ServerSound, NEW r \in Rows, RowNames(r), r.validity = validity'[r.folder]
  PROVE  /\ r.validity = validity[r.folder]
         /\ \A c \in remote' : c.folder = r.folder /\ c.uid = r.uid => c \in remote
<1>1. /\ r.folder \in Folders /\ r.uid \in Nat /\ r.validity \in Nat
      /\ validity[r.folder] \in Nat /\ nextUID[r.folder] \in Nat
  BY OperationsAssumption DEF Typed, ServerTyped, Rows
<1>2. /\ r.validity <= validity[r.folder]
      /\ r.validity = validity[r.folder] => r.uid < nextUID[r.folder]
  BY DEF RowNames, Names
<1>3. Advances(r.folder)
  BY <1>1 DEF ServerSound
<1>4. r.validity = validity[r.folder]
  BY <1>1, <1>2, <1>3 DEF Advances
<1>5. \A c \in remote' : c.folder = r.folder => c \in remote \/ nextUID[r.folder] <= c.uid
  BY <1>1, <1>3, <1>4 DEF Advances
<1> QED
  BY <1>1, <1>2, <1>4, <1>5

(* The copies a command is for only become fewer while it is prepared.      *)
LEMMA SelectedShrinks ==
  ASSUME TypeInv, NamesInv, ServerSound, worker.pc \in {"selected", "copied"}, SameGroup
  PROVE  /\ Selected' \subseteq Selected /\ Selected' \subseteq remote
         /\ \A c \in Selected' : validity'[c.folder] = validity[c.folder]
<1>0. Typed /\ UniqueUIDs /\ Busy /\ PlanNames
  BY DEF TypeInv, NamesInv
<1> SUFFICES ASSUME NEW c \in Selected'
             PROVE  c \in Selected /\ c \in remote /\ validity'[c.folder] = validity[c.folder]
  OBVIOUS
<1>1. c \in remote' /\ SessionIsGood'
  BY DEF Selected
<1>2. PICK r \in worker.group : r.folder = c.folder /\ r.uid = c.uid
  BY DEF Selected, SameGroup
<1>3. \A q \in worker.group : q.folder = r.folder /\ q.validity = worker.session
  BY <1>0 DEF Busy
<1>4. r \in worker.chosen /\ r \in Rows
  BY <1>0 DEF Busy, Typed, WorkerStates
<1>5. r.validity = validity'[r.folder]
  BY <1>1, <1>3 DEF SessionIsGood, SameGroup
<1>6. r.validity = validity[r.folder] /\ c \in remote
  BY <1>0, <1>1, <1>2, <1>4, <1>5, PlaceFacts DEF PlanNames
<1>7. SessionIsGood
  BY <1>3, <1>6 DEF SessionIsGood
<1> QED
  BY <1>2, <1>5, <1>6, <1>7 DEF Selected

(* An appended copy is none of those that were there.                       *)
LEMMA AppendedAreNew ==
  ASSUME Typed, UniqueUIDs, NEW f \in Folders, NEW S \in SUBSET remote,
         \A c, d \in S : c.uid = d.uid => c = d
  PROVE  /\ \A c \in S : \E a \in Appended(S, f) : a.mail = c.mail
         /\ \A a \in Appended(S, f) : a \notin remote
<1>1. remote \subseteq Copies /\ IsFiniteSet(remote) /\ nextUID[f] \in Nat \ {0}
  BY DEF Typed, ServerTyped
<1>2. S \in SUBSET Copies /\ IsFiniteSet(S)
  BY <1>1, FS_Subset
<1>3. /\ Appended(S, f) \subseteq Copies
      /\ \A a \in Appended(S, f) : a.folder = f /\ nextUID[f] <= a.uid
      /\ \A c \in S : \E a \in Appended(S, f) : a.mail = c.mail
  BY <1>1, <1>2, AppendedFacts
<1>4. ASSUME NEW a \in Appended(S, f) PROVE a \notin remote
  <2>1. a.folder = f /\ nextUID[f] <= a.uid /\ a.uid \in Nat
    BY <1>3 DEF Copies
  <2> QED
    BY <1>1, <2>1 DEF UniqueUIDs
<1> QED
  BY <1>3, <1>4

(* Where the copies of a mail are after the steps of the server: each copy  *)
(* stays, or another copy of its mail that is not among the selected ones   *)
(* comes, or the mail is removed.                                           *)
Survives(x) ==
  \/ x.mail \in removed'
  \/ x \in remote'
  \/ \E y \in remote' \ Selected' : y.mail = x.mail

LEMMA ForeignSurvival ==
  ASSUME TypeInv, NamesInv, ServerSound, worker.pc = "copied", UNCHANGED worker,
         NEW x \in remote,
         \/ \E c \in remote : OtherClientExpunges(c)
         \/ \E c \in remote : \E f \in Folders : OtherClientTransfers(c, f)
         \/ \E f \in Folders : Recreate(f)
  PROVE  Survives(x)
<1>0. Typed /\ UniqueUIDs /\ Busy
  BY DEF TypeInv
<1>1. Selected' \subseteq Selected /\ Selected' \subseteq remote
      /\ \A c \in Selected' : validity'[c.folder] = validity[c.folder]
  BY SelectedShrinks DEF SameGroup
<1>2. ASSUME NEW c \in remote, OtherClientExpunges(c) PROVE Survives(x)
  BY <1>2 DEF OtherClientExpunges, Survives
<1>3. ASSUME NEW c \in remote, NEW f \in Folders, OtherClientTransfers(c, f) PROVE Survives(x)
  <2>1. PICK gone \in {{}, {c}} : remote' = (remote \ gone) \cup Appended({c}, f)
    BY <1>3 DEF OtherClientTransfers
  <2>2. /\ \E a \in Appended({c}, f) : a.mail = c.mail
        /\ \A a \in Appended({c}, f) : a \notin remote
    BY <1>0, AppendedAreNew
  <2> QED
    BY <1>1, <2>1, <2>2 DEF Survives
<1>4. ASSUME NEW f \in Folders, Recreate(f) PROVE Survives(x)
  <2> DEFINE here == {c \in remote : c.folder = f}
  <2>1. PICK number \in Injection(here, 1..Cardinality(here)) :
          remote' = (remote \ here) \cup {[c EXCEPT !.uid = number[c]] : c \in here}
    BY <1>4 DEF Recreate
  <2>2. CASE x.folder # f
    BY <2>1, <2>2 DEF Survives
  <2>3. CASE x.folder = f
    <3> DEFINE y == [x EXCEPT !.uid = number[x]]
    <3>1. x \in Copies
      BY <1>0 DEF Typed, ServerTyped
    <3>2. y \in remote' /\ y.mail = x.mail /\ y.folder = f
      BY <2>1, <2>3, <3>1 DEF Copies
    <3>3. validity'[f] # validity[f]
      <4>1. validity' = [validity EXCEPT ![f] = @ + 1]
        BY <1>4 DEF Recreate
      <4>2. validity \in [Folders -> 1..MaxValidity]
        BY <1>0 DEF Typed, ServerTyped
      <4> QED
        BY <4>1, <4>2
    <3>4. y \notin Selected'
      BY <1>1, <3>2, <3>3
    <3> QED
      BY <3>2, <3>4 DEF Survives
  <2> QED
    BY <2>2, <2>3
<1> QED
  BY <1>2, <1>3, <1>4

LEMMA SafeCopiesStep ==
  ASSUME TypeInv, NamesInv, SafeCopies, [Next]_vars
  PROVE  SafeCopies'
<1>0. Typed /\ UniqueUIDs /\ Busy /\ ServerSound /\ worker \in WorkerStates
  BY TypeInvStep DEF TypeInv, Typed
<1> SUFFICES ASSUME worker'.pc = "copied", NEW c \in Selected'
             PROVE  c.mail \in removed' \/ \E d \in remote' \ Selected' : d.mail = c.mail
  BY DEF SafeCopies
<1>1. CASE Transfer
  <2>1. PICK S \in SUBSET Selected : Transfers(S)
    BY <1>0, <1>1, TransferFacts
  <2>2. /\ S = Selected /\ SameGroup /\ worker.strategy = "copy"
        /\ remote' = remote \cup Appended(S, Current.to)
    BY <2>1 DEF Transfers
  <2>3. worker.pc = "selected" /\ Current.to \in Folders
    BY <1>0, <1>1, CurrentFacts DEF Transfer
  <2>4. Selected' \subseteq Selected /\ Selected' \subseteq remote
    BY <1>0, <2>2, <2>3, SelectedShrinks
  <2>5. S \in SUBSET remote /\ \A a, b \in S : a.uid = b.uid => a = b
    BY <1>0, <2>2, <2>3, SelectedFacts
  <2>6. /\ \A b \in S : \E a \in Appended(S, Current.to) : a.mail = b.mail
        /\ \A a \in Appended(S, Current.to) : a \notin remote
    BY <1>0, <2>3, <2>5, AppendedAreNew
  <2> QED
    BY <2>2, <2>4, <2>6
<1>2. CASE UNCHANGED worker /\ \A x \in remote : Survives(x)
  <2>1. worker.pc = "copied"
    BY <1>2
  <2>2. Selected' \subseteq Selected
    BY <1>0, <1>2, <2>1, SelectedShrinks DEF SameGroup
  <2>3. CASE c.mail \in removed
    <3>1. removed \subseteq removed'
      BY <1>2 DEF Next, WorkerStep, StoreFlags, Transfer, Expunge, vars, history, CreateOperation,
         WindowCloses, UndoOperation, PassStep, Restart, PendingOperationIDs, SelectFolder, PrepareFolder,
         ListFolder, StoreMessages, ReconcileFolder, OtherClientExpunges, OtherClientTransfers,
         Recreate, ClaimOperation, LoadOperation, SelectLocationGroup, CommitProgress, CommitFails,
         AllGroupsDone, FinishOperation, FinishFails
    <3> QED
      BY <2>3, <3>1
  <2>4. ASSUME NEW d \in remote \ Selected, d.mail = c.mail
        PROVE  c.mail \in removed' \/ \E y \in remote' \ Selected' : y.mail = c.mail
    <3>1. Survives(d)
      BY <1>2
    <3> QED
      BY <2>2, <2>4, <3>1 DEF Survives
  <2> QED
    BY <2>1, <2>2, <2>3, <2>4 DEF SafeCopies
<1>3. CASE UNCHANGED <<worker, remote>>
  BY <1>2, <1>3 DEF Survives
<1>4. CASE \/ \E x \in remote : OtherClientExpunges(x)
           \/ \E x \in remote : \E f \in Folders : OtherClientTransfers(x, f)
           \/ \E f \in Folders : Recreate(f)
  <2>1. UNCHANGED worker
    BY <1>4 DEF OtherClientExpunges, OtherClientTransfers, Recreate
  <2> QED
    BY <1>0, <1>2, <1>4, <2>1, ForeignSurvival
<1>5. CASE WorkerStep /\ ~Transfer
  <2>1. CASE ClaimOperation
    BY <1>0, <2>1, ClaimFacts
  <2>2. CASE LoadOperation
    BY <1>0, <2>2, LoadFacts, FinishFacts DEF Plans
  <2>3. CASE SelectLocationGroup
    BY <1>0, <2>3, SelectFacts, FinishFacts, PartialFacts DEF Selects
  <2>4. CASE StoreFlags \/ Expunge
    BY <1>0, <2>4, StoreFlagsFacts, ExpungeFacts DEF Commands
  <2>5. CASE CommitProgress
    BY <1>0, <2>5, CommitFacts
  <2>6. CASE CommitFails \/ AllGroupsDone \/ FinishOperation \/ FinishFails
    BY <1>0, <2>6, EndsFacts, IdleWorkerState DEF Ends
  <2> QED
    BY <1>5, <2>1, <2>2, <2>3, <2>4, <2>5, <2>6 DEF WorkerStep
<1>6. CASE Restart
  BY <1>6, IdleWorkerState DEF Restart
<1>7. CASE \/ \E o \in Ops, k \in Kinds, T \in SUBSET messages, f \in Folders : CreateOperation(o, k, T, f)
           \/ \E o \in Ops : WindowCloses(o) \/ UndoOperation(o)
           \/ PassStep \/ UNCHANGED vars
  BY <1>3, <1>7 DEF vars, server, CreateOperation, WindowCloses, UndoOperation, PassStep,
     PendingOperationIDs, SelectFolder, PrepareFolder, ListFolder, StoreMessages, ReconcileFolder
<1> QED
  BY <1>1, <1>4, <1>5, <1>6, <1>7 DEF Next

(* A mail that is not removed keeps a copy.                                 *)
HasCopy(m) == \E c \in remote : c.mail = m

LEMMA LostStep ==
  ASSUME TypeInv, NamesInv, SafeCopies, MailIsNeverLost, [Next]_vars
  PROVE  MailIsNeverLost'
<1>0. Typed /\ UniqueUIDs /\ Busy
  BY DEF TypeInv
<1> SUFFICES ASSUME NEW m \in Mails, m \notin removed' PROVE HasCopy(m)'
  BY DEF MailIsNeverLost, HasCopy
<1>1. CASE UNCHANGED <<remote, removed>>
  BY <1>1 DEF MailIsNeverLost, HasCopy
<1>2. CASE Transfer
  <2>1. PICK S \in SUBSET Selected : Transfers(S)
    BY <1>0, <1>2, TransferFacts
  <2>2. worker.pc = "selected" /\ Current.to \in Folders /\ UNCHANGED removed
    BY <1>0, <1>2, CurrentFacts DEF Transfer
  <2>3. S \in SUBSET remote /\ \A a, b \in S : a.uid = b.uid => a = b
    BY <1>0, <2>2, SelectedFacts
  <2>4. \A b \in S : \E a \in Appended(S, Current.to) : a.mail = b.mail
    BY <1>0, <2>2, <2>3, AppendedAreNew
  <2>5. (remote \ S) \cup Appended(S, Current.to) \subseteq remote'
    BY <2>1 DEF Transfers
  <2>6. PICK c \in remote : c.mail = m
    BY <2>2 DEF MailIsNeverLost
  <2> QED
    BY <2>4, <2>5, <2>6 DEF HasCopy
<1>3. CASE Expunge
  <2>1. PICK S \in SUBSET Selected :
          /\ remote' = remote \ S
          /\ removed' = removed \cup
               MailsOf({c \in S : Current.kind = "delete" /\ c.folder = "trash"})
    BY <1>0, <1>3, ExpungeFacts
  <2>2. m \notin removed /\ \A c \in S : Current.kind = "delete" /\ c.folder = "trash" => c.mail # m
    BY <2>1 DEF MailsOf
  <2>3. PICK c \in remote : c.mail = m
    BY <2>2 DEF MailIsNeverLost
  <2>4. CASE c \notin S
    BY <2>1, <2>3, <2>4 DEF HasCopy
  <2>5. CASE c \in S /\ worker.pc = "copied"
    <3>1. PICK d \in remote \ Selected : d.mail = m
      BY <2>2, <2>3, <2>5 DEF SafeCopies
    <3> QED
      BY <2>1, <3>1 DEF HasCopy
  <2>6. CASE c \in S /\ worker.pc = "selected" /\ Current.kind = "delete"
    <3>1. PICK r \in worker.group : c.uid = r.uid
      BY <1>0, <2>6, SelectedFacts
    <3>2. c.folder = r.folder
      BY <1>0, <2>6, <3>1, SelectedFacts
    <3>3. r.folder = "trash"
      BY <1>0, <2>6, <3>1 DEF Busy
    <3> QED
      BY <2>2, <2>3, <2>6, <3>2, <3>3
  <2> QED
    BY <1>3, <2>4, <2>5, <2>6 DEF Expunge
<1>4. ASSUME NEW x \in remote, OtherClientExpunges(x) PROVE HasCopy(m)'
  BY <1>4 DEF OtherClientExpunges, MailIsNeverLost, HasCopy
<1>5. ASSUME NEW x \in remote, NEW f \in Folders, OtherClientTransfers(x, f) PROVE HasCopy(m)'
  <2>1. PICK gone \in {{}, {x}} : remote' = (remote \ gone) \cup Appended({x}, f)
    BY <1>5 DEF OtherClientTransfers
  <2>2. \E a \in Appended({x}, f) : a.mail = x.mail
    BY <1>0, AppendedAreNew
  <2>3. UNCHANGED removed
    BY <1>5 DEF OtherClientTransfers, history
  <2>4. PICK c \in remote : c.mail = m
    BY <2>3 DEF MailIsNeverLost
  <2> QED
    BY <2>1, <2>2, <2>4 DEF HasCopy
<1>6. ASSUME NEW f \in Folders, Recreate(f) PROVE HasCopy(m)'
  <2> DEFINE here == {c \in remote : c.folder = f}
  <2>1. PICK number \in Injection(here, 1..Cardinality(here)) :
          remote' = (remote \ here) \cup {[c EXCEPT !.uid = number[c]] : c \in here}
    BY <1>6 DEF Recreate
  <2>2. UNCHANGED removed
    BY <1>6 DEF Recreate, history
  <2>3. PICK c \in remote : c.mail = m
    BY <2>2 DEF MailIsNeverLost
  <2>4. c \in Copies
    BY <1>0 DEF Typed, ServerTyped
  <2>5. CASE c \in here
    <3>1. [c EXCEPT !.uid = number[c]].mail = m
      BY <2>3, <2>4 DEF Copies
    <3> QED
      BY <2>1, <2>5, <3>1 DEF HasCopy
  <2> QED
    BY <2>1, <2>3, <2>5 DEF HasCopy
<1>7. CASE WorkerStep
  BY <1>1, <1>2, <1>3, <1>7 DEF WorkerStep, server, history, ClaimOperation, LoadOperation,
     SelectLocationGroup, StoreFlags, CommitProgress, CommitFails, AllGroupsDone, FinishOperation,
     FinishFails
<1>8. CASE \/ \E o \in Ops, k \in Kinds, T \in SUBSET messages, f \in Folders : CreateOperation(o, k, T, f)
           \/ \E o \in Ops : WindowCloses(o) \/ UndoOperation(o)
           \/ PassStep \/ Restart \/ UNCHANGED vars
  BY <1>1, <1>8 DEF vars, server, history, CreateOperation, WindowCloses, UndoOperation, PassStep,
     Restart, PendingOperationIDs, SelectFolder, PrepareFolder, ListFolder, StoreMessages, ReconcileFolder
<1> QED
  BY <1>4, <1>5, <1>6, <1>7, <1>8 DEF Next

-----------------------------------------------------------------------------
(* What is done.  A source is done when the mailbox no longer holds a copy  *)
(* at its place, or when the flag was set on its mail; the worker counts as *)
(* done every source it no longer has to do.                                *)
Vacated(r) ==
  r.validity = validity[r.folder] => \A c \in remote : ~(c.folder = r.folder /\ c.uid = r.uid)
Done(r) == Vacated(r) \/ (Current.kind = "flag" /\ MailOf(r.msg) \in touched[worker.op])
InProgress ==
  IF worker.pc \in {"selected", "copied"} THEN worker.todo \cup worker.group ELSE worker.todo
DoneInv ==
  /\ worker.pc \in {"select", "selected", "copied", "commit"}
       => \A r \in worker.chosen \ InProgress : Done(r)
  /\ worker.pc = "finish" /\ worker.outcome = "succeeded" => \A r \in worker.chosen : Done(r)

LEMMA VacatedKept ==
  ASSUME Typed, ServerSound
  PROVE  \A r \in Rows : RowNames(r) /\ Vacated(r) => Vacated(r)'
<1> SUFFICES ASSUME NEW r \in Rows, RowNames(r), Vacated(r), r.validity = validity'[r.folder]
             PROVE  \A c \in remote' : ~(c.folder = r.folder /\ c.uid = r.uid)
  BY DEF Vacated
<1> QED
  BY PlaceFacts DEF Vacated

(* A command that answers leaves nothing of what it was for.                *)
LEMMA GroupVacated ==
  ASSUME TypeInv, NamesInv, ServerSound, worker.pc \in {"selected", "copied"}, SessionIsGood,
         remote' \cap Selected = {}
  PROVE  \A r \in worker.group : Vacated(r)'
<1>0. Typed /\ Busy /\ PlanNames
  BY DEF TypeInv, NamesInv
<1> SUFFICES ASSUME NEW r \in worker.group, r.validity = validity'[r.folder], NEW c \in remote',
                    c.folder = r.folder, c.uid = r.uid
             PROVE  FALSE
  BY DEF Vacated
<1>1. r \in Rows /\ RowNames(r)
  BY <1>0 DEF Typed, WorkerStates, Busy, PlanNames
<1>2. c \in remote
  BY <1>0, <1>1, PlaceFacts
<1> QED
  BY <1>2 DEF Selected

(* What was done stays done while the worker keeps its operation.           *)
LEMMA DoneKept ==
  ASSUME TypeInv, NamesInv, ServerSound, OpsSound, [Next]_vars, worker.pc # "idle",
         worker'.op = worker.op, ~FinishOperation, ~Restart
  PROVE  \A r \in worker.chosen : Done(r) => Done(r)'
<1>0. Typed /\ UniqueUIDs /\ Busy /\ PlanNames
  BY DEF TypeInv, NamesInv
<1> SUFFICES ASSUME NEW r \in worker.chosen, Done(r) PROVE Done(r)'
  OBVIOUS
<1>1. r \in Rows /\ RowNames(r)
  BY <1>0 DEF Typed, WorkerStates, PlanNames
<1>2. Vacated(r) => Vacated(r)'
  BY <1>0, <1>1, VacatedKept
<1>3. op'[worker.op].kind = Current.kind /\ worker.op \in Ops
  BY <1>0, CurrentStays
<1>4. Current'.kind = Current.kind
  BY <1>3 DEF Current
<1>5. touched[worker.op] \subseteq touched'[worker.op]
  <2>1. CASE UNCHANGED touched
    BY <2>1
  <2>2. CASE ~UNCHANGED touched
    <3>1. worker.pc \in {"selected", "copied"} /\ \E S \in SUBSET Selected : Touch(S)
      BY <2>2, TouchedFacts
    <3>2. PICK S \in SUBSET Selected : Touch(S)
      BY <3>1
    <3>3. S \in SUBSET Copies
      BY <1>0, <3>1, SelectedFacts
    <3> QED
      BY <1>0, <3>2, <3>3, TouchFacts
  <2> QED
    BY <2>1, <2>2
<1> QED
  BY <1>2, <1>4, <1>5 DEF Done

(* A group that is answered is done.                                        *)
LEMMA CommandDone ==
  ASSUME TypeInv, NamesInv, ServerSound, StoreFlags \/ Transfer \/ Expunge, worker'.pc = "commit"
  PROVE  /\ SameTask /\ SameGroup
         /\ \A r \in worker.group : Done(r)'
<1>0. Typed /\ UniqueUIDs /\ Busy /\ PlanNames /\ worker.pc \in {"selected", "copied"}
  BY DEF TypeInv, NamesInv, StoreFlags, Transfer, Expunge
<1>1. CASE StoreFlags
  <2>1. PICK S \in SUBSET Selected : Commands(S)
    BY <1>0, <1>1, StoreFlagsFacts
  <2>2. Touch(S) /\ SameTask /\ SameGroup /\ SessionIsGood /\ S = Selected
    BY <2>1 DEF Commands
  <2>3. S \in SUBSET Copies /\ Selected \subseteq remote
    BY <1>0, <2>2, SelectedFacts
  <2>4. touched'[worker.op] = touched[worker.op] \cup MailsOf(S) /\ worker'.op = worker.op
    BY <1>0, <2>2, <2>3, TouchFacts DEF SameTask
  <2>5. Current' = Current /\ Current.kind = "flag" /\ UNCHANGED <<remote, validity>>
    BY <1>1, <2>4 DEF StoreFlags, Current, server, opTables
  <2>6. ASSUME NEW r \in worker.group PROVE Done(r)'
    <3>1. CASE Vacated(r)
      BY <2>5, <3>1 DEF Done, Vacated
    <3>2. CASE ~Vacated(r)
      <4>1. PICK c \in remote : c.folder = r.folder /\ c.uid = r.uid /\ r.validity = validity[r.folder]
        BY <3>2 DEF Vacated
      <4>2. c \in S
        BY <2>2, <4>1 DEF Selected
      <4>3. RowNames(r)
        BY <1>0 DEF Busy, PlanNames
      <4>4. c.mail = MailOf(r.msg)
        BY <4>1, <4>3 DEF RowNames, Names
      <4>5. MailOf(r.msg) \in touched'[worker'.op]
        BY <2>4, <4>2, <4>4 DEF MailsOf
      <4> QED
        BY <2>5, <4>5 DEF Done
    <3> QED
      BY <3>1, <3>2
  <2> QED
    BY <2>2, <2>6
<1>2. CASE Transfer
  <2>1. PICK S \in SUBSET Selected : Transfers(S)
    BY <1>0, <1>2, TransferFacts
  <2>2. SameTask /\ SameGroup /\ SessionIsGood /\ S = Selected /\ worker.strategy # "copy"
    BY <2>1 DEF Transfers
  <2>3. remote' = (remote \ S) \cup Appended(S, Current.to)
    BY <2>1, <2>2 DEF Transfers
  <2>4. Current.to \in Folders
    BY <1>0, CurrentFacts
  <2>5. S \in SUBSET remote /\ \A a, b \in S : a.uid = b.uid => a = b
    BY <1>0, <2>2, SelectedFacts
  <2>6. \A a \in Appended(S, Current.to) : a \notin remote
    BY <1>0, <2>4, <2>5, AppendedAreNew
  <2>7. remote' \cap Selected = {}
    BY <2>2, <2>3, <2>5, <2>6
  <2> QED
    BY <1>0, <2>2, <2>7, GroupVacated DEF Done
<1>3. CASE Expunge
  <2>1. PICK S \in SUBSET Selected : Commands(S) /\ remote' = remote \ S
    BY <1>0, <1>3, ExpungeFacts
  <2>2. SameTask /\ SameGroup /\ SessionIsGood /\ S = Selected
    BY <2>1 DEF Commands
  <2>3. remote' \cap Selected = {}
    BY <2>1, <2>2
  <2> QED
    BY <1>0, <2>2, <2>3, GroupVacated DEF Done
<1> QED
  BY <1>1, <1>2, <1>3

LEMMA DoneStep ==
  ASSUME TypeInv, NamesInv, DoneInv, [Next]_vars
  PROVE  DoneInv'
<1>0. Typed /\ UniqueUIDs /\ Busy /\ ServerSound /\ OpsSound /\ worker \in WorkerStates
  BY TypeInvStep DEF TypeInv, Typed
<1>1. CASE worker'.chosen = {} \/ worker'.pc \in {"idle", "claimed"}
  BY <1>1 DEF DoneInv
<1>2. CASE LoadOperation
  <2>1. CASE Plans
    BY <2>1 DEF Plans, DoneInv, InProgress
  <2>2. CASE Finish("failed") \/ Finish("needs_attention")
    BY <1>0, <2>2, FinishFacts DEF DoneInv
  <2> QED
    BY <1>0, <1>2, <2>1, <2>2, LoadFacts
<1>3. CASE UNCHANGED <<worker, faults>>
  <2>1. CASE worker.pc = "idle"
    BY <1>1, <1>3, <2>1
  <2>2. CASE worker.pc # "idle"
    <3>1. ~FinishOperation /\ ~Restart
      BY <1>0, <1>3, <2>2, NotRestart, IdleWorkerState DEF FinishOperation
    <3>2. \A r \in worker.chosen : Done(r) => Done(r)'
      BY <1>0, <1>3, <2>2, <3>1, DoneKept
    <3>3. InProgress' = InProgress
      BY <1>3 DEF InProgress
    <3> QED
      BY <1>3, <3>2, <3>3 DEF DoneInv
  <2> QED
    BY <2>1, <2>2
<1>4. CASE SelectLocationGroup
  <2>1. worker.pc = "select" /\ UNCHANGED faults
    BY <1>4 DEF SelectLocationGroup, bounds
  <2>2. CASE Selects
    <3>1. worker'.op = worker.op /\ worker'.chosen = worker.chosen
      BY <2>2 DEF Selects, SameTask
    <3>2. \A r \in worker.chosen : Done(r) => Done(r)'
      BY <1>0, <2>1, <3>1, DoneKept, NotRestart DEF FinishOperation
    <3>3. InProgress' = InProgress /\ worker'.pc = "selected"
      BY <2>1, <2>2 DEF Selects, InProgress
    <3> QED
      BY <2>1, <3>1, <3>2, <3>3 DEF DoneInv
  <2>3. CASE Finish("needs_attention") \/ Finish(Partial)
    BY <1>0, <2>3, FinishFacts, PartialFacts DEF DoneInv
  <2> QED
    BY <1>0, <1>4, <2>2, <2>3, SelectFacts
<1>5. CASE StoreFlags \/ Transfer \/ Expunge
  <2>1. worker.pc \in {"selected", "copied"} /\ UNCHANGED faults
    BY <1>5 DEF StoreFlags, Transfer, Expunge, bounds
  <2>2. /\ worker'.pc \in {"finish", "commit", "copied"} /\ SameTask /\ SameGroup
        /\ (worker'.pc = "finish" => worker'.outcome = "unknown")
    BY <1>0, <1>5, StoreFlagsFacts, TransferFacts, ExpungeFacts DEF Commands, Transfers
  <2>3. worker'.op = worker.op /\ worker'.chosen = worker.chosen /\ worker'.todo = worker.todo
        /\ worker'.group = worker.group
    BY <2>2 DEF SameTask, SameGroup
  <2>4. \A r \in worker.chosen : Done(r) => Done(r)'
    BY <1>0, <2>1, <2>3, DoneKept, NotRestart DEF FinishOperation
  <2>5. \A r \in worker.chosen \ (worker.todo \cup worker.group) : Done(r)'
    BY <2>1, <2>4 DEF DoneInv, InProgress
  <2>6. CASE worker'.pc = "finish"
    BY <2>2, <2>6 DEF DoneInv
  <2>7. CASE worker'.pc = "copied"
    BY <2>3, <2>5, <2>7 DEF DoneInv, InProgress
  <2>8. CASE worker'.pc = "commit"
    <3>1. \A r \in worker.group : Done(r)'
      BY <1>0, <1>5, <2>8, CommandDone
    <3> QED
      BY <2>3, <2>5, <2>8, <3>1 DEF DoneInv, InProgress
  <2> QED
    BY <2>2, <2>6, <2>7, <2>8
<1>6. CASE CommitProgress
  <2>1. worker.pc = "commit" /\ UNCHANGED faults
    BY <1>6 DEF CommitProgress, bounds
  <2>2. worker'.pc = "select" /\ worker'.op = worker.op /\ worker'.chosen = worker.chosen
        /\ worker'.todo = worker.todo
    BY <1>0, <1>6, CommitFacts DEF SameTask, SameGroup
  <2>3. \A r \in worker.chosen : Done(r) => Done(r)'
    BY <1>0, <2>1, <2>2, DoneKept, NotRestart DEF FinishOperation
  <2> QED
    BY <2>1, <2>2, <2>3 DEF DoneInv, InProgress
<1>7. CASE AllGroupsDone
  <2>1. worker.pc = "select" /\ worker.todo = {} /\ UNCHANGED faults /\ Finish("succeeded")
    BY <1>7 DEF AllGroupsDone, bounds
  <2>2. worker'.pc = "finish" /\ worker'.op = worker.op /\ worker'.chosen = worker.chosen
    BY <1>0, <2>1, FinishFacts DEF SameTask
  <2>3. \A r \in worker.chosen : Done(r) => Done(r)'
    BY <1>0, <2>1, <2>2, DoneKept, NotRestart DEF FinishOperation
  <2> QED
    BY <2>1, <2>2, <2>3 DEF DoneInv, InProgress
<1>8. CASE CommitFails \/ FinishOperation \/ FinishFails \/ Restart
  <2>1. Ends
    BY <1>0, <1>8, EndsFacts
  <2>2. CASE worker' = IdleWorker
    BY <1>1, <2>2, IdleWorkerState
  <2>3. CASE worker' # IdleWorker
    <3>1. worker.pc \in {"commit", "finish"}
      BY <1>8, <2>3 DEF CommitFails, FinishOperation, FinishFails, Restart
    <3>2. worker'.pc = "finish" /\ worker'.outcome # "succeeded"
      BY <2>1, <2>3, <3>1, PartialFacts DEF Ends, AllGroupsDone
    <3> QED
      BY <3>2 DEF DoneInv
  <2> QED
    BY <2>2, <2>3
<1>9. CASE ClaimOperation
  BY <1>0, <1>1, <1>9, ClaimFacts
<1>10. CASE WorkerStep
  BY <1>2, <1>4, <1>5, <1>6, <1>7, <1>8, <1>9, <1>10 DEF WorkerStep
<1>11. CASE ~(WorkerStep \/ Restart)
  <2>1. UNCHANGED <<worker, faults>>
    BY <1>11 DEF Next, vars, bounds, CreateOperation, WindowCloses, UndoOperation, PassStep,
     PendingOperationIDs, SelectFolder, PrepareFolder, ListFolder, StoreMessages, ReconcileFolder,
     OtherClientExpunges, OtherClientTransfers, Recreate, Event
  <2> QED
    BY <1>3, <2>1
<1> QED
  BY <1>8, <1>10, <1>11

-----------------------------------------------------------------------------
(* The undo window.  Only a queued operation has one, and what waits to be  *)
(* applied has none: it can no longer be undone when it starts.             *)
WindowInv ==
  /\ \A o \in Ops : op[o].window => op[o].status = "queued"
  /\ \A i \in DOMAIN ready : op[ready[i]].status # "none" /\ ~op[ready[i]].window

(* A step that adds nothing to the ready operations and opens no window.    *)
LEMMA WindowKept ==
  ASSUME OpsTyped, OpsSound, WindowInv, ready' = ready,
         \A o \in Ops : op'[o].window => op[o].window /\ op'[o].status = "queued"
  PROVE  WindowInv'
<1>1. \A i \in DOMAIN ready : ready[i] \in Ops
  BY DEF OpsTyped
<1> QED
  BY <1>1 DEF WindowInv, OpsSound, Kept

(* One operation more becomes ready.                                        *)
LEMMA WindowAppend ==
  ASSUME OpsTyped, WindowInv, NEW o \in Ops, ready' = Append(ready, o),
         op'[o].status # "none", ~op'[o].window,
         \A p \in Ops : p # o => op'[p] = op[p]
  PROVE  WindowInv'
<1>1. ready \in Seq(Ops) /\ Len(ready) \in Nat
  BY DEF OpsTyped
<1>2. \A i \in DOMAIN ready' : (i \in DOMAIN ready /\ ready'[i] = ready[i]) \/ ready'[i] = o
  BY <1>1
<1>3. \A i \in DOMAIN ready : ready[i] \in Ops
  BY <1>1
<1>4. \A i \in DOMAIN ready' : op'[ready'[i]].status # "none" /\ ~op'[ready'[i]].window
  BY <1>2, <1>3 DEF WindowInv
<1>5. \A p \in Ops : op'[p].window => op'[p].status = "queued"
  BY DEF WindowInv
<1> QED
  BY <1>4, <1>5 DEF WindowInv

LEMMA WindowStep ==
  ASSUME Typed, Busy, OpsSound, WindowInv, [Next]_vars
  PROVE  WindowInv'
<1>0. OpsTyped /\ ready \in Seq(Ops) /\ Len(ready) \in Nat /\ messages \subseteq Messages
      /\ IsFiniteSet(messages)
  BY DEF Typed, OpsTyped, TablesTyped
<1>1. CASE UNCHANGED opTables
  BY <1>0, <1>1, WindowKept DEF opTables, WindowInv
<1>2. ASSUME NEW o \in Ops, NEW k \in Kinds, NEW T \in SUBSET messages, NEW f \in Folders,
             CreateOperation(o, k, T, f)
      PROVE  WindowInv'
  <2>1. /\ \A p \in Ops : p # o => op'[p] = op[p]
        /\ op[o].status = "none" /\ op'[o].status = "queued"
    BY <1>0, <1>2, CreateOps
  <2>2. op'[o].window = (k \in {"archive", "trash"})
    BY <1>0, <1>2 DEF CreateOperation, OpsTyped
  <2>3. CASE ready' = ready
    <3>1. \A i \in DOMAIN ready : ready[i] \in Ops /\ ready[i] # o
      BY <1>0, <2>1 DEF WindowInv
    <3> QED
      BY <2>1, <2>3, <3>1 DEF WindowInv
  <2>4. CASE ready' # ready
    <3>1. ready' = Append(ready, o) /\ ~op'[o].window
      BY <1>2, <2>2, <2>4 DEF CreateOperation
    <3> QED
      BY <1>0, <2>1, <3>1, WindowAppend
  <2> QED
    BY <2>3, <2>4
<1>3. ASSUME NEW o \in Ops, WindowCloses(o) PROVE WindowInv'
  <2>1. /\ op[o].status = "queued" /\ ready' = Append(ready, o)
        /\ op' = [op EXCEPT ![o].window = FALSE]
    BY <1>3 DEF WindowCloses, WindowInv
  <2>2. op'[o].status = op[o].status /\ ~op'[o].window /\ \A p \in Ops : p # o => op'[p] = op[p]
    BY <1>0, <2>1 DEF OpsTyped, OpStates
  <2> QED
    BY <1>0, <2>1, <2>2, WindowAppend
<1>4. ASSUME NEW o \in Ops, UndoOperation(o) PROVE WindowInv'
  <2>1. (\A p \in Ops : p # o => op'[p] = op[p]) /\ UNCHANGED ready
    BY <1>0, <1>4, UndoOps DEF UndoOperation
  <2>2. ~op'[o].window
    BY <1>0, <1>4 DEF UndoOperation, OpsTyped, OpStates
  <2>3. \A p \in Ops : op'[p].window => op[p].window /\ op'[p].status = "queued"
    BY <2>1, <2>2 DEF WindowInv
  <2> QED
    BY <1>0, <2>1, <2>3, WindowKept
<1>5. CASE ClaimOperation
  <2>1. PICK o \in Ops :
          /\ op[o].status = "queued" /\ op' = [op EXCEPT ![o].status = "running"]
          /\ \E i \in DOMAIN ready : ready[i] = o /\ ready' = SubSeq(ready, i + 1, Len(ready))
    BY <1>5, ClaimFacts DEF Typed, TypeInv
  <2>2. PICK i \in DOMAIN ready : ready[i] = o /\ ready' = SubSeq(ready, i + 1, Len(ready))
    BY <2>1
  <2>3. i \in 1..Len(ready)
    BY <1>0
  <2>4. \A k \in DOMAIN ready' : k + i \in DOMAIN ready /\ ready'[k] = ready[k + i]
    BY <1>0, <2>2, <2>3
  <2>5. /\ op'[o].status = "running" /\ op'[o].window = op[o].window
        /\ \A p \in Ops : p # o => op'[p] = op[p]
    BY <1>0, <2>1, StatusChanges DEF OpsTyped, Statuses
  <2>6. ~op[o].window
    BY <2>2 DEF WindowInv
  <2>7. \A k \in DOMAIN ready : ready[k] \in Ops
    BY <1>0
  <2>8. \A p \in Ops : op'[p].window => op'[p].status = "queued"
    BY <2>5, <2>6 DEF WindowInv
  <2>9. \A k \in DOMAIN ready : op'[ready[k]].status # "none" /\ ~op'[ready[k]].window
    BY <2>5, <2>6, <2>7 DEF WindowInv
  <2> QED
    BY <2>4, <2>8, <2>9 DEF WindowInv
<1>6. CASE FinishOperation
  <2>1. worker.op \in Ops /\ worker.outcome \in Statuses
    BY <1>6, CurrentFacts DEF FinishOperation, Typed, WorkerStates, Statuses
  <2>2. UNCHANGED ready
    BY <1>6 DEF FinishOperation
  <2>3. CASE op[worker.op].status = "running"
    <3>1. op' = [op EXCEPT ![worker.op].status = worker.outcome]
      BY <1>6, <2>3 DEF FinishOperation, StillRunning
    <3>2. op'[worker.op].window = op[worker.op].window /\ \A p \in Ops : p # worker.op => op'[p] = op[p]
      BY <1>0, <2>1, <3>1, StatusChanges DEF OpsTyped
    <3>3. \A p \in Ops : op'[p].window => op[p].window /\ op'[p].status = "queued"
      BY <2>1, <2>3, <3>2 DEF WindowInv
    <3> QED
      BY <1>0, <2>2, <3>3, WindowKept
  <2>4. CASE op[worker.op].status # "running"
    <3>1. UNCHANGED op
      BY <1>6, <2>4 DEF FinishOperation, StillRunning
    <3> QED
      BY <1>0, <2>2, <3>1, WindowKept DEF WindowInv
  <2> QED
    BY <2>3, <2>4
<1>7. CASE Restart
  <2>1. \A o \in Ops : \/ op'[o] = op[o]
                       \/ /\ op[o].status = "running" /\ op'[o].status = "unknown"
                          /\ op'[o].window = op[o].window
    BY <1>0, <1>7, RestartOps
  <2>2. \A o \in Ops : op'[o].window => op[o].window /\ op'[o].status = "queued"
    BY <2>1 DEF WindowInv
  <2> QED
    BY <1>0, <1>7, <2>2, WindowKept DEF Restart
<1>8. CASE PrepareFolder
  <2>1. \A o \in Ops : op'[o] = op[o] \/ op'[o].window = FALSE
    BY <1>0, <1>8, PrepareOps
  <2> QED
    BY <1>0, <1>8, <2>1, WindowKept DEF PrepareFolder, WindowInv
<1>9. CASE WorkerStep
  BY <1>1, <1>5, <1>6, <1>9 DEF WorkerStep, LoadOperation, SelectLocationGroup, StoreFlags, Transfer,
     Expunge, CommitProgress, CommitFails, AllGroupsDone, FinishFails
<1>10. CASE PassStep
  BY <1>1, <1>8, <1>10 DEF PassStep, PendingOperationIDs, SelectFolder, ListFolder, StoreMessages, ReconcileFolder
<1>11. CASE \/ \E c \in remote : OtherClientExpunges(c) \/ \E f \in Folders : OtherClientTransfers(c, f)
            \/ (\E f \in Folders : Recreate(f)) \/ UNCHANGED vars
  BY <1>1, <1>11 DEF vars, OtherClientExpunges, OtherClientTransfers, Recreate
<1> QED
  BY <1>2, <1>3, <1>4, <1>7, <1>9, <1>10, <1>11 DEF Next

-----------------------------------------------------------------------------
(* The lifecycle.                                                           *)
LEMMA AbstractFacts ==
  /\ Abstract["none"] = "none" /\ Abstract["queued"] = "scheduled"
  /\ Abstract["running"] = "applying" /\ Abstract["succeeded"] = "applied"
  /\ Abstract["cancelled"] = "undone" /\ Abstract["failed"] = "failed"
  /\ Abstract["unknown"] = "needs_attention"
  /\ Abstract["needs_attention"] = "needs_attention"
BY DEF Abstract

(* One operation changes its status, the others stay as they are.           *)
LEMMA OneMoves ==
  ASSUME NEW o \in Ops, NEW from, NEW to,
         Abstract[op[o].status] = from, Abstract[op'[o].status] = to,
         \A p \in Ops : p # o => op'[p] = op[p]
  PROVE  Lifecycle!Move(o, from, to)
BY DEF Lifecycle!Move

LEMMA WindowsSame ==
  ASSUME \A o \in Ops : op'[o].window = op[o].window
  PROVE  {o \in Ops : op[o].window}' = {o \in Ops : op[o].window}
OBVIOUS

(* Operations that are handed to the user, at a rebuild, a restart or in    *)
(* doubt.                                                                   *)
LEMMA ManyNeedAttention ==
  ASSUME \A o \in Ops :
           \/ op'[o] = op[o]
           \/ /\ op[o].status \in {"queued", "running"}
              /\ op'[o].status \in {"needs_attention", "unknown"} /\ ~op'[o].window
  PROVE  Lifecycle!Next
<1>0. PICK S \in SUBSET Ops : \A o \in Ops : o \in S <=> op'[o] # op[o]
  <2>1. {o \in Ops : op'[o] # op[o]} \in SUBSET Ops
    OBVIOUS
  <2> QED
    BY <2>1
<1>1. \A o \in S : Abstract[op[o].status] \in {"scheduled", "applying"}
  BY <1>0, AbstractFacts
<1>2. \A o \in Ops : Abstract[op'[o].status] = IF o \in S THEN "needs_attention" ELSE Abstract[op[o].status]
  BY <1>0, AbstractFacts
<1>3. {o \in Ops : op[o].window}' = {o \in Ops : op[o].window} \ S
  BY <1>0
<1>4. Lifecycle!MarkNeedsAttention(S)
  BY <1>1, <1>2, <1>3 DEF Lifecycle!MarkNeedsAttention
<1> QED
  BY <1>4 DEF Lifecycle!Next

LEMMA LifeStep ==
  ASSUME Typed, Busy, WindowInv, [Next]_vars
  PROVE  Lifecycle!Next \/ UNCHANGED op
<1>0. OpsTyped /\ messages \subseteq Messages /\ IsFiniteSet(messages)
  BY DEF Typed, TablesTyped
<1>1. ASSUME NEW o \in Ops, NEW k \in Kinds, NEW T \in SUBSET messages, NEW f \in Folders,
             CreateOperation(o, k, T, f)
      PROVE  Lifecycle!Next
  <2>1. /\ \A p \in Ops : p # o => op'[p] = op[p]
        /\ op[o].status = "none" /\ op'[o].status = "queued"
    BY <1>0, <1>1, CreateOps
  <2>2. Lifecycle!Move(o, "none", "scheduled")
    BY <2>1, AbstractFacts, OneMoves
  <2>3. ~op[o].window
    BY <2>1 DEF WindowInv
  <2>4. {p \in Ops : op[p].window}' \in {{p \in Ops : op[p].window}, {p \in Ops : op[p].window} \cup {o}}
    BY <2>1, <2>3
  <2> QED
    BY <2>2, <2>4 DEF Lifecycle!Next, Lifecycle!NewOperation
<1>2. ASSUME NEW o \in Ops, WindowCloses(o) PROVE Lifecycle!Next
  <2>1. op[o].window /\ \A p \in Ops : op'[p].status = op[p].status
    BY <1>0, <1>2, WindowOps DEF WindowCloses
  <2>2. ~op'[o].window /\ \A p \in Ops : p # o => op'[p] = op[p]
    BY <1>0, <1>2 DEF WindowCloses, OpsTyped, OpStates
  <2>3. {p \in Ops : op[p].window}' = {p \in Ops : op[p].window} \ {o}
    BY <2>2
  <2>4. [p \in Ops |-> Abstract[op[p].status]]' = [p \in Ops |-> Abstract[op[p].status]]
    BY <2>1
  <2> QED
    BY <2>1, <2>3, <2>4 DEF Lifecycle!Next, Lifecycle!WindowCloses
<1>3. ASSUME NEW o \in Ops, UndoOperation(o) PROVE Lifecycle!Next
  <2>1. /\ \A p \in Ops : p # o => op'[p] = op[p]
        /\ op[o].status = "queued" /\ op'[o].status = "cancelled"
    BY <1>0, <1>3, UndoOps
  <2>2. op[o].window /\ ~op'[o].window
    BY <1>0, <1>3 DEF UndoOperation, OpsTyped, OpStates
  <2>3. Lifecycle!Move(o, "scheduled", "undone")
    BY <2>1, AbstractFacts, OneMoves
  <2>4. {p \in Ops : op[p].window}' = {p \in Ops : op[p].window} \ {o}
    BY <2>1, <2>2
  <2> QED
    BY <2>2, <2>3, <2>4 DEF Lifecycle!Next, Lifecycle!Undo
<1>4. CASE ClaimOperation
  <2>1. PICK o \in Ops :
          /\ op[o].status = "queued" /\ op' = [op EXCEPT ![o].status = "running"]
          /\ \E i \in DOMAIN ready : ready[i] = o
    BY <1>4, ClaimFacts
  <2>2. /\ op'[o].status = "running" /\ op'[o].window = op[o].window
        /\ \A p \in Ops : p # o => op'[p] = op[p]
    BY <1>0, <2>1, StatusChanges DEF OpsTyped, Statuses
  <2>3. ~op[o].window
    BY <2>1 DEF WindowInv
  <2>4. Lifecycle!Move(o, "scheduled", "applying")
    BY <2>1, <2>2, AbstractFacts, OneMoves
  <2>5. {p \in Ops : op[p].window}' = {p \in Ops : op[p].window}
    BY <2>2, WindowsSame
  <2> QED
    BY <2>3, <2>4, <2>5 DEF Lifecycle!Next, Lifecycle!Start
<1>5. CASE FinishOperation
  <2>1. /\ worker.op \in Ops /\ worker.outcome \in Statuses
        /\ worker.outcome \in {"succeeded", "failed", "unknown", "needs_attention"}
    BY <1>5, CurrentFacts DEF FinishOperation, Busy, Typed, WorkerStates, Statuses
  <2>2. CASE op[worker.op].status = "running"
    <3> DEFINE o == worker.op
    <3>1. op' = [op EXCEPT ![o].status = worker.outcome]
      BY <1>5, <2>2 DEF FinishOperation, StillRunning
    <3>2. /\ op'[o].status = worker.outcome /\ op'[o].window = op[o].window
          /\ \A p \in Ops : p # o => op'[p] = op[p]
      BY <1>0, <2>1, <3>1, StatusChanges DEF OpsTyped
    <3>3. ~op'[o].window /\ o \in Ops /\ op[o].status = "running"
      BY <2>1, <2>2, <3>2 DEF WindowInv
    <3> HIDE DEF o
    <3>4. {p \in Ops : op[p].window}' = {p \in Ops : op[p].window}
      BY <3>2, WindowsSame
    <3>5. CASE worker.outcome = "succeeded"
      <4>1. Lifecycle!Move(o, "applying", "applied")
        BY <3>2, <3>3, <3>5, AbstractFacts, OneMoves
      <4> QED
        BY <3>3, <3>4, <4>1 DEF Lifecycle!Next, Lifecycle!Complete
    <3>6. CASE worker.outcome = "failed"
      <4>1. Lifecycle!Move(o, "applying", "failed")
        BY <3>2, <3>3, <3>6, AbstractFacts, OneMoves
      <4> QED
        BY <3>3, <3>4, <4>1 DEF Lifecycle!Next, Lifecycle!Fail
    <3>7. CASE worker.outcome \in {"unknown", "needs_attention"}
      BY <3>2, <3>3, <3>7, ManyNeedAttention
    <3> QED
      BY <2>1, <3>5, <3>6, <3>7
  <2>3. CASE op[worker.op].status # "running"
    BY <1>5, <2>3 DEF FinishOperation, StillRunning
  <2> QED
    BY <2>2, <2>3
<1>6. CASE Restart
  <2>1. \A o \in Ops : \/ op'[o] = op[o]
                       \/ /\ op[o].status = "running" /\ op'[o].status = "unknown"
                          /\ op'[o].window = op[o].window
    BY <1>0, <1>6, RestartOps
  <2>2. \A o \in Ops : op[o].status = "running" => ~op[o].window
    BY DEF WindowInv
  <2> QED
    BY <2>1, <2>2, ManyNeedAttention
<1>7. CASE PrepareFolder
  <2>1. \/ op' = op
        \/ \A o \in Ops :
             \/ op'[o] = op[o]
             \/ /\ op[o].status \in {"queued", "running"} /\ op'[o].status = "needs_attention"
                /\ op'[o].window = FALSE
    BY <1>0, <1>7, PrepareOps
  <2> QED
    BY <2>1, ManyNeedAttention
<1>8. CASE WorkerStep
  BY <1>4, <1>5, <1>8 DEF WorkerStep, opTables, LoadOperation, SelectLocationGroup, StoreFlags,
     Transfer, Expunge, CommitProgress, CommitFails, AllGroupsDone, FinishFails
<1>9. CASE PassStep
  BY <1>7, <1>9 DEF PassStep, opTables, PendingOperationIDs, SelectFolder, ListFolder, StoreMessages, ReconcileFolder
<1>10. CASE \/ \E c \in remote : OtherClientExpunges(c) \/ \E f \in Folders : OtherClientTransfers(c, f)
            \/ (\E f \in Folders : Recreate(f)) \/ UNCHANGED vars
  BY <1>10 DEF vars, opTables, OtherClientExpunges, OtherClientTransfers, Recreate
<1> QED
  BY <1>1, <1>2, <1>3, <1>6, <1>8, <1>9, <1>10 DEF Next

-----------------------------------------------------------------------------
(* The inductive invariant of mail operations.                              *)
OperationsInv ==
  /\ TypeInv /\ NamesInv /\ UntouchedInv /\ OnlyTargetsTouched
  /\ SafeCopies /\ MailIsNeverLost /\ DoneInv /\ WindowInv

LEMMA InitOperations == Init => OperationsInv
<1> SUFFICES ASSUME Init PROVE OperationsInv
  OBVIOUS
<1>1. TypeInv /\ NamesInv /\ UntouchedInv
  BY TypeInvInit, InitNames, InitUntouched
<1>2. OnlyTargetsTouched
  BY DEF Init, OnlyTargetsTouched
<1>3. SafeCopies /\ DoneInv
  BY IdleWorkerState DEF Init, SafeCopies, DoneInv
<1>4. MailIsNeverLost
  <2> DEFINE number == CHOOSE n \in Injection(Mails, 1..Cardinality(Mails)) : TRUE
  <2>1. PICK place \in [Mails -> {"inbox", "trash"}] :
          remote = {[folder |-> place[m], uid |-> number[m], mail |-> m] : m \in Mails}
    BY DEF Init
  <2> HIDE DEF number
  <2>2. ASSUME NEW m \in Mails PROVE \E c \in remote : c.mail = m
    <3>1. [folder |-> place[m], uid |-> number[m], mail |-> m] \in remote
      BY <2>1
    <3> QED
      BY <3>1
  <2> QED
    BY <2>2 DEF MailIsNeverLost
<1>5. WindowInv
  BY DEF Init, WindowInv, NoOp
<1> QED
  BY <1>1, <1>2, <1>3, <1>4, <1>5 DEF OperationsInv

LEMMA OperationsStep == OperationsInv /\ [Next]_vars => OperationsInv'
<1> SUFFICES ASSUME OperationsInv, [Next]_vars PROVE OperationsInv'
  OBVIOUS
<1>1. TypeInv /\ NamesInv /\ UntouchedInv /\ OnlyTargetsTouched
      /\ SafeCopies /\ MailIsNeverLost /\ DoneInv /\ WindowInv
  BY DEF OperationsInv
<1>2. TypeInv' /\ OpsSound /\ NamesInv'
  BY <1>1, TypeInvStep, NamesStep
<1>3. UntouchedInv' /\ OnlyTargetsTouched'
  BY <1>1, UntouchedStep, TargetsStep
<1>4. SafeCopies' /\ MailIsNeverLost'
  BY <1>1, SafeCopiesStep, LostStep
<1>5. DoneInv'
  BY <1>1, DoneStep
<1>6. WindowInv'
  BY <1>1, <1>2, WindowStep DEF TypeInv
<1> QED
  BY <1>2, <1>3, <1>4, <1>5, <1>6 DEF OperationsInv

(* Every reachable state of the tables, the worker, a pass and the server   *)
(* satisfies the inductive invariant.                                       *)
THEOREM OperationsAreSound == Spec => []OperationsInv
BY InitOperations, OperationsStep, PTL DEF Spec

(* The variables keep their types.                                          *)
THEOREM OperationTypes == Spec => []TypeOK
<1>1. OperationsInv => TypeOK
  <2> SUFFICES ASSUME OperationsInv PROVE TypeOK
    OBVIOUS
  <2>1. Typed /\ UniqueUIDs
    BY DEF OperationsInv, TypeInv
  <2>2. \A c \in remote : c.folder \in Folders /\ c.mail \in Mails /\ c.uid < nextUID[c.folder]
    BY <2>1 DEF Typed, ServerTyped, UniqueUIDs, Copies
  <2>3. \A r \in locations : r.msg \in messages /\ r.folder \in Folders
                             /\ r.validity \in 1..MaxValidity /\ r.uid \in Nat \ {0}
    BY <2>1 DEF Typed, TablesTyped, Rows
  <2>4. validity \in [Folders -> 1..MaxValidity] /\ checkpoint \in [Folders -> 1..MaxValidity]
        /\ worker.op \in 0..MaxOps /\ ready \in Seq(Ops)
    BY <2>1 DEF Typed, ServerTyped, TablesTyped, OpsTyped, WorkerStates
  <2>5. \A o \in Ops : op[o].status \in Statuses
    BY <2>1 DEF Typed, OpsTyped, OpStates
  <2> QED
    BY <2>1, <2>2, <2>3, <2>4, <2>5 DEF TypeOK, Statuses, Typed, BoundsTyped
<1> QED
  BY <1>1, OperationsAreSound, PTL

(* An operation changes the mails it was asked for and no other, however    *)
(* mailboxes are renumbered and whoever else moves mail meanwhile           *)
(* (uidvalidity_changed).                                                   *)
THEOREM TargetsOnly == Spec => []OnlyTargetsTouched
<1>1. OperationsInv => OnlyTargetsTouched
  BY DEF OperationsInv
<1> QED
  BY <1>1, OperationsAreSound, PTL

(* An operation that waits, was undone or is reported as failed has changed *)
(* nothing on the server (partialOperationError).                           *)
THEOREM UnappliedUntouched == Spec => []UnappliedIsUntouched
<1>1. OperationsInv => UnappliedIsUntouched
  BY DEF OperationsInv, UntouchedInv
<1> QED
  BY <1>1, OperationsAreSound, PTL

(* A row whose UID the mailbox holds is of that mail, whether a pass stored *)
(* it or a move announced it by COPYUID.                                    *)
THEOREM RowsName == Spec => []RowsNameTheirMail
<1>1. OperationsInv => RowsNameTheirMail
  BY DEF OperationsInv, NamesInv, LocationsName, RowNames, Names, RowsNameTheirMail
<1> QED
  BY <1>1, OperationsAreSound, PTL

(* No move loses a mail, wherever it is interrupted.                        *)
THEOREM NothingIsLost == Spec => []MailIsNeverLost
<1>1. OperationsInv => MailIsNeverLost
  BY DEF OperationsInv
<1> QED
  BY <1>1, OperationsAreSound, PTL

(* A reported success has changed every source the worker chose.            *)
THEOREM SuccessIsComplete == Spec => SucceededIsComplete
<1> DEFINE Complete ==
      \A o \in Ops : op[o].status = "running" /\ op'[o].status = "succeeded" =>
        \A r \in worker.chosen, c \in remote :
          SamePlace(r, [folder |-> c.folder, uid |-> c.uid, validity |-> validity[c.folder]])
            => op[o].kind = "flag" /\ c.mail \in touched[o]
<1>1. OperationsInv /\ [Next]_vars => [Complete]_vars
  <2> SUFFICES ASSUME OperationsInv, [Next]_vars,
                      NEW o \in Ops, op[o].status = "running", op'[o].status = "succeeded",
                      NEW r \in worker.chosen, NEW c \in remote,
                      SamePlace(r, [folder |-> c.folder, uid |-> c.uid, validity |-> validity[c.folder]])
               PROVE  op[o].kind = "flag" /\ c.mail \in touched[o]
    OBVIOUS
  <2>1. TypeInv /\ NamesInv /\ DoneInv /\ OpsSound
    BY TypeInvStep DEF OperationsInv
  <2>2. FinishOperation /\ o = worker.op /\ worker.outcome = "succeeded"
    BY <2>1 DEF OpsSound, Goes
  <2>3. Done(r)
    BY <2>1, <2>2 DEF DoneInv, FinishOperation
  <2>4. r.folder = c.folder /\ r.uid = c.uid /\ r.validity = validity[r.folder]
    BY DEF SamePlace
  <2>5. Current.kind = "flag" /\ MailOf(r.msg) \in touched[o]
    BY <2>2, <2>3, <2>4 DEF Done, Vacated
  <2>6. c.mail = MailOf(r.msg)
    BY <2>1, <2>4 DEF NamesInv, PlanNames, RowNames, Names
  <2> QED
    BY <2>2, <2>5, <2>6 DEF Current
<1> QED
  BY <1>1, OperationsAreSound, PTL DEF Spec, SucceededIsComplete

(* Whatever users, the worker, passes, failures and restarts do, each       *)
(* operation goes only through the transitions of mailstore/operation.go.   *)
THEOREM OperationsFollowLifecycle == Spec => FollowsLifecycle
<1>1. Init => Lifecycle!Init
  BY AbstractFacts DEF Init, NoOp, Lifecycle!Init
<1>2. OperationsInv /\ [Next]_vars => [Lifecycle!Next]_(Lifecycle!vars)
  <2> SUFFICES ASSUME OperationsInv, [Next]_vars
               PROVE  [Lifecycle!Next]_(Lifecycle!vars)
    OBVIOUS
  <2>1. Lifecycle!Next \/ UNCHANGED op
    BY LifeStep DEF OperationsInv, TypeInv
  <2> QED
    BY <2>1 DEF Lifecycle!vars
<1> QED
  BY <1>1, <1>2, OperationsAreSound, PTL DEF Spec, FollowsLifecycle, Lifecycle!Spec
=============================================================================
