-------------------------- MODULE Services_proofs --------------------------
(***************************************************************************)
(* The session pool, the attachment cache and the event hub, each for any   *)
(* values of its constants, and the six services put together: no session   *)
(* is used twice or leaks; the cache stays within its quota and serves the  *)
(* right content; a page with a quiet stream shows the database; and        *)
(* nothing proved of one service is lost when all of them run.              *)
(***************************************************************************)
EXTENDS Services, Credentials_proofs, Updater_proofs, Auth_proofs,
        SequenceTheorems, FiniteSetTheorems, WellFoundedInduction, TLAPS

-----------------------------------------------------------------------------
(* Numbers and sequences.                                                   *)
LEMMA LeastNumber == ASSUME NEW S \in SUBSET Nat, S # {} PROVE \E m \in S : \A n \in S : m <= n
<1>1. PICK m \in S : \A n \in S : ~(<<n, m>> \in OpToRel(<, Nat))
  BY NatLessThanWellFounded, WFMin
<1>2. \A n \in S : ~(n < m)
  BY <1>1 DEF OpToRel
<1> QED
  BY <1>2

(* t is s with e at its end.                                                *)
Appended(t, s, e) ==
  /\ \A i \in DOMAIN t : (i \in DOMAIN s /\ t[i] = s[i]) \/ (i = Len(s) + 1 /\ t[i] = e)
  /\ \A i \in DOMAIN s : i \in DOMAIN t /\ t[i] = s[i]
  /\ Len(s) + 1 \in DOMAIN t /\ t[Len(s) + 1] = e

(* Append, by places.                                                       *)
LEMMA AppendIs ==
  ASSUME NEW S, NEW s \in Seq(S), NEW e \in S
  PROVE  Append(s, e) \in Seq(S) /\ Appended(Append(s, e), s, e)
<1> DEFINE t == Append(s, e)
<1>1. /\ t \in Seq(S) /\ Len(t) = Len(s) + 1 /\ t[Len(s) + 1] = e
      /\ \A i \in 1..Len(s) : t[i] = s[i]
  BY AppendProperties
<1>2. DOMAIN t = 1..(Len(s) + 1)
  BY <1>1, LenProperties
<1>3. DOMAIN s = 1..Len(s) /\ Len(s) \in Nat
  BY LenProperties
<1> HIDE DEF t
<1>4. \A i \in 1..(Len(s) + 1) : i \in 1..Len(s) \/ i = Len(s) + 1
  BY <1>3
<1>5. \A i \in DOMAIN t : (i \in DOMAIN s /\ t[i] = s[i]) \/ (i = Len(s) + 1 /\ t[i] = e)
  BY <1>1, <1>2, <1>3, <1>4, Zenon
<1>6. 1..Len(s) \subseteq 1..(Len(s) + 1) /\ Len(s) + 1 \in 1..(Len(s) + 1)
  BY <1>3
<1>7. \A i \in DOMAIN s : i \in DOMAIN t /\ t[i] = s[i]
  BY <1>1, <1>2, <1>3, <1>6, Zenon
<1>9. Len(s) + 1 \in DOMAIN t /\ t[Len(s) + 1] = e
  BY <1>1, <1>2, <1>6
<1>8. Appended(t, s, e)
  BY <1>5, <1>7, <1>9 DEF Appended
<1> QED
  BY <1>1, <1>8 DEF t

(* t is s without its first element.                                        *)
TailOf(t, s) ==
  /\ 1 \in DOMAIN s /\ Head(s) = s[1]
  /\ \A i \in DOMAIN t : i \in Nat /\ i + 1 \in DOMAIN s /\ t[i] = s[i + 1]
  /\ \A i \in DOMAIN s : i = 1 \/ (i - 1 \in DOMAIN t /\ t[i - 1] = s[i])

(* A queue's first element, and the rest.                                   *)
LEMMA TailIs ==
  ASSUME NEW S, NEW s \in Seq(S), s # <<>>
  PROVE  Tail(s) \in Seq(S) /\ Len(Tail(s)) = Len(s) - 1 /\ Head(s) \in S /\ TailOf(Tail(s), s)
<1> DEFINE t == Tail(s)
<1>1. t \in Seq(S) /\ Len(t) = Len(s) - 1 /\ Head(s) \in S /\ \A i \in 1..Len(t) : t[i] = s[i + 1]
  BY HeadTailProperties
<1>2. DOMAIN t = 1..Len(t) /\ DOMAIN s = 1..Len(s) /\ Len(t) \in Nat /\ Len(s) \in Nat
  BY <1>1, LenProperties
<1>3. Head(s) = s[1]
  OBVIOUS
<1> HIDE DEF t
<1>4. 1 \in DOMAIN s
  BY <1>1, <1>2
<1>5. ASSUME NEW i \in DOMAIN t PROVE i \in Nat /\ i + 1 \in DOMAIN s /\ t[i] = s[i + 1]
  BY <1>1, <1>2
<1>6. ASSUME NEW i \in DOMAIN s, i # 1 PROVE i - 1 \in DOMAIN t /\ t[i - 1] = s[i]
  <2>1. i - 1 \in 1..Len(t) /\ (i - 1) + 1 = i
    BY <1>1, <1>2, <1>6
  <2> QED
    BY <1>1, <1>2, <2>1
<1>7. TailOf(t, s)
  BY <1>3, <1>4, <1>5, <1>6 DEF TailOf
<1> QED
  BY <1>1, <1>7 DEF t

(* What is written first: the replay, while there is one.                   *)
LEMMA HeadOfConcat ==
  ASSUME NEW S, NEW a \in Seq(S), NEW b \in Seq(S), a # <<>>
  PROVE  Head(a \o b) = Head(a)
<1>1. Len(a) \in Nat \ {0} /\ Len(b) \in Nat
  BY EmptySeq, LenProperties
<1>2. (a \o b)[1] = a[1]
  <2>1. 1 \in 1..(Len(a) + Len(b)) /\ 1 <= Len(a)
    BY <1>1
  <2> QED
    BY <2>1, ConcatProperties
<1> QED
  BY <1>2

(* A sequence of what its elements are.                                     *)
LEMMA InSeq ==
  ASSUME NEW S, NEW T, NEW s \in Seq(S), \A i \in DOMAIN s : s[i] \in T
  PROVE  s \in Seq(T)
<1>1. Len(s) \in Nat /\ s \in [1..Len(s) -> S] /\ DOMAIN s = 1..Len(s)
  BY LenProperties
<1>2. s \in [1..Len(s) -> T]
  BY <1>1
<1> QED
  BY <1>1, <1>2, SeqDef

(* What is left when one place of a sequence is taken out.                  *)
Skip(i, j) == IF j < i THEN j ELSE j + 1
LEMMA RemoveAtIs ==
  ASSUME NEW S, NEW s \in Seq(S), NEW i \in 1..Len(s)
  PROVE  /\ RemoveAt(s, i) \in Seq(S) /\ Len(RemoveAt(s, i)) = Len(s) - 1
         /\ \A j \in 1..(Len(s) - 1) : RemoveAt(s, i)[j] = s[Skip(i, j)]
<1> DEFINE a == SubSeq(s, 1, i - 1)
           b == SubSeq(s, i + 1, Len(s))
<1>1. Len(s) \in Nat /\ i \in Nat /\ \A j \in 1..Len(s) : s[j] \in S
  BY LenProperties
<1>2. /\ a \in Seq(S) /\ Len(a) = i - 1
      /\ \A j \in 1..(i - 1) : a[j] = s[j]
  BY <1>1, SubSeqProperties, SMTT(30)
<1>3. /\ b \in Seq(S) /\ Len(b) = Len(s) - i
      /\ \A j \in 1..(Len(s) - i) : b[j] = s[i + j]
  <2>1. \A j \in (i + 1)..Len(s) : s[j] \in S
    BY <1>1
  <2>2. /\ b \in Seq(S) /\ Len(b) = (IF i + 1 <= Len(s) THEN Len(s) - (i + 1) + 1 ELSE 0)
        /\ \A j \in 1..(Len(s) - (i + 1) + 1) : b[j] = s[(i + 1) + j - 1]
    BY <1>1, <2>1, SubSeqProperties
  <2> QED
    BY <1>1, <2>2
<1> HIDE DEF a, b
<1>4. /\ a \o b \in Seq(S) /\ Len(a \o b) = Len(a) + Len(b)
      /\ \A j \in 1..(Len(a) + Len(b)) : (a \o b)[j] = IF j <= Len(a) THEN a[j] ELSE b[j - Len(a)]
  BY <1>2, <1>3, ConcatProperties
<1>5. RemoveAt(s, i) = a \o b
  BY DEF RemoveAt, a, b
<1>6. ASSUME NEW j \in 1..(Len(s) - 1) PROVE (a \o b)[j] = s[Skip(i, j)]
  <2>1. CASE j < i
    BY <1>1, <1>2, <1>3, <1>4, <2>1 DEF Skip
  <2>2. CASE j >= i
    <3>1. j - Len(a) \in 1..(Len(s) - i) /\ i + (j - Len(a)) = j + 1
      BY <1>1, <1>2, <2>2
    <3>2. (a \o b)[j] = b[j - Len(a)]
      BY <1>1, <1>2, <1>3, <1>4, <2>2
    <3>3. b[j - Len(a)] = s[i + (j - Len(a))]
      BY <1>3, <3>1
    <3>4. Skip(i, j) = j + 1
      BY <1>1, <2>2 DEF Skip
    <3> QED
      BY <3>1, <3>2, <3>3, <3>4
  <2>3. j < i \/ j >= i
    BY <1>1
  <2> QED
    BY <2>1, <2>2, <2>3, Zenon
<1> QED
  BY <1>1, <1>2, <1>3, <1>4, <1>5, <1>6

(* Everything but the removed place is kept, once each.                     *)
LEMMA RemoveAtKeeps ==
  ASSUME NEW S, NEW s \in Seq(S), NEW i \in 1..Len(s)
  PROVE  /\ RemoveAt(s, i) \in Seq(S)
         /\ \A j \in DOMAIN RemoveAt(s, i) :
              Skip(i, j) \in DOMAIN s \ {i} /\ RemoveAt(s, i)[j] = s[Skip(i, j)]
         /\ \A j, k \in DOMAIN RemoveAt(s, i) : Skip(i, j) = Skip(i, k) => j = k
         /\ \A k \in DOMAIN s \ {i} :
              \E j \in DOMAIN RemoveAt(s, i) : s[k] = RemoveAt(s, i)[j]
<1> DEFINE r == RemoveAt(s, i)
<1>1. /\ Len(s) \in Nat /\ DOMAIN s = 1..Len(s) /\ r \in Seq(S) /\ Len(r) = Len(s) - 1
      /\ DOMAIN r = 1..(Len(s) - 1) /\ \A j \in 1..(Len(s) - 1) : r[j] = s[Skip(i, j)]
  BY RemoveAtIs, LenProperties
<1> HIDE DEF r
<1>2. \A j \in DOMAIN r : Skip(i, j) \in DOMAIN s \ {i} /\ r[j] = s[Skip(i, j)]
  BY <1>1 DEF Skip
<1>4. \A j, k \in DOMAIN r : Skip(i, j) = Skip(i, k) => j = k
  BY <1>1 DEF Skip
<1>3. ASSUME NEW k \in DOMAIN s \ {i} PROVE \E j \in DOMAIN r : s[k] = r[j]
  <2> DEFINE j == IF k < i THEN k ELSE k - 1
  <2>1. j \in DOMAIN r /\ Skip(i, j) = k
    BY <1>1 DEF Skip
  <2> QED
    BY <1>1, <2>1
<1> QED
  BY <1>1, <1>2, <1>3, <1>4 DEF r

-----------------------------------------------------------------------------
(* The session pool.                                                        *)
(* The types the argument needs; sessions are numbered from 1 without gaps, *)
(* so 0 is none of them and the next one is new.                            *)
JobStates == {"idle", "acquiring", "probing", "dialling", "working"}
PoolTyped ==
  /\ config \in Nat
  /\ pool \in [Slots -> Nat] /\ held \in [Slots -> Nat] /\ wanted \in [Slots -> Nat]
  /\ jobAt \in [Slots -> JobStates]
  /\ Dialled \in Nat /\ identityOf \in [1..Dialled -> Nat]
  /\ open \subseteq 1..Dialled /\ aged \subseteq 1..Dialled

(* A job holds a session exactly while it probes or works with it.          *)
HeldWhileUsed ==
  \A s \in Slots : (held[s] # NoSession) <=> jobAt[s] \in {"probing", "working"}

(* Who holds a session holds it open, and holds it alone: the pool, a job   *)
(* and the reaper never have the same one.                                  *)
PooledOnce ==
  /\ \A s \in Slots : pool[s] # NoSession => pool[s] \in open \ reaping
  /\ \A s, t \in Slots : pool[s] # NoSession /\ s # t => pool[s] # pool[t]
HeldOnce ==
  /\ \A s \in Slots : held[s] # NoSession => held[s] \in open \ reaping
  /\ \A s, t \in Slots : held[s] # NoSession /\ s # t => held[s] # held[t]
PooledOrHeld ==
  \A s, t \in Slots : pool[s] # NoSession => pool[s] # held[t]
ReapedAreOpen == reaping \subseteq open
Owned == \A n \in open : n \in reaping \/ \E s \in Slots : n \in {pool[s], held[s]}

WorkingAsWanted ==
  \A s \in Slots : jobAt[s] = "working" => identityOf[held[s]] = wanted[s]

(* After Close nobody has anything.                                         *)
StoppedIsEmpty ==
  phase = "stopped" =>
    reaping = {} /\ \A s \in Slots : jobAt[s] = "idle" /\ pool[s] = NoSession

PoolInv ==
  /\ PoolTyped /\ HeldWhileUsed /\ PooledOnce /\ HeldOnce /\ PooledOrHeld
  /\ ReapedAreOpen /\ Owned /\ WorkingAsWanted /\ StoppedIsEmpty

(* At the start there is no session.                                        *)
LEMMA PoolStarts == PoolInit => PoolInv
<1> SUFFICES ASSUME PoolInit PROVE PoolInv
  OBVIOUS
<1>1. DOMAIN identityOf = {} /\ identityOf \in [1..0 -> Nat] /\ Dialled = 0
  BY FS_EmptySet DEF PoolInit, Dialled
<1> QED
  BY <1>1 DEF PoolInit, PoolInv, PoolTyped, JobStates, HeldWhileUsed, PooledOnce, HeldOnce,
     PooledOrHeld, ReapedAreOpen, Owned, WorkingAsWanted, StoppedIsEmpty, NoSession

(* The account changes, a session ages, a job begins: no session moves.     *)
LEMMA SessionsStay ==
  ASSUME PoolInv, Reconfigure \/ Age \/ Cancel \/ \E s \in Slots : BeginJob(s)
  PROVE  PoolInv'
<1>1. CASE Reconfigure
  BY <1>1 DEF Reconfigure, sessions, PoolInv, PoolTyped, JobStates, Dialled, HeldWhileUsed, PooledOnce,
     HeldOnce, PooledOrHeld, ReapedAreOpen, Owned, WorkingAsWanted, StoppedIsEmpty, NoSession
<1>2. CASE Age
  BY <1>2 DEF Age, PoolInv, PoolTyped, JobStates, Dialled, HeldWhileUsed, PooledOnce, HeldOnce,
     PooledOrHeld, ReapedAreOpen, Owned, WorkingAsWanted, StoppedIsEmpty, NoSession
<1>3. CASE Cancel
  BY <1>3 DEF Cancel, sessions, PoolInv, PoolTyped, JobStates, Dialled, HeldWhileUsed, PooledOnce,
     HeldOnce, PooledOrHeld, ReapedAreOpen, Owned, WorkingAsWanted, StoppedIsEmpty, NoSession
<1>4. ASSUME NEW s \in Slots, BeginJob(s) PROVE PoolInv'
  BY <1>4 DEF BeginJob, JobGoto, sessions, PoolInv, PoolTyped, JobStates, Dialled, HeldWhileUsed,
     PooledOnce, HeldOnce, PooledOrHeld, ReapedAreOpen, Owned, WorkingAsWanted, StoppedIsEmpty,
     NoSession
<1> QED
  BY <1>1, <1>2, <1>3, <1>4

(* acquireSession up to the probe: what leaves the pool is the job's.       *)
LEMMA CheckoutKeeps ==
  ASSUME PoolInv, NEW s \in Slots, Checkout(s) PROVE PoolInv'
<1>1. /\ pool' = [pool EXCEPT ![s] = 0] /\ held' = [held EXCEPT ![s] = pool[s]]
      /\ UNCHANGED <<config, identityOf, open, aged, reaping, wanted, phase>>
      /\ jobAt' = [jobAt EXCEPT ![s] = IF pool[s] = 0 THEN "dialling" ELSE "probing"]
      /\ jobAt[s] = "acquiring"
  BY DEF Checkout, TakenOut, JobGoto, NoSession
<1>2. held[s] = 0
  BY <1>1 DEF PoolInv, HeldWhileUsed, PoolTyped, NoSession
<1>3. PoolTyped' /\ HeldWhileUsed' /\ ReapedAreOpen'
  BY <1>1 DEF PoolInv, PoolTyped, JobStates, Dialled, HeldWhileUsed, ReapedAreOpen, NoSession
<1>4. PooledOnce' /\ HeldOnce' /\ PooledOrHeld'
  BY <1>1, <1>2 DEF PoolInv, PoolTyped, PooledOnce, HeldOnce, PooledOrHeld, NoSession
<1>5. Owned' /\ WorkingAsWanted' /\ StoppedIsEmpty'
  BY <1>1, <1>2 DEF PoolInv, PoolTyped, Owned, WorkingAsWanted, StoppedIsEmpty, NoSession
<1> QED
  BY <1>3, <1>4, <1>5 DEF PoolInv

(* The probe: the session stays the job's, or is closed.                    *)
LEMMA ProbeKeeps ==
  ASSUME PoolInv, NEW s \in Slots, Probe(s) PROVE PoolInv'
<1>1. CASE Usable(s) /\ JobGoto(s, "working") /\ UNCHANGED <<held, open>>
  BY <1>1 DEF Probe, JobGoto, Usable, PoolInv, PoolTyped, JobStates, Dialled, HeldWhileUsed, PooledOnce,
     HeldOnce, PooledOrHeld, ReapedAreOpen, Owned, WorkingAsWanted, StoppedIsEmpty, NoSession
<1>2. CASE /\ open' = open \ {held[s]} /\ held' = [held EXCEPT ![s] = NoSession]
           /\ JobGoto(s, "dialling")
  <2>1. /\ jobAt[s] = "probing" /\ jobAt' = [jobAt EXCEPT ![s] = "dialling"]
        /\ open' = open \ {held[s]} /\ held' = [held EXCEPT ![s] = 0]
        /\ UNCHANGED <<config, pool, identityOf, aged, reaping, wanted, phase>>
    BY <1>2 DEF Probe, JobGoto, NoSession
  <2>2. held[s] # 0
    BY <2>1 DEF PoolInv, HeldWhileUsed, NoSession
  <2>3. PoolTyped' /\ HeldWhileUsed'
    BY <2>1 DEF PoolInv, PoolTyped, JobStates, Dialled, HeldWhileUsed, NoSession
  <2>4. PooledOnce' /\ HeldOnce' /\ PooledOrHeld' /\ ReapedAreOpen'
    BY <2>1, <2>2 DEF PoolInv, PoolTyped, PooledOnce, HeldOnce, PooledOrHeld, ReapedAreOpen, NoSession
  <2>5. Owned' /\ WorkingAsWanted' /\ StoppedIsEmpty'
    BY <2>1 DEF PoolInv, PoolTyped, Owned, WorkingAsWanted, StoppedIsEmpty
  <2> QED
    BY <2>3, <2>4, <2>5 DEF PoolInv
<1> QED
  BY <1>1, <1>2 DEF Probe

(* A dialled session is a new one, with the identity the job has read.      *)
LEMMA DialKeeps ==
  ASSUME PoolInv, NEW s \in Slots, Dial(s) PROVE PoolInv'
<1>1. CASE JobGoto(s, "idle") /\ UNCHANGED <<identityOf, open, held>>
  BY <1>1, SMTT(30) DEF Dial, JobGoto, PoolInv, PoolTyped, JobStates, Dialled, HeldWhileUsed, PooledOnce, HeldOnce,
     PooledOrHeld, ReapedAreOpen, Owned, WorkingAsWanted, StoppedIsEmpty, NoSession
<1>2. CASE /\ Dialled < MaxDials /\ JobGoto(s, "working")
           /\ identityOf' = [n \in 1..(Dialled + 1) |->
                              IF n <= Dialled THEN identityOf[n] ELSE wanted[s]]
           /\ open' = open \cup {Dialled + 1} /\ held' = [held EXCEPT ![s] = Dialled + 1]
  <2> DEFINE new == Dialled + 1
  <2>1. /\ jobAt[s] = "dialling" /\ jobAt' = [jobAt EXCEPT ![s] = "working"]
        /\ open' = open \cup {new} /\ held' = [held EXCEPT ![s] = new]
        /\ UNCHANGED <<config, pool, aged, reaping, wanted, phase>>
    BY <1>2 DEF Dial, JobGoto
  <2>2. Dialled \in Nat /\ new \in Nat \ {0} /\ new \notin open /\ Dialled' = new
    <3>1. Dialled \in Nat /\ open \subseteq 1..Dialled
      BY DEF PoolInv, PoolTyped
    <3>2. new \in Nat \ {0} /\ new \notin open
      BY <3>1
    <3>3. DOMAIN identityOf' = 1..new
      BY <1>2
    <3>4. Cardinality(1..new) = new
      BY <3>1, FS_Interval
    <3> QED
      BY <3>1, <3>2, <3>3, <3>4 DEF Dialled
  <2>3. identityOf' \in [1..new -> Nat] /\ identityOf'[new] = wanted[s]
        /\ \A n \in 1..Dialled : identityOf'[n] = identityOf[n]
    BY <1>2, <2>2 DEF PoolInv, PoolTyped
  <2> HIDE DEF new
  <2>4. 1..Dialled \subseteq 1..new
    BY <2>2 DEF new
  <2>5. PoolTyped' /\ HeldWhileUsed' /\ ReapedAreOpen'
    <3>1. PoolTyped'
      <4>1. open \subseteq 1..Dialled /\ aged \subseteq 1..Dialled
        BY DEF PoolInv, PoolTyped
      <4>2. open' \subseteq 1..new /\ aged' \subseteq 1..new
        BY <2>1, <2>2, <2>4, <4>1
      <4>3. /\ config' \in Nat /\ pool' \in [Slots -> Nat] /\ held' \in [Slots -> Nat]
            /\ wanted' \in [Slots -> Nat] /\ jobAt' \in [Slots -> JobStates]
        BY <2>1, <2>2 DEF PoolInv, PoolTyped, JobStates
      <4> QED
        BY <2>2, <2>3, <4>2, <4>3 DEF PoolTyped
    <3>2. HeldWhileUsed' /\ ReapedAreOpen'
      BY <2>1, <2>2 DEF PoolInv, PoolTyped, HeldWhileUsed, ReapedAreOpen, NoSession
    <3> QED
      BY <3>1, <3>2
  <2>6. PooledOnce' /\ HeldOnce' /\ PooledOrHeld'
    BY <2>1, <2>2 DEF PoolInv, PoolTyped, PooledOnce, HeldOnce, PooledOrHeld, ReapedAreOpen, NoSession
  <2>7. held[s] = 0
    BY <2>1 DEF PoolInv, HeldWhileUsed, NoSession
  <2>8. Owned' /\ StoppedIsEmpty'
    BY <2>1, <2>2, <2>7 DEF PoolInv, PoolTyped, Owned, StoppedIsEmpty
  <2>9. WorkingAsWanted'
    <3> SUFFICES ASSUME NEW t \in Slots, jobAt'[t] = "working" PROVE identityOf'[held'[t]] = wanted'[t]
      BY DEF WorkingAsWanted
    <3>1. CASE t = s
      BY <3>1, <2>1, <2>3 DEF PoolInv, PoolTyped
    <3>2. CASE t # s
      <4>1. jobAt[t] = "working" /\ held'[t] = held[t]
        BY <3>2, <2>1 DEF PoolInv, PoolTyped
      <4>2. held[t] \in 1..Dialled
        BY <4>1 DEF PoolInv, PoolTyped, HeldWhileUsed, HeldOnce
      <4> QED
        BY <4>1, <4>2, <2>1, <2>3 DEF PoolInv, WorkingAsWanted
    <3> QED
      BY <3>1, <3>2
  <2> QED
    BY <2>5, <2>6, <2>8, <2>9 DEF PoolInv
<1> QED
  BY <1>1, <1>2 DEF Dial

(* releaseSession: back to the pool in place of what is there, or closed.   *)
LEMMA ReleaseKeeps ==
  ASSUME PoolInv, NEW s \in Slots, Release(s) PROVE PoolInv'
<1>1. /\ jobAt[s] = "working" /\ jobAt' = [jobAt EXCEPT ![s] = "idle"]
      /\ held' = [held EXCEPT ![s] = 0]
      /\ UNCHANGED <<config, identityOf, aged, reaping, wanted, phase>>
  BY DEF Release, JobGoto, NoSession
<1>2. held[s] \in open \ reaping /\ held[s] # 0 /\ pool[s] # held[s]
  BY <1>1 DEF PoolInv, PoolTyped, HeldWhileUsed, HeldOnce, PooledOrHeld, NoSession
<1>3. HeldWhileUsed'
  BY <1>1 DEF PoolInv, PoolTyped, HeldWhileUsed, NoSession
<1>4. CASE pool' = [pool EXCEPT ![s] = held[s]] /\ open' = open \ Replaced(s)
  <2>1. open' = open \ {pool[s]}
    BY <1>4, <1>2 DEF Replaced
  <2>2. PoolTyped'
    BY <1>1, <1>4, <2>1 DEF PoolInv, PoolTyped, JobStates, Dialled
  <2>3. PooledOnce' /\ HeldOnce' /\ PooledOrHeld' /\ ReapedAreOpen'
    BY <1>1, <1>2, <1>4, <2>1 DEF PoolInv, PoolTyped, PooledOnce, HeldOnce, PooledOrHeld, ReapedAreOpen,
       NoSession
  <2>4. Owned' /\ WorkingAsWanted' /\ StoppedIsEmpty'
    BY <1>1, <1>4, <2>1 DEF PoolInv, PoolTyped, Owned, WorkingAsWanted, StoppedIsEmpty
  <2> QED
    BY <1>3, <2>2, <2>3, <2>4 DEF PoolInv
<1>5. CASE open' = open \ {held[s]} /\ UNCHANGED pool
  <2>1. PoolTyped'
    BY <1>1, <1>5 DEF PoolInv, PoolTyped, JobStates, Dialled
  <2>2. PooledOnce' /\ HeldOnce' /\ PooledOrHeld' /\ ReapedAreOpen'
    BY <1>1, <1>2, <1>5 DEF PoolInv, PoolTyped, PooledOnce, HeldOnce, PooledOrHeld, ReapedAreOpen,
       NoSession
  <2>3. Owned' /\ WorkingAsWanted' /\ StoppedIsEmpty'
    BY <1>1, <1>5 DEF PoolInv, PoolTyped, Owned, WorkingAsWanted, StoppedIsEmpty
  <2> QED
    BY <1>3, <2>1, <2>2, <2>3 DEF PoolInv
<1> QED
  BY <1>4, <1>5 DEF Release

(* The reaper owns what it takes out, until it has closed it.               *)
LEMMA ReaperKeeps ==
  ASSUME PoolInv, Reap \/ CloseReaped PROVE PoolInv'
<1>1. CASE Reap
  <2>1. PICK old \in SUBSET open :
          /\ reaping = {} /\ reaping' = {pool[s] : s \in Slots} \cap old /\ phase # "stopped"
          /\ pool' = [s \in Slots |-> IF pool[s] \in old THEN 0 ELSE pool[s]]
          /\ UNCHANGED <<config, held, identityOf, open, aged, wanted, jobAt, phase>>
    BY <1>1 DEF Reap, NoSession
  <2>2. 0 \notin old
    BY DEF PoolInv, PoolTyped
  <2>3. PoolTyped' /\ HeldWhileUsed' /\ ReapedAreOpen'
    BY <2>1, <2>2 DEF PoolInv, PoolTyped, JobStates, Dialled, HeldWhileUsed, ReapedAreOpen, PooledOnce,
       NoSession
  <2>4. PooledOnce' /\ HeldOnce' /\ PooledOrHeld'
    BY <2>1, <2>2 DEF PoolInv, PoolTyped, PooledOnce, HeldOnce, PooledOrHeld, NoSession
  <2>5. Owned' /\ WorkingAsWanted' /\ StoppedIsEmpty'
    BY <2>1 DEF PoolInv, PoolTyped, Owned, WorkingAsWanted, StoppedIsEmpty
  <2> QED
    BY <2>3, <2>4, <2>5 DEF PoolInv
<1>2. CASE CloseReaped
  BY <1>2 DEF CloseReaped, PoolInv, PoolTyped, JobStates, Dialled, HeldWhileUsed, PooledOnce, HeldOnce,
     PooledOrHeld, ReapedAreOpen, Owned, WorkingAsWanted, StoppedIsEmpty, NoSession
<1> QED
  BY <1>1, <1>2

(* Close finds every session in the pool, since everybody has returned.     *)
LEMMA CloseKeeps ==
  ASSUME PoolInv, CloseAllSessions PROVE PoolInv'
<1>1. /\ reaping = {} /\ \A s \in Slots : jobAt[s] = "idle"
      /\ open' = open \ {pool[s] : s \in Slots} /\ pool' = [s \in Slots |-> 0]
      /\ UNCHANGED <<config, held, identityOf, aged, reaping, wanted, jobAt>>
  BY DEF CloseAllSessions, AllReturned, NoSession
<1>2. \A s \in Slots : held[s] = 0
  BY <1>1 DEF PoolInv, HeldWhileUsed, NoSession
<1>3. PoolTyped' /\ HeldWhileUsed' /\ PooledOnce' /\ HeldOnce' /\ PooledOrHeld' /\ ReapedAreOpen'
  BY <1>1, <1>2 DEF PoolInv, PoolTyped, JobStates, Dialled, HeldWhileUsed, PooledOnce, HeldOnce,
     PooledOrHeld, ReapedAreOpen, NoSession
<1>4. open' = {}
  <2>1. 0 \notin open
    BY DEF PoolInv, PoolTyped
  <2>2. \A n \in open : \E s \in Slots : n = pool[s]
    BY <1>1, <1>2, <2>1 DEF PoolInv, Owned
  <2> QED
    BY <1>1, <2>2
<1>5. Owned' /\ WorkingAsWanted' /\ StoppedIsEmpty'
  BY <1>1, <1>4 DEF PoolInv, Owned, WorkingAsWanted, StoppedIsEmpty, NoSession
<1> QED
  BY <1>3, <1>5 DEF PoolInv

(* Every step of the pool.                                                  *)
LEMMA PoolStep == ASSUME PoolInv, [PoolNext]_poolVars PROVE PoolInv'
<1>1. CASE UNCHANGED poolVars
  BY <1>1 DEF poolVars, sessions, PoolInv, PoolTyped, JobStates, Dialled, HeldWhileUsed, PooledOnce,
     HeldOnce, PooledOrHeld, ReapedAreOpen, Owned, WorkingAsWanted, StoppedIsEmpty
<1>2. CASE PoolNext
  BY <1>2, SessionsStay, CheckoutKeeps, ProbeKeeps, DialKeeps, ReleaseKeeps, ReaperKeeps, CloseKeeps
     DEF PoolNext
<1> QED
  BY <1>1, <1>2

(* What the run checks, from the invariant.                                 *)
LEMMA PoolInvSuffices == PoolInv => SessionsAreAccounted
<1> SUFFICES ASSUME PoolInv PROVE SessionsAreAccounted
  OBVIOUS
<1>1. WorkingSessionsAreGood
  BY DEF PoolInv, PoolTyped, HeldWhileUsed, HeldOnce, PooledOrHeld, WorkingAsWanted, NoSession,
     WorkingSessionsAreGood
<1>2. phase = "stopped" => open = {}
  <2> SUFFICES ASSUME phase = "stopped", NEW n \in open PROVE FALSE
    OBVIOUS
  <2>1. n # 0
    BY DEF PoolInv, PoolTyped
  <2>2. PICK s \in Slots : n \in {pool[s], held[s]}
    BY DEF PoolInv, Owned, StoppedIsEmpty
  <2>3. pool[s] = 0 /\ held[s] = 0
    BY DEF PoolInv, HeldWhileUsed, StoppedIsEmpty, NoSession
  <2> QED
    BY <2>1, <2>2, <2>3
<1> QED
  BY <1>1, <1>2 DEF SessionsAreAccounted, NoSessionLeaks, PoolInv, Owned

(* A session a job works with is open, its own and dialled for the account  *)
(* the job has read; every open session has an owner, and after Close none  *)
(* is open (sessionpool.go:50-129, runtime.go:250-262).                     *)
THEOREM SessionsAccounted == PoolSpec => []SessionsAreAccounted
<1>1. PoolSpec => []PoolInv
  BY PoolStarts, PoolStep, PTL DEF PoolSpec
<1> QED
  BY <1>1, PoolInvSuffices, PTL

(* What the types still need: the account's configurations and the bounds.  *)
PoolBounds ==
  /\ config \in 1..MaxConfigs /\ wanted \in [Slots -> 1..MaxConfigs] /\ Dialled \in 0..MaxDials
  /\ phase \in {"running", "stopping", "stopped"} /\ jobs \in 0..MaxJobs

(* One configuration and no session at the start.                           *)
LEMMA PoolBoundsStart == PoolInit => PoolBounds
<1> SUFFICES ASSUME PoolInit PROVE PoolBounds
  OBVIOUS
<1>1. Dialled = 0
  BY FS_EmptySet DEF PoolInit, Dialled
<1> QED
  BY <1>1, PoolAssumption DEF PoolInit, PoolBounds

(* A job reads the configuration there is; a session is dialled within the  *)
(* bound; everything else leaves these alone.                               *)
LEMMA PoolBoundsKeep == ASSUME PoolBounds, PoolInv, [PoolNext]_poolVars PROVE PoolBounds'
<1>1. CASE UNCHANGED <<config, identityOf, wanted, phase, jobs>>
  BY <1>1 DEF PoolBounds, Dialled
<1>2. CASE Reconfigure
  BY <1>2, PoolAssumption DEF Reconfigure, sessions, PoolBounds, Dialled
<1>3. CASE Cancel \/ CloseAllSessions
  BY <1>3 DEF Cancel, CloseAllSessions, sessions, PoolBounds, Dialled
<1>4. ASSUME NEW s \in Slots, BeginJob(s) PROVE PoolBounds'
  BY <1>4, PoolAssumption DEF BeginJob, sessions, PoolBounds, Dialled
<1>5. ASSUME NEW s \in Slots, Dial(s) PROVE PoolBounds'
  <2>1. CASE UNCHANGED identityOf
    BY <1>5, <2>1 DEF Dial, PoolBounds, Dialled
  <2>2. CASE Dialled < MaxDials /\ DOMAIN identityOf' = 1..(Dialled + 1)
    <3>1. Dialled \in Nat /\ Dialled + 1 \in 0..MaxDials
      BY <2>2, PoolAssumption DEF PoolBounds
    <3>2. Dialled' = Dialled + 1
      <4>1. Dialled' = Cardinality(1..(Dialled + 1))
        BY <2>2 DEF Dialled
      <4>2. Cardinality(1..(Dialled + 1)) = Dialled + 1
        BY <3>1, FS_Interval
      <4> QED
        BY <4>1, <4>2
    <3> QED
      BY <1>5, <3>1, <3>2 DEF Dial, PoolBounds
  <2> QED
    BY <1>5, <2>1, <2>2 DEF Dial
<1>6. CASE Age \/ Reap \/ CloseReaped \/ UNCHANGED poolVars
  BY <1>1, <1>6 DEF Age, Reap, CloseReaped, poolVars, sessions
<1>7. ASSUME NEW s \in Slots, Checkout(s) \/ Probe(s) \/ Release(s) PROVE PoolBounds'
  BY <1>1, <1>7 DEF Checkout, Probe, Release
<1> QED
  BY <1>2, <1>3, <1>4, <1>5, <1>6, <1>7 DEF PoolNext

(* A slot holds nothing or an open session, which was dialled.              *)
LEMMA PoolInvTypes == PoolInv /\ PoolBounds => PoolTypeOK
<1> SUFFICES ASSUME PoolInv, PoolBounds PROVE PoolTypeOK
  OBVIOUS
<1>1. Dialled \in Nat /\ Dialled <= MaxDials /\ MaxDials \in Nat /\ DOMAIN identityOf = 1..Dialled
  BY PoolAssumption DEF PoolInv, PoolTyped, PoolBounds
<1>2. \A s \in Slots : pool[s] \in Nat /\ held[s] \in Nat
  BY DEF PoolInv, PoolTyped
<1>3. \A s \in Slots : (pool[s] = 0 \/ pool[s] \in 1..Dialled) /\ (held[s] = 0 \/ held[s] \in 1..Dialled)
  BY DEF PoolInv, PoolTyped, PooledOnce, HeldOnce, NoSession
<1>4. pool \in [Slots -> Known] /\ held \in [Slots -> Known]
  <2>1. \A s \in Slots : pool[s] \in Known /\ held[s] \in Known
    BY <1>1, <1>2, <1>3 DEF Known
  <2> QED
    BY <2>1 DEF PoolInv, PoolTyped
<1>5. {open, aged, reaping} \subseteq SUBSET (DOMAIN identityOf)
  BY <1>1 DEF PoolInv, PoolTyped, ReapedAreOpen
<1> QED
  BY <1>1, <1>4, <1>5 DEF PoolInv, PoolTyped, PoolBounds, PoolTypeOK, JobStates

(* Slots hold sessions that were dialled, jobs configurations that were     *)
(* there (sessionpool.go:20-129).                                           *)
THEOREM PoolTypes == PoolSpec => []PoolTypeOK
<1>1. PoolSpec => [](PoolInv /\ PoolBounds)
  BY PoolStarts, PoolStep, PoolBoundsStart, PoolBoundsKeep, PTL DEF PoolSpec
<1> QED
  BY <1>1, PoolInvTypes, PTL

-----------------------------------------------------------------------------
(* The attachment cache.                                                    *)
CacheFiles == [of : Attachments, temp : BOOLEAN, right : BOOLEAN]

(* A file at its path is there once; Others takes that one away.            *)
PathOnce(list) ==
  \A i, j \in DOMAIN list : list[i].of = list[j].of /\ ~list[i].temp /\ ~list[j].temp => i = j

(* The directory without the file at a path.                                *)
LEMMA OthersAre ==
  ASSUME NEW list \in Seq(CacheFiles), NEW a \in Attachments, PathOnce(list)
  PROVE  /\ Others(list, a) \in Seq(CacheFiles) /\ PathOnce(Others(list, a))
         /\ \A j \in DOMAIN Others(list, a) :
              \E k \in DOMAIN list : list[k] = Others(list, a)[j] /\ (list[k].temp \/ list[k].of # a)
         /\ \A k \in DOMAIN list : list[k].temp \/ list[k].of # a =>
              \E j \in DOMAIN Others(list, a) : list[k] = Others(list, a)[j]
<1>1. CASE Named(list, a) = {}
  BY <1>1 DEF Others, Named
<1>2. CASE Named(list, a) # {}
  <2> DEFINE i == CHOOSE n \in Named(list, a) : TRUE
             r == RemoveAt(list, i)
  <2>1. Others(list, a) = r /\ i \in DOMAIN list /\ list[i].of = a /\ ~list[i].temp
    BY <1>2 DEF Others, Named
  <2> HIDE DEF i
  <2>2. i \in 1..Len(list)
    BY <2>1, LenProperties
  <2>3. /\ r \in Seq(CacheFiles)
        /\ \A j \in DOMAIN r : Skip(i, j) \in DOMAIN list \ {i} /\ r[j] = list[Skip(i, j)]
        /\ \A j, k \in DOMAIN r : Skip(i, j) = Skip(i, k) => j = k
        /\ \A k \in DOMAIN list \ {i} : \E j \in DOMAIN r : list[k] = r[j]
    BY <2>2, RemoveAtKeeps
  <2> HIDE DEF r
  <2>6. PathOnce(r)
    BY <2>3 DEF PathOnce
  <2>7. \A k \in DOMAIN list : list[k].temp \/ list[k].of # a <=> k # i
    BY <2>1 DEF PathOnce
  <2> QED
    BY <2>1, <2>3, <2>6, <2>7
<1> QED
  BY <1>1, <1>2

(* The directory without one file that an eviction has listed.              *)
LEMMA RemoveFirstIs ==
  ASSUME NEW list \in Seq(CacheFiles), NEW f, PathOnce(list)
  PROVE  /\ RemoveFirst(list, f) \in Seq(CacheFiles) /\ PathOnce(RemoveFirst(list, f))
         /\ \A j \in DOMAIN RemoveFirst(list, f) :
              \E k \in DOMAIN list : list[k] = RemoveFirst(list, f)[j]
         /\ \A k \in DOMAIN list : list[k] # f =>
              \E j \in DOMAIN RemoveFirst(list, f) : list[k] = RemoveFirst(list, f)[j]
<1>0. DOMAIN list = 1..Len(list) /\ Len(list) \in Nat
  BY LenProperties
<1>1. CASE ~\E n \in 1..Len(list) : list[n] = f
  BY <1>1 DEF RemoveFirst
<1>2. CASE \E n \in 1..Len(list) : list[n] = f
  <2> DEFINE I == {n \in 1..Len(list) : list[n] = f}
             i == CHOOSE x \in I : \A y \in I : x <= y
             r == RemoveAt(list, i)
  <2>1. RemoveFirst(list, f) = r
    BY <1>2 DEF RemoveFirst, SelectInSeq, Min
  <2>2. i \in I
    <3>1. I \in SUBSET Nat /\ I # {}
      BY <1>0, <1>2
    <3> HIDE DEF I
    <3> QED
      BY <3>1, LeastNumber
  <2>3. i \in 1..Len(list) /\ list[i] = f
    BY <2>2
  <2> HIDE DEF i, I
  <2>4. /\ r \in Seq(CacheFiles)
        /\ \A j \in DOMAIN r : Skip(i, j) \in DOMAIN list \ {i} /\ r[j] = list[Skip(i, j)]
        /\ \A j, k \in DOMAIN r : Skip(i, j) = Skip(i, k) => j = k
        /\ \A k \in DOMAIN list \ {i} : \E j \in DOMAIN r : list[k] = r[j]
    BY <2>3, RemoveAtKeeps
  <2> HIDE DEF r
  <2>7. PathOnce(r)
    BY <2>4 DEF PathOnce
  <2> QED
    BY <2>1, <2>3, <2>4, <2>7
<1> QED
  BY <1>1, <1>2

(* One file more takes its place of the quota.                              *)
LEMMA TotalOfAppend ==
  ASSUME NEW list \in Seq(CacheFiles), NEW f \in CacheFiles
  PROVE  Total(list) \in Nat /\ Total(Append(list, f)) = Total(list) + Size(f.of)
<1> DEFINE B == {i \in DOMAIN list : list[i].of \in Big}
           C == {i \in DOMAIN Append(list, f) : Append(list, f)[i].of \in Big}
           n == Len(list) + 1
<1>1. /\ Len(list) \in Nat /\ DOMAIN list = 1..Len(list)
      /\ Append(list, f) \in Seq(CacheFiles) /\ Len(Append(list, f)) = n /\ DOMAIN Append(list, f) = 1..n
      /\ \A i \in 1..Len(list) : Append(list, f)[i] = list[i]
      /\ Append(list, f)[n] = f
  <2>1. Append(list, f) \in Seq(CacheFiles) /\ Len(Append(list, f)) = n
    BY AppendProperties
  <2> QED
    BY <2>1, AppendProperties, LenProperties
<1>2. IsFiniteSet(B) /\ Cardinality(B) \in Nat
  <2>1. B \in SUBSET (1..Len(list)) /\ IsFiniteSet(1..Len(list))
    BY <1>1, FS_Interval
  <2> QED
    BY <2>1, FS_Subset, FS_CardinalityType
<1>3. n \notin B /\ C = (IF f.of \in Big THEN B \cup {n} ELSE B)
  BY <1>1
<1>4. Cardinality(C) = Cardinality(B) + (IF f.of \in Big THEN 1 ELSE 0)
  <2> HIDE DEF B, C, n
  <2>1. Cardinality(B \cup {n}) = Cardinality(B) + 1
    BY <1>2, <1>3, FS_AddElement
  <2>2. CASE f.of \in Big
    BY <1>2, <1>3, <2>1, <2>2
  <2>3. CASE f.of \notin Big
    BY <1>2, <1>3, <2>3
  <2> QED
    BY <2>2, <2>3
<1>5. Total(list) = Len(list) + Cardinality(B) /\ Total(Append(list, f)) = n + Cardinality(C)
  BY <1>1 DEF Total
<1>6. Size(f.of) = 1 + (IF f.of \in Big THEN 1 ELSE 0)
  BY DEF Size
<1> HIDE DEF B, C
<1> QED
  BY <1>1, <1>2, <1>4, <1>5, <1>6

(* The temporary file is the directory's last until it is renamed.          *)
LEMMA FrontOfAppend ==
  ASSUME NEW S, NEW s \in Seq(S), NEW e \in S
  PROVE  Front(Append(s, e)) = s /\ Last(Append(s, e)) = e /\ Append(s, e) # <<>>
<1>1. /\ Append(s, e) \in Seq(S) /\ Len(Append(s, e)) = Len(s) + 1
      /\ \A i \in 1..Len(s) : Append(s, e)[i] = s[i]
      /\ Append(s, e)[Len(s) + 1] = e /\ Append(s, e) # <<>>
  BY AppendProperties
<1>2. Len(s) \in Nat /\ DOMAIN s = 1..Len(s) /\ \A i \in 1..Len(s) : s[i] \in S
  BY LenProperties
<1>3. Front(Append(s, e)) = SubSeq(Append(s, e), 1, Len(s))
  BY <1>1, <1>2 DEF Front
<1>4. SubSeq(Append(s, e), 1, Len(s)) = s
  <2> DEFINE a == Append(s, e)
             f == SubSeq(a, 1, Len(s))
  <2> HIDE DEF a
  <2>1. \A i \in 1..Len(s) : a[i] \in S /\ a[i] = s[i]
    BY <1>1, <1>2 DEF a
  <2>2. /\ f \in Seq(S) /\ Len(f) = (IF 1 <= Len(s) THEN Len(s) - 1 + 1 ELSE 0)
        /\ \A i \in 1..(Len(s) - 1 + 1) : f[i] = a[1 + i - 1]
    BY <1>2, <2>1, SubSeqProperties
  <2>3. Len(f) = Len(s) /\ \A i \in 1..Len(s) : f[i] = s[i]
    BY <1>2, <2>1, <2>2
  <2> HIDE DEF f
  <2>4. f = s
    BY <1>2, <2>2, <2>3, SeqEqual
  <2> QED
    BY <2>4 DEF f, a
<1>5. Last(Append(s, e)) = e
  BY <1>1, <1>2 DEF Last
<1> QED
  BY <1>1, <1>3, <1>4, <1>5

(* The directory without its last file.                                     *)
LEMMA FrontIs ==
  ASSUME NEW S, NEW s \in Seq(S), s # <<>>
  PROVE  /\ Front(s) \in Seq(S) /\ Len(s) \in Nat \ {0} /\ Last(s) = s[Len(s)] /\ Last(s) \in S
         /\ DOMAIN Front(s) = 1..(Len(s) - 1)
         /\ \A i \in 1..(Len(s) - 1) : Front(s)[i] = s[i]
<1>1. /\ Len(s) \in Nat /\ Len(s) # 0 /\ \A i \in 1..Len(s) : s[i] \in S
  BY LenProperties, EmptySeq
<1>2. \A i \in 1..(Len(s) - 1) : s[i] \in S
  BY <1>1
<1>3. /\ SubSeq(s, 1, Len(s) - 1) \in Seq(S)
      /\ Len(SubSeq(s, 1, Len(s) - 1)) = Len(s) - 1
      /\ \A i \in 1..(Len(s) - 1) : SubSeq(s, 1, Len(s) - 1)[i] = s[i]
  <2> DEFINE f == SubSeq(s, 1, Len(s) - 1)
  <2>1. /\ f \in Seq(S) /\ Len(f) = (IF 1 <= Len(s) - 1 THEN Len(s) - 1 - 1 + 1 ELSE 0)
        /\ \A i \in 1..(Len(s) - 1 - 1 + 1) : f[i] = s[1 + i - 1]
    BY <1>1, <1>2, SubSeqProperties
  <2> HIDE DEF f
  <2>2. Len(f) = Len(s) - 1
    <3>1. CASE 1 <= Len(s) - 1
      BY <1>1, <2>1, <3>1
    <3>2. CASE ~(1 <= Len(s) - 1)
      <4>1. Len(f) = 0
        BY <2>1, <3>2
      <4>2. Len(s) - 1 = 0
        BY <1>1, <3>2
      <4> QED
        BY <4>1, <4>2
    <3> QED
      BY <3>1, <3>2
  <2>3. ASSUME NEW i \in 1..(Len(s) - 1) PROVE f[i] = s[i]
    <3>1. i \in 1..(Len(s) - 1 - 1 + 1) /\ 1 + i - 1 = i
      BY <1>1
    <3> QED
      BY <2>1, <3>1
  <2> QED
    BY <2>1, <2>2, <2>3 DEF f
<1> QED
  BY <1>1, <1>3, LenProperties DEF Front, Last
-----------------------------------------------------------------------------
(* The directory has a path once and only right files; who has the mutex    *)
(* holds the attachment's own content, for a row that names no file.        *)
OnePath == PathOnce(files)
AllRight == \A i \in DOMAIN files : files[i].right
HasFetched == {"making_room", "evicting", "removing", "writing", "renaming", "recording"}
Cleared(f) == f.temp \/ f.of \notin cachePath

(* While no restore has brought back rows without their files, a row that   *)
(* names a file has it, who has the mutex works for a row that names none,  *)
(* and a download finds its file.                                           *)
Unrestored == restores = 0
RowsKnown == restores \in Nat /\ (Unrestored => RowsNameTheirFiles)
RowKnows(r) ==
  /\ pc[r] \in Inside => wants[r] \notin cachePath
  /\ pc[r] = "removing" => Cleared(Head(evicting))
  /\ pc[r] = "opening" => Exists(wants[r]) \/ r \in evicted
  /\ pc[r] = "missing" => r \in evicted
DownloadKnows(r) ==
  /\ pc[r] \in HasFetched => fetched
  /\ pc[r] = "removing" => evicting # <<>>
  /\ pc[r] = "writing" => Fits(files, wants[r])
  /\ pc[r] = "renaming" => /\ files # <<>> /\ Last(files) = CacheFile(wants[r], TRUE, TRUE)
                           /\ Fits(Front(files), wants[r])
  /\ pc[r] = "recording" => Exists(wants[r]) /\ Total(files) <= Quota
  /\ Unrestored => RowKnows(r)
CacheInv ==
  /\ CacheTypeOK /\ RowsKnown /\ OnePath /\ AllRight
  /\ \A r \in Requests : DownloadKnows(r)

(* A request that takes no step, outside LoadAttachment, still knows what   *)
(* it knew: a file that goes is reported to it.                             *)
LEMMA Bystander ==
  ASSUME NEW q \in Requests, DownloadKnows(q), pc[q] \notin Inside,
         pc'[q] = pc[q], wants'[q] = wants[q], restores' = restores, q \in evicted => q \in evicted',
         pc[q] = "opening" /\ Exists(wants[q]) => Named(files', wants[q]) # {} \/ q \in evicted'
  PROVE  DownloadKnows(q)'
<1>1. pc[q] \notin HasFetched
  BY DEF HasFetched, Inside
<1> QED
  BY <1>1 DEF DownloadKnows, RowKnows, Unrestored, Inside, Exists

(* The mutex has one holder, so of the requests inside none but it.         *)
LEMMA HolderIsAlone ==
  ASSUME CacheTypeOK, NEW r \in Requests, pc[r] \in Inside, NEW q \in Requests, q # r
  PROVE  pc[q] \notin Inside
BY DEF CacheTypeOK

(* An empty directory, no rows that name files, nobody inside.              *)
LEMMA CacheStarts == CacheInit => CacheInv
<1> SUFFICES ASSUME CacheInit PROVE CacheInv
  OBVIOUS
<1>1. <<>> \in Seq(CacheFiles) /\ Len(<<>>) = 0 /\ DOMAIN <<>> = {}
  BY EmptySeq, LenProperties
<1>2. (CHOOSE a \in Attachments : TRUE) \in Attachments
  BY CacheAssumption
<1>3. CacheTypeOK
  BY <1>1, <1>2, RequestsAssumption DEF CacheInit, CacheTypeOK, CacheFiles, Inside
<1> QED
  BY <1>1, <1>3 DEF CacheInit, CacheInv, RowsKnown, Unrestored, RowsNameTheirFiles, OnePath,
     PathOnce, AllRight,
     DownloadKnows, RowKnows, Unrestored, HasFetched, Inside

(* Steps that leave the directory and the mutex's holder as they are.       *)
LEMMA RequestKeeps ==
  ASSUME CacheInv, NEW r \in Requests, NEW a \in Attachments, Request(r, a) PROVE CacheInv'
<1>1. /\ pc[r] = "idle" /\ a \in rows /\ wants' = [wants EXCEPT ![r] = a]
      /\ pc' = [pc EXCEPT ![r] = IF a \in cachePath THEN "opening" ELSE "waiting"]
      /\ evicted' = evicted \ {r}
      /\ UNCHANGED <<restores, rows, cachePath, renumbered, files, cacheMu, fetched, evicting>>
  BY DEF cacheBounds, Request, To, store
<1>2. CacheTypeOK'
  BY <1>1 DEF CacheInv, CacheTypeOK, Inside
<1>3. RowsKnown' /\ OnePath' /\ AllRight'
  BY <1>1 DEF CacheInv, RowsKnown, Unrestored, RowsNameTheirFiles, Exists, Named, OnePath,
     PathOnce, AllRight
<1>4. ASSUME NEW q \in Requests PROVE DownloadKnows(q)'
  <2>1. CASE q = r
    <3>0. Unrestored' = Unrestored /\ files' = files
      BY <1>1 DEF Unrestored
    <3>1. wants'[q] = a /\ pc'[q] = (IF a \in cachePath THEN "opening" ELSE "waiting")
      BY <1>1, <2>1 DEF CacheInv, CacheTypeOK
    <3>2. Unrestored /\ pc'[q] = "opening" => Named(files', wants'[q]) # {}
      BY <1>1, <3>1 DEF CacheInv, RowsKnown, Unrestored, RowsNameTheirFiles, Exists
    <3> QED
      BY <3>0, <3>1, <3>2 DEF DownloadKnows, RowKnows, HasFetched, Inside, Exists
  <2>2. CASE q # r
    BY <1>1, <2>2 DEF CacheInv, CacheTypeOK, DownloadKnows, RowKnows, Unrestored, Exists, Fits,
       Cleared
  <2> QED
    BY <2>1, <2>2
<1> QED
  BY <1>2, <1>3, <1>4 DEF CacheInv

(* loadMu: at most one request is inside LoadAttachment.                    *)
LEMMA LockKeeps ==
  ASSUME CacheInv, NEW r \in Requests, Lock(r) PROVE CacheInv'
<1>1. /\ pc[r] = "waiting" /\ cacheMu = Free
      /\ UNCHANGED <<restores, rows, cachePath, renumbered, files, wants, fetched, evicting, evicted>>
  BY DEF cacheBounds, Lock, store
<1>2. \/ /\ Exists(wants[r]) /\ cacheMu' = cacheMu /\ pc' = [pc EXCEPT ![r] = "opening"]
      \/ /\ Unrestored => wants[r] \notin cachePath
         /\ cacheMu' = r /\ pc' = [pc EXCEPT ![r] = "fetching"]
  BY DEF cacheBounds, Lock, To, CacheInv, RowsKnown, Unrestored, RowsNameTheirFiles
<1>3. CacheTypeOK'
  BY <1>1, <1>2, RequestsAssumption DEF CacheInv, CacheTypeOK, Inside
<1>4. RowsKnown' /\ OnePath' /\ AllRight'
  BY <1>1 DEF CacheInv, RowsKnown, Unrestored, RowsNameTheirFiles, Exists, Named, OnePath,
     PathOnce, AllRight
<1>5. ASSUME NEW q \in Requests PROVE DownloadKnows(q)'
  <2>1. CASE q = r
    BY <1>1, <1>2, <2>1 DEF CacheInv, CacheTypeOK, DownloadKnows, RowKnows, Unrestored, HasFetched,
       Inside, Exists
  <2>2. CASE q # r
    BY <1>1, <1>2, <2>2 DEF CacheInv, CacheTypeOK, DownloadKnows, RowKnows, Unrestored, Exists,
       Fits, Cleared
  <2> QED
    BY <2>1, <2>2
<1> QED
  BY <1>3, <1>4, <1>5 DEF CacheInv

(* The content is fetched before anything of the directory changes.         *)
LEMMA DownloadKeeps ==
  ASSUME CacheInv, NEW r \in Requests, FetchPart(r) PROVE CacheInv'
<1>1. /\ pc[r] = "fetching" /\ fetched' = ~renumbered
      /\ UNCHANGED <<restores, rows, cachePath, renumbered, files, wants, evicted>>
  BY DEF cacheBounds, FetchPart, store
<1>2. \/ /\ ~renumbered /\ pc' = [pc EXCEPT ![r] = "making_room"]
         /\ UNCHANGED <<cacheMu, evicting>>
      \/ /\ pc' = [pc EXCEPT ![r] = "failed"] /\ cacheMu' = Free /\ evicting' = <<>>
  BY DEF cacheBounds, FetchPart, To, Unavailable, Unlock, ValidityIsSame
<1>3. pc[r] \in Inside /\ cacheMu = r
  BY <1>1 DEF Inside, CacheInv, CacheTypeOK
<1>4. CacheTypeOK'
  <2>1. evicting' \in Seq(CacheFiles)
    BY <1>2, EmptySeq DEF CacheInv, CacheTypeOK, CacheFiles
  <2> QED
    BY <1>1, <1>2, <1>3, <2>1, RequestsAssumption DEF CacheInv, CacheTypeOK, Inside, CacheFiles
<1>5. RowsKnown' /\ OnePath' /\ AllRight'
  BY <1>1 DEF CacheInv, RowsKnown, Unrestored, RowsNameTheirFiles, Exists, Named, OnePath,
     PathOnce, AllRight
<1>6. ASSUME NEW q \in Requests PROVE DownloadKnows(q)'
  <2>1. CASE q = r
    BY <1>1, <1>2, <1>3, <2>1 DEF CacheInv, CacheTypeOK, DownloadKnows, RowKnows, Unrestored,
       HasFetched, Inside
  <2>2. CASE q # r
    BY <1>1, <1>2, <1>3, <2>2, Bystander, HolderIsAlone DEF CacheInv, CacheTypeOK, Exists
  <2> QED
    BY <2>1, <2>2
<1> QED
  BY <1>4, <1>5, <1>6 DEF CacheInv

(* Eviction lists the oldest files, unless the new one fits.                *)
LEMMA MakeRoomKeeps ==
  ASSUME CacheInv, NEW r \in Requests, MakeRoom(r) PROVE CacheInv'
<1>1. /\ pc[r] = "making_room"
      /\ UNCHANGED <<restores, rows, cachePath, renumbered, files, wants, fetched, evicted>>
  BY DEF cacheBounds, MakeRoom, store
<1>2. \/ /\ pc' = [pc EXCEPT ![r] = "failed"] /\ cacheMu' = Free /\ evicting' = <<>>
      \/ /\ Fits(files, wants[r]) /\ pc' = [pc EXCEPT ![r] = "writing"]
         /\ evicting' = <<>> /\ cacheMu' = cacheMu
      \/ /\ pc' = [pc EXCEPT ![r] = "evicting"]
         /\ evicting' = Others(files, wants[r]) /\ cacheMu' = cacheMu
  BY DEF cacheBounds, MakeRoom, To, Unavailable, Unlock
<1>3. pc[r] \in Inside /\ cacheMu = r
  BY <1>1 DEF Inside, CacheInv, CacheTypeOK
<1>4. Others(files, wants[r]) \in Seq(CacheFiles)
  BY OthersAre DEF CacheInv, CacheTypeOK, OnePath, CacheFiles
<1>5. CacheTypeOK'
  <2>1. evicting' \in Seq(CacheFiles)
    BY <1>2, <1>4, EmptySeq
  <2> QED
    BY <1>1, <1>2, <1>3, <2>1, RequestsAssumption DEF CacheInv, CacheTypeOK, Inside, CacheFiles
<1>6. RowsKnown' /\ OnePath' /\ AllRight'
  BY <1>1 DEF CacheInv, RowsKnown, Unrestored, RowsNameTheirFiles, Exists, Named, OnePath,
     PathOnce, AllRight
<1>7. ASSUME NEW q \in Requests PROVE DownloadKnows(q)'
  <2>1. CASE q = r
    <3>1. fetched /\ (Unrestored => wants[r] \notin cachePath)
      BY <1>1, <1>3 DEF CacheInv, DownloadKnows, RowKnows, Unrestored, HasFetched
    <3> QED
      BY <1>1, <1>2, <2>1, <3>1 DEF CacheInv, CacheTypeOK, DownloadKnows, RowKnows, Unrestored,
         HasFetched, Inside, Fits
  <2>2. CASE q # r
    BY <1>1, <1>2, <1>3, <2>2, Bystander, HolderIsAlone DEF CacheInv, CacheTypeOK, Exists
  <2> QED
    BY <2>1, <2>2
<1> QED
  BY <1>5, <1>6, <1>7 DEF CacheInv

(* The row goes before its file does.                                       *)
LEMMA ClearRowKeeps ==
  ASSUME CacheInv, NEW r \in Requests, ClearRow(r) PROVE CacheInv'
<1>1. /\ pc[r] = "evicting"
      /\ UNCHANGED <<restores, rows, renumbered, files, wants, fetched, evicted>>
  BY DEF cacheBounds, ClearRow
<1>2. \/ /\ pc' = [pc EXCEPT ![r] = "failed"] /\ cacheMu' = Free /\ evicting' = <<>>
         /\ cachePath' = cachePath
      \/ /\ evicting # <<>> /\ cachePath' = RowCleared(Head(evicting))
         /\ pc' = [pc EXCEPT ![r] = "removing"] /\ UNCHANGED <<cacheMu, evicting>>
  BY DEF cacheBounds, ClearRow, To, Unavailable, Unlock
<1>3. pc[r] \in Inside /\ cacheMu = r
  BY <1>1 DEF Inside, CacheInv, CacheTypeOK
<1>4. cachePath' \subseteq cachePath
  BY <1>2 DEF RowCleared
<1>5. CacheTypeOK'
  BY <1>1, <1>2, <1>3, <1>4, EmptySeq, RequestsAssumption DEF CacheInv, CacheTypeOK, Inside
<1>6. RowsKnown' /\ OnePath' /\ AllRight'
  BY <1>1, <1>4 DEF CacheInv, RowsKnown, Unrestored, RowsNameTheirFiles, Exists, Named, OnePath,
     PathOnce, AllRight
<1>7. ASSUME NEW q \in Requests PROVE DownloadKnows(q)'
  <2>1. CASE q = r
    <3>1. fetched /\ (Unrestored => wants[r] \notin cachePath')
      BY <1>1, <1>3, <1>4 DEF CacheInv, DownloadKnows, RowKnows, Unrestored, HasFetched
    <3>2. pc'[r] = "removing" => evicting' # <<>> /\ Cleared(Head(evicting))'
      BY <1>1, <1>2 DEF CacheInv, CacheTypeOK, RowCleared, Cleared
    <3> QED
      BY <1>1, <1>2, <2>1, <3>1, <3>2 DEF CacheInv, CacheTypeOK, DownloadKnows, RowKnows,
         Unrestored, HasFetched, Inside
  <2>2. CASE q # r
    BY <1>1, <1>2, <1>3, <2>2, Bystander, HolderIsAlone DEF CacheInv, CacheTypeOK, Exists
  <2> QED
    BY <2>1, <2>2
<1> QED
  BY <1>5, <1>6, <1>7 DEF CacheInv

(* A file that changes place, or a path without a row, is nobody's row: the *)
(* rows that name a file keep it, and others are told that theirs went.     *)
LEMMA RowsKeepFiles ==
  ASSUME CacheTypeOK, RowsNameTheirFiles,
         \A k \in DOMAIN files : ~files[k].temp /\ files[k].of \in cachePath =>
           \E j \in DOMAIN files' : files'[j] = files[k]
  PROVE  \A a \in cachePath : Named(files', a) # {}
<1> SUFFICES ASSUME NEW a \in cachePath PROVE Named(files', a) # {}
  OBVIOUS
<1>1. PICK k \in DOMAIN files : files[k].of = a /\ ~files[k].temp
  BY DEF RowsKnown, Unrestored, RowsNameTheirFiles, Exists, Named
<1>2. PICK j \in DOMAIN files' : files'[j] = files[k]
  BY <1>1
<1> QED
  BY <1>1, <1>2 DEF Named

(* The oldest file is removed, or stays and counts.                         *)
LEMMA RemoveOldestKeeps ==
  ASSUME CacheInv, NEW r \in Requests, RemoveOldest(r) PROVE CacheInv'
<1> DEFINE f == Head(evicting)
<1>1. /\ pc[r] = "removing" /\ evicting' = Tail(evicting)
      /\ UNCHANGED <<restores, rows, cachePath, renumbered, cacheMu, wants, fetched>>
      /\ evicted' = evicted \cup {q \in Requests : pc[q] = "opening" /\ Named(files', wants[q]) = {}}
  BY DEF cacheBounds, RemoveOldest, store, Overtake
<1>2. \/ /\ files' = RemoveFirst(files, f)
         /\ pc' = [pc EXCEPT ![r] = IF Fits(files', wants[r]) THEN "writing" ELSE "evicting"]
      \/ files' = files /\ pc' = [pc EXCEPT ![r] = "evicting"]
  BY DEF cacheBounds, RemoveOldest, To
<1>3. /\ pc[r] \in Inside /\ pc[r] \in HasFetched /\ cacheMu = r
      /\ evicting \in Seq(CacheFiles) /\ files \in Seq(CacheFiles) /\ PathOnce(files)
      /\ evicting # <<>> /\ fetched
      /\ Unrestored => Cleared(f) /\ wants[r] \notin cachePath
  BY <1>1 DEF Inside, HasFetched, CacheInv, CacheTypeOK, CacheFiles, OnePath, DownloadKnows,
     RowKnows, Unrestored
<1> HIDE DEF f
<1>4. /\ files' \in Seq(CacheFiles) /\ PathOnce(files')
      /\ \A j \in DOMAIN files' : \E k \in DOMAIN files : files[k] = files'[j]
      /\ \A k \in DOMAIN files : files[k] # f => \E j \in DOMAIN files' : files[k] = files'[j]
  BY <1>2, <1>3, RemoveFirstIs
<1>5. CacheTypeOK'
  <2>1. evicting' \in Seq(CacheFiles) /\ evicted' \subseteq Requests
    BY <1>1, <1>3, HeadTailProperties DEF CacheInv, CacheTypeOK
  <2> QED
    BY <1>1, <1>2, <1>3, <1>4, <2>1 DEF CacheInv, CacheTypeOK, Inside, CacheFiles
<1>6. RowsKnown'
  <2>1. ASSUME Unrestored PROVE \A a \in cachePath : Named(files', a) # {}
    BY <2>1, <1>3, <1>4, RowsKeepFiles DEF CacheInv, RowsKnown, Cleared
  <2> QED
    BY <1>1, <2>1 DEF CacheInv, RowsKnown, Unrestored, RowsNameTheirFiles, Exists
<1>7. OnePath' /\ AllRight'
  BY <1>4 DEF CacheInv, OnePath, AllRight
<1>8. ASSUME NEW q \in Requests PROVE DownloadKnows(q)'
  <2>1. CASE q = r
    BY <1>1, <1>2, <1>3, <2>1 DEF CacheInv, CacheTypeOK, DownloadKnows, RowKnows, Unrestored,
       HasFetched, Inside
  <2>2. CASE q # r
    <3>1. pc[q] \notin Inside /\ pc'[q] = pc[q] /\ wants'[q] = wants[q] /\ DownloadKnows(q)
      BY <1>1, <1>2, <1>3, <2>2, HolderIsAlone DEF CacheInv, CacheTypeOK
    <3>2. q \in evicted => q \in evicted'
      BY <1>1
    <3>3. pc[q] = "opening" => Named(files', wants[q]) # {} \/ q \in evicted'
      BY <1>1
    <3> QED
      BY <1>1, <3>1, <3>2, <3>3, Bystander
  <2> QED
    BY <2>1, <2>2
<1> QED
  BY <1>5, <1>6, <1>7, <1>8 DEF CacheInv

(* A temporary file is written, or the write fails.                         *)
LEMMA WriteTempKeeps ==
  ASSUME CacheInv, NEW r \in Requests, WriteTemp(r) PROVE CacheInv'
<1> DEFINE f == CacheFile(wants[r], TRUE, fetched)
<1>1. /\ pc[r] = "writing"
      /\ UNCHANGED <<restores, rows, cachePath, renumbered, wants, fetched, evicted>>
  BY DEF cacheBounds, WriteTemp, store
<1>2. \/ /\ files' = Append(files, f) /\ pc' = [pc EXCEPT ![r] = "renaming"]
         /\ UNCHANGED <<cacheMu, evicting>>
      \/ /\ pc' = [pc EXCEPT ![r] = "failed"] /\ cacheMu' = Free /\ evicting' = <<>>
         /\ files' = files
  BY DEF cacheBounds, WriteTemp, To, Unavailable, Unlock
<1>3. /\ pc[r] \in Inside /\ pc[r] \in HasFetched /\ cacheMu = r
      /\ evicting \in Seq(CacheFiles) /\ files \in Seq(CacheFiles) /\ PathOnce(files)
      /\ fetched = TRUE /\ wants[r] \in Attachments /\ Fits(files, wants[r])
      /\ Unrestored => wants[r] \notin cachePath
  BY <1>1 DEF Inside, HasFetched, CacheInv, CacheTypeOK, CacheFiles, OnePath, DownloadKnows,
     RowKnows, Unrestored
<1>4. f \in CacheFiles /\ f.temp /\ f.right /\ f = CacheFile(wants[r], TRUE, TRUE)
  BY <1>3 DEF CacheFile, CacheFiles
<1> HIDE DEF f
<1>5. /\ Append(files, f) \in Seq(CacheFiles)
      /\ \A i \in DOMAIN Append(files, f) :
           \/ i \in DOMAIN files /\ Append(files, f)[i] = files[i]
           \/ Append(files, f)[i] = f
      /\ \A i \in DOMAIN files : i \in DOMAIN Append(files, f) /\ Append(files, f)[i] = files[i]
  <2>1. Append(files, f) \in Seq(CacheFiles) /\ Appended(Append(files, f), files, f)
    BY <1>3, <1>4, AppendIs
  <2> QED
    BY <2>1 DEF Appended
<1>11. Front(Append(files, f)) = files /\ Last(Append(files, f)) = f /\ Append(files, f) # <<>>
  BY <1>3, <1>4, FrontOfAppend
<1>6. CacheTypeOK'
  <2>1. evicting' \in Seq(CacheFiles) /\ files' \in Seq(CacheFiles)
    BY <1>2, <1>3, <1>5, EmptySeq
  <2> QED
    BY <1>1, <1>2, <1>3, <2>1, RequestsAssumption DEF CacheInv, CacheTypeOK, Inside, CacheFiles
<1>7. \A k \in DOMAIN files : k \in DOMAIN files' /\ files'[k] = files[k]
  BY <1>2, <1>5
<1>8. RowsKnown'
  <2>1. ASSUME Unrestored PROVE \A a \in cachePath : Named(files', a) # {}
    BY <2>1, <1>7, RowsKeepFiles DEF CacheInv, RowsKnown
  <2> QED
    BY <1>1, <2>1 DEF CacheInv, RowsKnown, Unrestored, RowsNameTheirFiles, Exists
<1>9. OnePath' /\ AllRight'
  <2>1. CASE files' = files
    BY <2>1 DEF CacheInv, OnePath, AllRight
  <2>2. CASE files' = Append(files, f)
    <3>1. \A i \in DOMAIN files' : (i \in DOMAIN files /\ files'[i] = files[i]) \/ files'[i] = f
      BY <1>5, <2>2
    <3>2. \A i \in DOMAIN files' : (i \in DOMAIN files /\ files'[i] = files[i]) \/ files'[i].temp
      BY <1>4, <3>1
    <3>3. OnePath'
      BY <1>3, <3>2 DEF OnePath, PathOnce
    <3>4. AllRight'
      BY <1>4, <3>1 DEF CacheInv, AllRight
    <3> QED
      BY <3>3, <3>4
  <2> QED
    BY <1>2, <2>1, <2>2
<1>10. ASSUME NEW q \in Requests PROVE DownloadKnows(q)'
  <2>1. CASE q = r
    BY <1>1, <1>2, <1>3, <1>4, <1>11, <2>1 DEF CacheInv, CacheTypeOK, DownloadKnows, RowKnows,
       Unrestored, HasFetched, Inside
  <2>2. CASE q # r
    <3>1. pc[q] \notin Inside /\ pc'[q] = pc[q] /\ wants'[q] = wants[q] /\ DownloadKnows(q)
      BY <1>1, <1>2, <1>3, <2>2, HolderIsAlone DEF CacheInv, CacheTypeOK
    <3>2. Exists(wants[q]) => Named(files', wants[q]) # {}
      BY <1>7 DEF Exists, Named
    <3> QED
      BY <1>1, <3>1, <3>2, Bystander
  <2> QED
    BY <2>1, <2>2
<1> QED
  BY <1>6, <1>8, <1>9, <1>10 DEF CacheInv

(* A file put at a path that nothing is at: the path is there once again,   *)
(* and what it takes of the quota is the file's size.                       *)
LEMMA PutAtPath ==
  ASSUME NEW list \in Seq(CacheFiles), PathOnce(list), NEW f \in CacheFiles, ~f.temp,
         Named(list, f.of) = {}
  PROVE  /\ Append(list, f) \in Seq(CacheFiles) /\ PathOnce(Append(list, f))
         /\ \A j \in DOMAIN Append(list, f) :
              Append(list, f)[j] = f \/ \E k \in DOMAIN list : list[k] = Append(list, f)[j]
         /\ \A k \in DOMAIN list : \E j \in DOMAIN Append(list, f) : Append(list, f)[j] = list[k]
         /\ Named(Append(list, f), f.of) # {}
<1> DEFINE new == Append(list, f)
<1>1. /\ new \in Seq(CacheFiles)
      /\ \A i \in DOMAIN new : (i \in DOMAIN list /\ new[i] = list[i]) \/ (i = Len(list) + 1 /\ new[i] = f)
      /\ \A i \in DOMAIN list : i \in DOMAIN new /\ new[i] = list[i]
      /\ Len(list) + 1 \in DOMAIN new /\ new[Len(list) + 1] = f
  <2>1. new \in Seq(CacheFiles) /\ Appended(new, list, f)
    BY AppendIs
  <2> QED
    BY <2>1 DEF Appended
<1> HIDE DEF new
<1>6. \A i \in DOMAIN list : list[i].temp \/ list[i].of # f.of
  BY DEF Named
<1>7. PathOnce(new)
  BY <1>1, <1>6 DEF PathOnce
<1>8. Len(list) + 1 \in Named(new, f.of)
  BY <1>1 DEF Named
<1> QED
  BY <1>1, <1>7, <1>8 DEF new

(* The temporary file takes the place of what was at the path, or is lost.  *)
LEMMA RenameKeeps ==
  ASSUME CacheInv, NEW r \in Requests, Rename(r) PROVE CacheInv'
<1> DEFINE a == wants[r]
           rest == Others(Front(files), a)
           f == CacheFile(a, FALSE, TRUE)
<1>1. /\ pc[r] = "renaming"
      /\ UNCHANGED <<restores, rows, cachePath, renumbered, wants, fetched>>
      /\ evicted' = evicted \cup {q \in Requests : pc[q] = "opening" /\ Named(files', wants[q]) = {}}
  BY DEF cacheBounds, Rename, store, Overtake
<1>2. /\ pc[r] \in Inside /\ pc[r] \in HasFetched /\ cacheMu = r
      /\ evicting \in Seq(CacheFiles) /\ files \in Seq(CacheFiles) /\ PathOnce(files)
      /\ fetched = TRUE /\ a \in Attachments /\ (Unrestored => a \notin cachePath)
      /\ files # <<>> /\ Last(files) = CacheFile(a, TRUE, TRUE) /\ Fits(Front(files), a)
  BY <1>1 DEF Inside, HasFetched, CacheInv, CacheTypeOK, CacheFiles, OnePath, DownloadKnows,
     RowKnows, Unrestored
<1>3. CacheFile(Last(files).of, FALSE, Last(files).right) = f /\ f \in CacheFiles /\ ~f.temp
      /\ f.right /\ f.of = a
  BY <1>2 DEF CacheFile, CacheFiles
<1>4. \/ /\ files' = Append(rest, f) /\ pc' = [pc EXCEPT ![r] = "recording"]
         /\ UNCHANGED <<cacheMu, evicting>>
      \/ /\ pc' = [pc EXCEPT ![r] = "failed"] /\ cacheMu' = Free /\ evicting' = <<>>
         /\ files' \in {Front(files), rest}
  BY <1>3 DEF Rename, To, Unavailable, Unlock
<1> HIDE DEF a, f
<1>5. /\ Front(files) \in Seq(CacheFiles) /\ Len(files) \in Nat \ {0} /\ Last(files) = files[Len(files)]
      /\ DOMAIN Front(files) = 1..(Len(files) - 1) /\ DOMAIN files = 1..Len(files)
      /\ \A i \in 1..(Len(files) - 1) : Front(files)[i] = files[i]
  BY <1>2, FrontIs, LenProperties
<1>6. /\ \A i \in DOMAIN Front(files) : i \in DOMAIN files /\ Front(files)[i] = files[i]
      /\ \A i \in DOMAIN files : ~files[i].temp => i \in DOMAIN Front(files)
  <2>1. files[Len(files)].temp
    BY <1>2, <1>5 DEF CacheFile
  <2> QED
    BY <1>5, <2>1
<1>7. PathOnce(Front(files))
  BY <1>2, <1>6 DEF PathOnce
<1>8. /\ rest \in Seq(CacheFiles) /\ PathOnce(rest)
      /\ \A j \in DOMAIN rest :
           \E k \in DOMAIN Front(files) : Front(files)[k] = rest[j] /\ (Front(files)[k].temp \/ Front(files)[k].of # a)
      /\ \A k \in DOMAIN Front(files) : Front(files)[k].temp \/ Front(files)[k].of # a =>
           \E j \in DOMAIN rest : Front(files)[k] = rest[j]
  BY <1>2, <1>5, <1>7, OthersAre
<1> HIDE DEF rest
<1>9. Named(rest, a) = {}
  BY <1>8 DEF Named
<1>10. \A j \in DOMAIN rest : \E k \in DOMAIN files : files[k] = rest[j]
  BY <1>6, <1>8
<1>11. \A k \in DOMAIN files : ~files[k].temp /\ files[k].of # a => \E j \in DOMAIN rest : rest[j] = files[k]
  BY <1>6, <1>8
<1>12. /\ Append(rest, f) \in Seq(CacheFiles) /\ PathOnce(Append(rest, f))
       /\ \A j \in DOMAIN Append(rest, f) :
            Append(rest, f)[j] = f \/ \E k \in DOMAIN rest : rest[k] = Append(rest, f)[j]
       /\ \A k \in DOMAIN rest : \E j \in DOMAIN Append(rest, f) : Append(rest, f)[j] = rest[k]
       /\ Named(Append(rest, f), a) # {}
  <2>1. Named(rest, f.of) = {} /\ f \in CacheFiles /\ ~f.temp /\ f.of = a
    BY <1>3, <1>9
  <2> HIDE DEF f
  <2> QED
    BY <1>8, <2>1, PutAtPath
<1>13. Total(Append(rest, f)) <= Quota
  <2>1. Total(Append(rest, f)) = Total(rest) + Size(a)
    BY <1>3, <1>8, TotalOfAppend
  <2> QED
    BY <1>2, <2>1 DEF Fits, rest
<1>14. files' \in Seq(CacheFiles) /\ OnePath' /\ AllRight'
  <2>1. files' \in Seq(CacheFiles) /\ PathOnce(files')
    BY <1>4, <1>5, <1>7, <1>8, <1>12
  <2>2. \A j \in DOMAIN files' : files'[j] = f \/ \E k \in DOMAIN files : files[k] = files'[j]
    BY <1>4, <1>6, <1>10, <1>12
  <2> QED
    BY <1>3, <2>1, <2>2 DEF OnePath, AllRight, CacheInv
<1>15. \A k \in DOMAIN files : ~files[k].temp /\ files[k].of # a => \E j \in DOMAIN files' : files'[j] = files[k]
  BY <1>4, <1>6, <1>11, <1>12
<1>16. RowsKnown'
  <2>1. ASSUME Unrestored PROVE \A b \in cachePath : Named(files', b) # {}
    BY <2>1, <1>2, <1>15, RowsKeepFiles DEF CacheInv, RowsKnown
  <2> QED
    BY <1>1, <2>1 DEF CacheInv, RowsKnown, Unrestored, RowsNameTheirFiles, Exists
<1>17. CacheTypeOK'
  <2>1. evicting' \in Seq(CacheFiles) /\ evicted' \subseteq Requests
    BY <1>1, <1>2, <1>4, EmptySeq DEF CacheInv, CacheTypeOK
  <2> QED
    BY <1>1, <1>2, <1>4, <1>14, <2>1, RequestsAssumption DEF CacheInv, CacheTypeOK, Inside,
       CacheFiles
<1>18. ASSUME NEW q \in Requests PROVE DownloadKnows(q)'
  <2>1. CASE q = r
    <3>1. wants'[q] = a /\ fetched' /\ (Unrestored => wants'[q] \notin cachePath')
      BY <1>1, <1>2, <2>1 DEF a
    <3>2. (pc'[q] = "recording" /\ files' = Append(rest, f)) \/ pc'[q] = "failed"
      BY <1>4, <2>1 DEF CacheInv, CacheTypeOK
    <3> QED
      BY <1>1, <1>12, <1>13, <3>1, <3>2 DEF DownloadKnows, RowKnows, Unrestored, HasFetched,
         Inside, Exists
  <2>2. CASE q # r
    <3>1. pc[q] \notin Inside /\ pc'[q] = pc[q] /\ wants'[q] = wants[q] /\ DownloadKnows(q)
      BY <1>1, <1>2, <1>4, <2>2, HolderIsAlone DEF CacheInv, CacheTypeOK
    <3>2. q \in evicted => q \in evicted'
      BY <1>1
    <3>3. pc[q] = "opening" => Named(files', wants[q]) # {} \/ q \in evicted'
      BY <1>1
    <3> QED
      BY <1>1, <3>1, <3>2, <3>3, Bystander
  <2> QED
    BY <2>1, <2>2
<1> QED
  BY <1>14, <1>16, <1>17, <1>18 DEF CacheInv

(* The row is set on a file that is there; or the file goes again.          *)
LEMMA RecordKeeps ==
  ASSUME CacheInv, NEW r \in Requests, Record(r) PROVE CacheInv'
<1> DEFINE a == wants[r]
<1>1. /\ pc[r] = "recording"
      /\ UNCHANGED <<restores, rows, renumbered, wants, fetched>>
      /\ evicted' = evicted \cup {q \in Requests : pc[q] = "opening" /\ Named(files', wants[q]) = {}}
  BY DEF cacheBounds, Record, Overtake
<1>2. /\ pc[r] \in Inside /\ pc[r] \in HasFetched /\ cacheMu = r
      /\ evicting \in Seq(CacheFiles) /\ files \in Seq(CacheFiles) /\ PathOnce(files)
      /\ a \in Attachments /\ (Unrestored => a \notin cachePath) /\ Exists(a)
  BY <1>1 DEF Inside, HasFetched, CacheInv, CacheTypeOK, CacheFiles, OnePath, DownloadKnows,
     RowKnows, Unrestored
<1>3. /\ cacheMu' = Free /\ evicting' = <<>>
      /\ \/ /\ a \in rows /\ cachePath' = cachePath \cup {a} /\ files' = files
            /\ pc' = [pc EXCEPT ![r] = "opening"]
         \/ /\ cachePath' = cachePath /\ files' = Others(files, a)
            /\ pc' = [pc EXCEPT ![r] = "failed"]
  BY DEF cacheBounds, Record, To, Unavailable, Unlock
<1> HIDE DEF a
<1>4. /\ Others(files, a) \in Seq(CacheFiles) /\ PathOnce(Others(files, a))
      /\ \A j \in DOMAIN Others(files, a) : \E k \in DOMAIN files : files[k] = Others(files, a)[j]
      /\ \A k \in DOMAIN files : files[k].temp \/ files[k].of # a =>
           \E j \in DOMAIN Others(files, a) : files[k] = Others(files, a)[j]
  BY <1>2, OthersAre
<1>5. files' \in Seq(CacheFiles) /\ OnePath' /\ AllRight'
  BY <1>2, <1>3, <1>4 DEF OnePath, AllRight, CacheInv
<1>6. RowsKnown'
  <2>1. CASE cachePath' = cachePath \cup {a} /\ files' = files
    BY <1>1, <1>2, <2>1 DEF CacheInv, RowsKnown, Unrestored, RowsNameTheirFiles, Exists
  <2>2. CASE cachePath' = cachePath /\ files' = Others(files, a)
    <3>1. ASSUME Unrestored PROVE \A b \in cachePath : Named(files', b) # {}
      BY <3>1, <1>2, <1>4, <2>2, RowsKeepFiles DEF CacheInv, RowsKnown
    <3> QED
      BY <1>1, <2>2, <3>1 DEF CacheInv, RowsKnown, Unrestored, RowsNameTheirFiles, Exists
  <2> QED
    BY <1>3, <2>1, <2>2
<1>7. CacheTypeOK'
  <2>1. evicting' \in Seq(CacheFiles) /\ evicted' \subseteq Requests
    BY <1>1, <1>3, EmptySeq DEF CacheInv, CacheTypeOK
  <2> QED
    BY <1>1, <1>2, <1>3, <1>5, <2>1, RequestsAssumption DEF CacheInv, CacheTypeOK, Inside,
       CacheFiles
<1>8. ASSUME NEW q \in Requests PROVE DownloadKnows(q)'
  <2>1. CASE q = r
    <3>1. (pc'[q] = "opening" /\ Named(files', wants'[q]) # {}) \/ pc'[q] = "failed"
      BY <1>1, <1>2, <1>3, <2>1 DEF CacheInv, CacheTypeOK, Exists, a
    <3> QED
      BY <3>1 DEF DownloadKnows, RowKnows, Unrestored, HasFetched, Inside, Exists
  <2>2. CASE q # r
    <3>1. pc[q] \notin Inside /\ pc'[q] = pc[q] /\ wants'[q] = wants[q] /\ DownloadKnows(q)
      BY <1>1, <1>2, <1>3, <2>2, HolderIsAlone DEF CacheInv, CacheTypeOK
    <3>2. q \in evicted => q \in evicted'
      BY <1>1
    <3>3. pc[q] = "opening" => Named(files', wants[q]) # {} \/ q \in evicted'
      BY <1>1
    <3> QED
      BY <1>1, <3>1, <3>2, <3>3, Bystander
  <2> QED
    BY <2>1, <2>2
<1> QED
  BY <1>5, <1>6, <1>7, <1>8 DEF CacheInv

(* The file is opened and the answer sent, outside the mutex.               *)
LEMMA AnswerKeeps ==
  ASSUME CacheInv, NEW r \in Requests, OpenFile(r) \/ Answered(r) PROVE CacheInv'
<1>1. /\ pc[r] \notin Inside
      /\ UNCHANGED <<restores, rows, cachePath, renumbered, files, cacheMu, wants, fetched, evicting>>
  BY DEF cacheBounds, OpenFile, Answered, store, Inside
<1>2. \/ /\ pc[r] = "opening" /\ Exists(wants[r]) /\ pc' = [pc EXCEPT ![r] = "served"]
         /\ evicted' = evicted
      \/ /\ pc[r] = "opening" /\ ~Exists(wants[r]) /\ pc' = [pc EXCEPT ![r] = "missing"]
         /\ evicted' = evicted
      \/ pc' = [pc EXCEPT ![r] = "idle"] /\ evicted' = evicted \ {r}
  BY DEF cacheBounds, OpenFile, Answered, To
<1>3. CacheTypeOK'
  BY <1>1, <1>2 DEF CacheInv, CacheTypeOK, Inside
<1>4. RowsKnown' /\ OnePath' /\ AllRight'
  BY <1>1 DEF CacheInv, RowsKnown, Unrestored, RowsNameTheirFiles, Exists, Named, OnePath,
     PathOnce, AllRight
<1>5. ASSUME NEW q \in Requests PROVE DownloadKnows(q)'
  <2>1. CASE q = r
    BY <1>1, <1>2, <2>1 DEF CacheInv, CacheTypeOK, DownloadKnows, RowKnows, Unrestored, HasFetched,
       Inside
  <2>2. CASE q # r
    BY <1>1, <1>2, <2>2 DEF CacheInv, CacheTypeOK, DownloadKnows, RowKnows, Unrestored, Exists,
       Fits, Cleared
  <2> QED
    BY <2>1, <2>2
<1> QED
  BY <1>3, <1>4, <1>5 DEF CacheInv

(* The mailbox is rebuilt, a row goes: rows only become fewer.              *)
LEMMA RowsKeep ==
  ASSUME CacheInv, Renumber \/ \E a \in Attachments : DropRow(a) PROVE CacheInv'
<1>1. /\ cachePath' \subseteq cachePath /\ rows' \subseteq rows /\ renumbered' \in BOOLEAN
      /\ cachePath' \subseteq rows'
      /\ UNCHANGED <<restores, files, cacheMu, pc, wants, fetched, evicting, evicted>>
  BY DEF cacheBounds, Renumber, DropRow, CacheInv, CacheTypeOK
<1>2. CacheTypeOK'
  BY <1>1 DEF CacheInv, CacheTypeOK
<1>3. RowsKnown' /\ OnePath' /\ AllRight'
  BY <1>1 DEF CacheInv, RowsKnown, Unrestored, RowsNameTheirFiles, Exists, Named, OnePath,
     PathOnce, AllRight
<1>4. ASSUME NEW q \in Requests PROVE DownloadKnows(q)'
  BY <1>1 DEF CacheInv, DownloadKnows, RowKnows, Unrestored, Exists, Fits, Cleared
<1> QED
  BY <1>2, <1>3, <1>4 DEF CacheInv

(* The service stops: nobody is inside; the directory is as it was.         *)
LEMMA StopCacheKeeps == ASSUME CacheInv, StopCache PROVE CacheInv'
<1>1. /\ UNCHANGED <<restores, rows, cachePath, renumbered, files, wants, fetched>>
      /\ pc' = [r \in Requests |-> "idle"] /\ cacheMu' = Free /\ evicting' = <<>> /\ evicted' = {}
  BY DEF cacheBounds, StopCache, Stopped, store
<1>2. CacheTypeOK'
  <2>1. evicting' \in Seq(CacheFiles)
    BY <1>1, EmptySeq
  <2> QED
    BY <1>1, <2>1, RequestsAssumption DEF CacheInv, CacheTypeOK, Inside, CacheFiles
<1>3. RowsKnown' /\ OnePath' /\ AllRight'
  BY <1>1 DEF CacheInv, RowsKnown, Unrestored, RowsNameTheirFiles, Exists, Named, OnePath,
     PathOnce, AllRight
<1>4. ASSUME NEW q \in Requests PROVE DownloadKnows(q)'
  BY <1>1 DEF DownloadKnows, RowKnows, Unrestored, HasFetched, Inside
<1> QED
  BY <1>2, <1>3, <1>4 DEF CacheInv

(* Every step of the cache.                                                 *)
LEMMA CacheStep == ASSUME CacheInv, [CacheNext]_cacheVars PROVE CacheInv'
<1>1. CASE UNCHANGED cacheVars
  <2>1. UNCHANGED <<restores, rows, cachePath, renumbered, files, cacheMu, pc, wants, fetched, evicting, evicted>>
    BY <1>1 DEF cacheVars, store, cacheBounds
  <2>2. CacheTypeOK'
    BY <2>1 DEF CacheInv, CacheTypeOK
  <2>3. RowsKnown' /\ OnePath' /\ AllRight'
    BY <2>1 DEF CacheInv, RowsKnown, Unrestored, RowsNameTheirFiles, Exists, Named, OnePath,
       PathOnce, AllRight
  <2>4. ASSUME NEW q \in Requests PROVE DownloadKnows(q)'
    BY <2>1 DEF CacheInv, DownloadKnows, RowKnows, Unrestored, Exists, Fits, Cleared
  <2> QED
    BY <2>2, <2>3, <2>4 DEF CacheInv
<1>2. ASSUME NEW r \in Requests, Download(r) PROVE CacheInv'
  BY <1>2, LockKeeps, DownloadKeeps, MakeRoomKeeps, ClearRowKeeps, RemoveOldestKeeps, WriteTempKeeps,
     RenameKeeps, RecordKeeps, AnswerKeeps DEF Download
<1>3. CASE CacheNext
  BY <1>2, <1>3, RequestKeeps, RowsKeep, StopCacheKeeps DEF CacheNext
<1> QED
  BY <1>1, <1>3

(* Nothing but a restore is one.                                            *)
LEMMA NothingRestored == ASSUME Unrestored, [CacheNext]_cacheVars PROVE Unrestored'
<1>1. ASSUME NEW r \in Requests, Download(r) PROVE UNCHANGED restores
  BY <1>1 DEF Download, Lock, FetchPart, MakeRoom, ClearRow, RemoveOldest, WriteTemp, Rename,
     Record,
     OpenFile, Answered, cacheBounds
<1>2. ASSUME NEW r \in Requests, NEW a \in Attachments, Request(r, a) PROVE UNCHANGED restores
  BY <1>2 DEF Request
<1>3. CASE Renumber \/ StopCache \/ \E a \in Attachments : DropRow(a)
  BY <1>3 DEF Renumber, StopCache, DropRow, cacheBounds, Unrestored
<1> QED
  BY <1>1, <1>2, <1>3 DEF CacheNext, cacheVars, cacheBounds, Unrestored

(* What the run checks, from the invariant.                                 *)
LEMMA CacheInvSuffices == CacheInv => CacheFits /\ ServedIsRight /\ (Unrestored => CacheIsSound)
<1> SUFFICES ASSUME CacheInv PROVE CacheFits /\ ServedIsRight /\ (Unrestored => CacheIsSound)
  OBVIOUS
<1>1. CacheFits
  BY DEF CacheInv, CacheFits, DownloadKnows
<1>2. ServedIsRight
  BY DEF CacheInv, AllRight, ServedIsRight, Named
<1>3. Unrestored => DownloadsFindTheirFile /\ RowsNameTheirFiles
  BY DEF CacheInv, DownloadKnows, RowKnows, RowsKnown, DownloadsFindTheirFile
<1> QED
  BY <1>1, <1>2, <1>3 DEF CacheIsSound

(* A restore empties the directory under rows that name files of it; what   *)
(* is in the directory, and who is inside, is as after a start.             *)
LEMMA RestoreKeeps == ASSUME CacheInv, Restore PROVE CacheInv'
<1>1. /\ UNCHANGED <<rows, cachePath, renumbered, wants, fetched>> /\ files' = <<>>
      /\ pc' = [r \in Requests |-> "idle"] /\ cacheMu' = Free /\ evicting' = <<>> /\ evicted' = {}
  BY DEF Restore, Stopped, store
<1>2. <<>> \in Seq(CacheFiles) /\ DOMAIN <<>> = {}
  BY EmptySeq
<1>3. CacheTypeOK'
  BY <1>1, <1>2, RequestsAssumption DEF CacheInv, CacheTypeOK, Inside, CacheFiles
<1>4. ~Unrestored'
  BY DEF Restore, Unrestored, CacheInv, RowsKnown
<1>5. RowsKnown' /\ OnePath' /\ AllRight'
  BY <1>1, <1>2, <1>4 DEF Restore, CacheInv, RowsKnown, OnePath, PathOnce, AllRight
<1>6. ASSUME NEW q \in Requests PROVE DownloadKnows(q)'
  BY <1>1, <1>4 DEF DownloadKnows, HasFetched
<1> QED
  BY <1>3, <1>5, <1>6 DEF CacheInv

(* No row of the cache names a file that is gone, a new file leaves the     *)
(* directory within its quota, what is served is the attachment's own       *)
(* content, and a download finds its file unless the file was evicted after *)
(* it was given the path (attachments.go:59-203, mail_handlers.go:124-134). *)
THEOREM CacheStaysSound == CacheSpec => []CacheIsSound
<1>1. CacheSpec => [](CacheInv /\ Unrestored)
  <2>1. CacheInit => Unrestored
    BY DEF CacheInit, Unrestored
  <2> QED
    BY <2>1, CacheStarts, CacheStep, NothingRestored, PTL DEF CacheSpec
<1> QED
  BY <1>1, CacheInvSuffices, PTL

(* Whenever the database is restored without its cache                      *)
(* (docs/operations.md:63), the directory keeps to the quota and what is    *)
(* served is right: all that a restore breaks is that rows name files that  *)
(* are gone.                                                                *)
THEOREM RestoredCacheServesRight == CacheRestoreSpec => [](CacheFits /\ ServedIsRight)
<1>1. CacheRestoreSpec => []CacheInv
  <2>1. CacheInv /\ [CacheNext \/ Restore]_cacheVars => CacheInv'
    BY CacheStep, RestoreKeeps
  <2> QED
    BY <2>1, CacheStarts, PTL DEF CacheRestoreSpec
<1> QED
  BY <1>1, CacheInvSuffices, PTL

(* Rows, files and requests are of the kinds the handlers know              *)
(* (attachments.go:59-203).                                                 *)
THEOREM CacheTypes == CacheSpec => []CacheTypeOK
<1>1. CacheSpec => []CacheInv
  BY CacheStarts, CacheStep, PTL DEF CacheSpec
<1>2. CacheInv => CacheTypeOK
  BY DEF CacheInv
<1> QED
  BY <1>1, <1>2, PTL

-----------------------------------------------------------------------------
(* The event hub.                                                           *)
(* Messages: events and resync.                                             *)
Messages == [id : Nat \X Nat, topic : Topics \cup {"resync_required"}]
HubKinds ==
  /\ version \in [Topics -> 0..MaxChanges] /\ unpublished \subseteq Topics
  /\ boot \in 1..MaxBoots /\ sequence \in Nat /\ changes \in 0..MaxChanges /\ drops \in 0..MaxDrops
  /\ sequence + Cardinality(unpublished) <= changes /\ \A t \in Topics : version[t] <= changes
  /\ ring \in Seq(Messages) /\ Len(ring) <= RingCapacity
  /\ stream \in [Browsers -> {"none", "live", "closed"}]
  /\ source \in [Browsers -> {"connecting", "open"}]
  /\ replay \in [Browsers -> Seq(Messages)] /\ channel \in [Browsers -> Seq(Messages)]
  /\ lastId \in [Browsers -> Nat \X (0..MaxChanges)] /\ rebuilt \in [Browsers -> BOOLEAN]
  /\ view \in [Browsers -> [Topics -> 0..MaxChanges]]
  /\ stale \in [Browsers -> SUBSET Topics] /\ missed \in [Browsers -> SUBSET Topics]
  /\ \A b \in Browsers : Len(replay[b]) <= RingCapacity /\ Len(channel[b]) <= ChannelCapacity

(* The ring holds the events numbered Base + 1 to sequence of this boot.    *)
Base == sequence - Len(ring)
Numbers == (Base + 1)..sequence
EventAt(n) == ring[n - Base]
RingInv ==
  Base \in Nat /\ \A n \in Numbers : EventAt(n).id = <<boot, n>> /\ EventAt(n).topic \in Topics

(* A message that is an event of this boot; if the ring still has its       *)
(* number, it is the event there.                                           *)
IsEvent(e) ==
  /\ e.id[1] = boot /\ e.id[2] \in 1..sequence /\ e.topic \in Topics
  /\ e.id[2] > Base => EventAt(e.id[2]) = e
Rising(s) == \A i, j \in DOMAIN s : i < j => s[i].id[2] < s[j].id[2]
AllEvents(s) == \A i \in DOMAIN s : IsEvent(s[i])
StreamInv(b) ==
  /\ AllEvents(channel[b])
  /\ replay[b] = <<Resync>> \/ AllEvents(replay[b])
  /\ Rising(channel[b]) /\ Rising(replay[b])
  /\ \A i \in DOMAIN replay[b], j \in DOMAIN channel[b] : replay[b][i].id[2] < channel[b][j].id[2]
  /\ stream[b] = "none" => replay[b] = <<>> /\ channel[b] = <<>>
  /\ stream[b] = "closed" => channel[b] # <<>> \/ replay[b] = <<>>
PageInv(b) ==
  /\ lastId[b][1] <= boot /\ (lastId[b][1] = boot => lastId[b][2] \in 1..sequence)
  /\ rebuilt[b] => source[b] = "connecting"

(* A topic a page shows an old version of and will not refetch by itself;   *)
(* what a stream opened after an id brings; what an open one still brings.  *)
IsBehind(b, t) ==
  t \in Topics \ (stale[b] \cup unpublished \cup missed[b]) /\ view[b][t] # version[t]
Regained(id, t) ==
  id[1] # boot \/ id[2] <= Base \/ \E n \in Numbers : n > id[2] /\ EventAt(n).topic = t
ToldBy(s, t) == \E i \in DOMAIN s : t \in Invalidated(s[i])
Told(b, t) == ToldBy(replay[b], t) \/ ToldBy(channel[b], t)
LastHeard(b) == IF channel[b] = <<>> THEN lastId[b] ELSE channel[b][Len(channel[b])].id
ViewInv(b) ==
  ~rebuilt[b] => \A t \in Topics : IsBehind(b, t) =>
    /\ Regained(lastId[b], t)
    /\ stream[b] = "live" => Told(b, t)
    /\ stream[b] = "closed" => Told(b, t) \/ Regained(LastHeard(b), t)
BrowserInv(b) == StreamInv(b) /\ PageInv(b) /\ ViewInv(b)
HubInv == HubKinds /\ RingInv /\ \A b \in Browsers : BrowserInv(b)

(* An event for a commit each: numbers stay within the commits.             *)
LEMMA SequenceIsBounded == HubKinds => sequence \in 0..MaxChanges /\ sequence <= changes
<1> SUFFICES ASSUME HubKinds PROVE sequence \in 0..MaxChanges /\ sequence <= changes
  OBVIOUS
<1>1. Cardinality(unpublished) \in Nat
  BY HubAssumption, FS_Subset, FS_CardinalityType DEF HubKinds
<1> QED
  BY <1>1, HubAssumption DEF HubKinds

(* Every page has its first refetch before it.                              *)
LEMMA HubStarts == HubInit => HubInv
<1> SUFFICES ASSUME HubInit PROVE HubInv
  OBVIOUS
<1>1. <<>> \in Seq(Messages) /\ Len(<<>>) = 0 /\ DOMAIN <<>> = {}
  BY EmptySeq, LenProperties
<1>2. HubKinds
  <2>1. Cardinality({}) = 0
    BY FS_EmptySet
  <2> QED
    BY <1>1, <2>1, HubAssumption DEF HubInit, HubKinds, NoId
<1>3. RingInv
  BY <1>1 DEF HubInit, RingInv, Base, Numbers
<1>4. ASSUME NEW b \in Browsers PROVE BrowserInv(b)
  <2>1. StreamInv(b)
    BY <1>1 DEF HubInit, StreamInv, AllEvents, Rising
  <2>2. PageInv(b)
    BY DEF HubInit, PageInv, NoId
  <2>3. ViewInv(b)
    BY DEF HubInit, ViewInv, IsBehind
  <2> QED
    BY <2>1, <2>2, <2>3 DEF BrowserInv
<1> QED
  BY <1>2, <1>3, <1>4 DEF HubInv

(* A browser whose own state stays, while the service's stays too.          *)
LEMMA BrowserStays ==
  ASSUME NEW b \in Browsers, BrowserInv(b),
         UNCHANGED <<version, unpublished, boot, sequence, ring>>,
         stream'[b] = stream[b], replay'[b] = replay[b], channel'[b] = channel[b],
         source'[b] = source[b], lastId'[b] = lastId[b], rebuilt'[b] = rebuilt[b],
         stale'[b] = stale[b], view'[b] = view[b], missed'[b] = missed[b]
  PROVE  BrowserInv(b)'
<1>1. StreamInv(b)'
  BY DEF BrowserInv, StreamInv, AllEvents, IsEvent, EventAt, Base, Rising
<1>2. PageInv(b)'
  BY DEF BrowserInv, PageInv
<1>3. ViewInv(b)'
  BY DEF BrowserInv, ViewInv, IsBehind, Regained, Told, LastHeard, Numbers, EventAt, Base, ToldBy
<1> QED
  BY <1>1, <1>2, <1>3 DEF BrowserInv

(* Steps that publish nothing leave the ring alone.                         *)
LEMMA RingStays == ASSUME RingInv, UNCHANGED <<boot, sequence, ring>> PROVE RingInv'
BY DEF RingInv, Base, Numbers, EventAt

(* A commit makes nobody wrong before its event is published.               *)
LEMMA CommitKeeps == ASSUME HubInv, NEW c \in Topics, Commit(c) PROVE HubInv'
<1>1. /\ c \notin unpublished /\ changes < MaxChanges /\ changes' = changes + 1
      /\ version' = [version EXCEPT ![c] = @ + 1] /\ unpublished' = unpublished \cup {c}
      /\ UNCHANGED <<boot, sequence, ring, stream, replay, channel, source, lastId, rebuilt, stale,
                     view, missed, drops>>
  BY DEF Commit, streams, pages
<1>2. HubKinds'
  <2>1. Cardinality(unpublished \cup {c}) = Cardinality(unpublished) + 1 /\ Cardinality(unpublished) \in Nat
    <3>1. IsFiniteSet(unpublished)
      BY HubAssumption, FS_Subset DEF HubInv, HubKinds
    <3> QED
      BY <1>1, <3>1, FS_AddElement, FS_CardinalityType
  <2>2. MaxChanges \in Nat
    BY HubAssumption
  <2>3. version' \in [Topics -> 0..MaxChanges] /\ \A t \in Topics : version'[t] <= changes'
    BY <1>1, <2>2 DEF HubInv, HubKinds
  <2>4. changes' \in 0..MaxChanges /\ sequence' + Cardinality(unpublished') <= changes'
    BY <1>1, <2>1, <2>2 DEF HubInv, HubKinds
  <2> QED
    BY <1>1, <2>3, <2>4 DEF HubInv, HubKinds
<1>3. RingInv'
  BY <1>1, RingStays DEF HubInv
<1>4. ASSUME NEW b \in Browsers PROVE BrowserInv(b)'
  <2>1. StreamInv(b)'
    BY <1>1 DEF HubInv, BrowserInv, StreamInv, AllEvents, IsEvent, EventAt, Base, Rising
  <2>2. PageInv(b)'
    BY <1>1 DEF HubInv, BrowserInv, PageInv
  <2>3. ASSUME NEW t \in Topics, IsBehind(b, t)' PROVE IsBehind(b, t)
    BY <1>1, <2>3 DEF HubInv, HubKinds, IsBehind
  <2>4. ViewInv(b)'
    BY <1>1, <2>3 DEF HubInv, BrowserInv, ViewInv, Regained, Told, LastHeard, Numbers, EventAt, Base,
       ToldBy
  <2> QED
    BY <2>1, <2>2, <2>4 DEF BrowserInv
<1> QED
  BY <1>2, <1>3, <1>4 DEF HubInv

(* Fetch, onopen and the end of a stream: of one browser.                   *)
LEMMA RefetchKeeps == ASSUME HubInv, NEW b \in Browsers, Fetch(b) PROVE HubInv'
<1>1. /\ stale' = [stale EXCEPT ![b] = {}]
      /\ view' = [view EXCEPT ![b] = [t \in Topics |-> IF t \in stale[b] THEN version[t] ELSE view[b][t]]]
      /\ missed' = [missed EXCEPT ![b] = missed[b] \ stale[b]]
      /\ UNCHANGED <<version, unpublished, boot, sequence, ring, changes, stream, replay, channel,
                     source, lastId, rebuilt, drops>>
  BY DEF Fetch, server, streams
<1>2. HubKinds'
  <2>1. view' \in [Browsers -> [Topics -> 0..MaxChanges]]
    BY <1>1 DEF HubInv, HubKinds
  <2> QED
    BY <1>1, <2>1 DEF HubInv, HubKinds
<1>3. RingInv'
  BY <1>1, RingStays DEF HubInv
<1>4. ASSUME NEW q \in Browsers PROVE BrowserInv(q)'
  <2>1. CASE q = b
    <3>1. StreamInv(q)'
      BY <1>1 DEF HubInv, BrowserInv, StreamInv, AllEvents, IsEvent, EventAt, Base, Rising
    <3>2. PageInv(q)'
      BY <1>1 DEF HubInv, BrowserInv, PageInv
    <3>3. ASSUME NEW t \in Topics, IsBehind(q, t)' PROVE IsBehind(q, t)
      BY <1>1, <2>1, <3>3 DEF HubInv, HubKinds, IsBehind
    <3>4. ViewInv(q)'
      BY <1>1, <3>3 DEF HubInv, BrowserInv, ViewInv, Regained, Told, LastHeard, Numbers, EventAt, Base,
         ToldBy
    <3> QED
      BY <3>1, <3>2, <3>4 DEF BrowserInv
  <2>2. CASE q # b
    BY <1>1, <2>2, BrowserStays DEF HubInv, HubKinds
  <2> QED
    BY <2>1, <2>2
<1> QED
  BY <1>2, <1>3, <1>4 DEF HubInv

(* What a failed refetch leaves behind is `missed`.                         *)
LEMMA FailedFetchKeeps == ASSUME HubInv, NEW b \in Browsers, FetchFails(b) PROVE HubInv'
<1>1. /\ stale' = [stale EXCEPT ![b] = {}] /\ missed' = [missed EXCEPT ![b] = missed[b] \cup stale[b]]
      /\ drops < MaxDrops /\ drops' = drops + 1
      /\ UNCHANGED <<version, unpublished, boot, sequence, ring, changes, stream, replay, channel,
                     source, lastId, rebuilt, view>>
  BY DEF FetchFails, server, streams
<1>2. HubKinds'
  <2>1. drops' \in 0..MaxDrops
    BY <1>1, HubAssumption DEF HubInv, HubKinds
  <2> QED
    BY <1>1, <2>1 DEF HubInv, HubKinds
<1>3. RingInv'
  BY <1>1, RingStays DEF HubInv
<1>4. ASSUME NEW q \in Browsers PROVE BrowserInv(q)'
  <2>1. CASE q = b
    <3>1. StreamInv(q)'
      BY <1>1 DEF HubInv, BrowserInv, StreamInv, AllEvents, IsEvent, EventAt, Base, Rising
    <3>2. PageInv(q)'
      BY <1>1 DEF HubInv, BrowserInv, PageInv
    <3>3. ASSUME NEW t \in Topics, IsBehind(q, t)' PROVE IsBehind(q, t)
      BY <1>1, <2>1, <3>3 DEF HubInv, HubKinds, IsBehind
    <3>4. ViewInv(q)'
      BY <1>1, <3>3 DEF HubInv, BrowserInv, ViewInv, Regained, Told, LastHeard, Numbers, EventAt, Base,
         ToldBy
    <3> QED
      BY <3>1, <3>2, <3>4 DEF BrowserInv
  <2>2. CASE q # b
    BY <1>1, <2>2, BrowserStays DEF HubInv, HubKinds
  <2> QED
    BY <2>1, <2>2
<1> QED
  BY <1>2, <1>3, <1>4 DEF HubInv

(* A rebuilt page refetches everything, others what they know of.           *)
LEMMA OpenKeeps == ASSUME HubInv, NEW b \in Browsers, Open(b) PROVE HubInv'
<1>1. /\ source' = [source EXCEPT ![b] = "open"] /\ rebuilt' = [rebuilt EXCEPT ![b] = FALSE]
      /\ stale' = [stale EXCEPT ![b] = IF rebuilt[b] THEN Topics ELSE stale[b]]
      /\ UNCHANGED <<version, unpublished, boot, sequence, ring, changes, stream, replay, channel,
                     lastId, view, missed, drops>>
  BY DEF Open, Opened, server, streams
<1>2. HubKinds'
  BY <1>1 DEF HubInv, HubKinds
<1>3. RingInv'
  BY <1>1, RingStays DEF HubInv
<1>4. ASSUME NEW q \in Browsers PROVE BrowserInv(q)'
  <2>1. CASE q = b
    <3>1. StreamInv(q)'
      BY <1>1 DEF HubInv, BrowserInv, StreamInv, AllEvents, IsEvent, EventAt, Base, Rising
    <3>2. PageInv(q)'
      BY <1>1, <2>1 DEF HubInv, HubKinds, BrowserInv, PageInv
    <3>3. ASSUME NEW t \in Topics, IsBehind(q, t)' PROVE ~rebuilt[q] /\ IsBehind(q, t)
      BY <1>1, <2>1, <3>3 DEF HubInv, HubKinds, IsBehind
    <3>4. ViewInv(q)'
      BY <1>1, <3>3 DEF HubInv, BrowserInv, ViewInv, Regained, Told, LastHeard, Numbers, EventAt, Base,
         ToldBy
    <3> QED
      BY <3>1, <3>2, <3>4 DEF BrowserInv
  <2>2. CASE q # b
    BY <1>1, <2>2, BrowserStays DEF HubInv, HubKinds
  <2> QED
    BY <2>1, <2>2
<1> QED
  BY <1>2, <1>3, <1>4 DEF HubInv

(* A stream ends, breaks, or is given up: what its page can regain by its   *)
(* last id it still can, and a rebuilt page refetches everything.           *)
LEMMA StreamGoes ==
  ASSUME HubInv, NEW b \in Browsers,
         stream' = [stream EXCEPT ![b] = "none"], replay' = [replay EXCEPT ![b] = <<>>],
         channel' = [channel EXCEPT ![b] = <<>>],
         source' = [source EXCEPT ![b] = "connecting"] \/ (source[b] = "open" /\ source' = source),
         \/ UNCHANGED <<lastId, rebuilt>>
         \/ /\ lastId' = [lastId EXCEPT ![b] = NoId] /\ rebuilt' = [rebuilt EXCEPT ![b] = TRUE]
            /\ source' = [source EXCEPT ![b] = "connecting"],
         UNCHANGED <<version, unpublished, boot, sequence, ring, changes, stale, view, missed>>,
         drops' \in 0..MaxDrops
  PROVE  HubInv'
<1>1. HubKinds'
  <2>1. <<>> \in Seq(Messages) /\ Len(<<>>) = 0
    BY EmptySeq
  <2>2. NoId \in Nat \X (0..MaxChanges)
    BY HubAssumption DEF NoId
  <2>3. RingCapacity \in Nat /\ ChannelCapacity \in Nat
    BY HubAssumption
  <2>4. /\ stream' \in [Browsers -> {"none", "live", "closed"}]
        /\ replay' \in [Browsers -> Seq(Messages)] /\ channel' \in [Browsers -> Seq(Messages)]
    BY <2>1 DEF HubInv, HubKinds
  <2>5. ASSUME NEW q \in Browsers
        PROVE  Len(replay'[q]) <= RingCapacity /\ Len(channel'[q]) <= ChannelCapacity
    <3>1. replay'[q] \in {<<>>, replay[q]} /\ channel'[q] \in {<<>>, channel[q]}
      BY DEF HubInv, HubKinds
    <3> QED
      BY <2>1, <2>3, <3>1 DEF HubInv, HubKinds
  <2>6. source' \in [Browsers -> {"connecting", "open"}]
    BY DEF HubInv, HubKinds
  <2>7. lastId' \in [Browsers -> Nat \X (0..MaxChanges)]
    <3>1. lastId' = lastId \/ lastId' = [lastId EXCEPT ![b] = NoId]
      OBVIOUS
    <3> QED
      BY <2>2, <3>1 DEF HubInv, HubKinds
  <2>8. rebuilt' \in [Browsers -> BOOLEAN]
    BY DEF HubInv, HubKinds
  <2> QED
    BY <2>4, <2>5, <2>6, <2>7, <2>8 DEF HubInv, HubKinds
<1>2. RingInv'
  BY RingStays DEF HubInv
<1>3. ASSUME NEW q \in Browsers PROVE BrowserInv(q)'
  <2>1. CASE q = b
    <3>1. stream'[q] = "none" /\ replay'[q] = <<>> /\ channel'[q] = <<>>
      BY <2>1 DEF HubInv, HubKinds
    <3>2. StreamInv(q)'
      <4>1. DOMAIN <<>> = {}
        BY EmptySeq, LenProperties
      <4> QED
        BY <3>1, <4>1 DEF StreamInv, AllEvents, Rising
    <3>3. PageInv(q)'
      BY <2>1 DEF HubInv, HubKinds, BrowserInv, PageInv, NoId
    <3>4. \A t \in Topics : IsBehind(q, t)' => IsBehind(q, t)
      BY DEF IsBehind
    <3>6. rebuilt'[q] \/ (~rebuilt[q] /\ lastId'[q] = lastId[q])
      BY <2>1 DEF HubInv, HubKinds
    <3>5. ViewInv(q)'
      BY <3>1, <3>4, <3>6 DEF HubInv, BrowserInv, ViewInv, Regained, Numbers, EventAt, Base
    <3> QED
      BY <3>2, <3>3, <3>5 DEF BrowserInv
  <2>2. CASE q # b
    BY <2>2, BrowserStays DEF HubInv, HubKinds
  <2> QED
    BY <2>1, <2>2
<1> QED
  BY <1>1, <1>2, <1>3 DEF HubInv

(* Drop, the end of a closed stream, the watchdog, a refused retry.         *)
LEMMA EndsKeep ==
  ASSUME HubInv, NEW b \in Browsers, StreamEnds(b) \/ StaleTimer(b) \/ Drop(b) \/ Refused(b)
  PROVE  HubInv'
<1>1. drops \in 0..MaxDrops /\ MaxDrops \in Nat
  BY HubAssumption DEF HubInv, HubKinds
<1>2. CASE StreamEnds(b)
  BY <1>1, <1>2, StreamGoes DEF StreamEnds, Unsubscribed, server
<1>3. CASE Drop(b)
  <2>1. drops' \in 0..MaxDrops
    BY <1>1, <1>3 DEF Drop, Dropped
  <2> QED
    BY <1>3, <2>1, StreamGoes DEF Drop, Unsubscribed, server, pages
<1>4. CASE StaleTimer(b) \/ Refused(b)
  <2>1. /\ stream[b] = "none" /\ UNCHANGED <<version, unpublished, boot, sequence, ring, changes,
                                            stream, replay, channel, stale, view, missed>>
        /\ source' = [source EXCEPT ![b] = "connecting"] /\ lastId' = [lastId EXCEPT ![b] = NoId]
        /\ rebuilt' = [rebuilt EXCEPT ![b] = TRUE]
    BY <1>4 DEF StaleTimer, Refused, Rebuild, server, streams
  <2>2. drops' \in 0..MaxDrops
    BY <1>1, <1>4 DEF StaleTimer, Refused, Dropped
  <2>3. replay[b] = <<>> /\ channel[b] = <<>>
    BY <2>1 DEF HubInv, BrowserInv, StreamInv
  <2>4. /\ stream' = [stream EXCEPT ![b] = "none"] /\ replay' = [replay EXCEPT ![b] = <<>>]
        /\ channel' = [channel EXCEPT ![b] = <<>>]
    BY <2>1, <2>3 DEF HubInv, HubKinds
  <2> QED
    BY <2>1, <2>2, <2>4, StreamGoes
<1> QED
  BY <1>2, <1>3, <1>4

(* The service restarts: the ids of earlier boots are found no more, so     *)
(* every page is told to refetch.                                           *)
LEMMA HubRestartKeeps == ASSUME HubInv, HubRestart PROVE HubInv'
<1>1. /\ boot < MaxBoots /\ boot' = boot + 1 /\ sequence' = 0 /\ ring' = <<>> /\ unpublished' = {}
      /\ stream' = [b \in Browsers |-> "none"] /\ replay' = [b \in Browsers |-> <<>>]
      /\ channel' = [b \in Browsers |-> <<>>]
      /\ \E aware \in SUBSET Browsers :
           source' = [b \in Browsers |-> IF b \in aware THEN "connecting" ELSE source[b]]
      /\ UNCHANGED <<version, changes, lastId, rebuilt, stale, view, missed, drops>>
  BY DEF HubRestart
<1>0. \A b \in Browsers : source'[b] \in {source[b], "connecting"}
  BY <1>1
<1>2. <<>> \in Seq(Messages) /\ Len(<<>>) = 0 /\ DOMAIN <<>> = {}
  BY EmptySeq, LenProperties
<1>3. HubKinds'
  <2>1. Cardinality({}) = 0
    BY FS_EmptySet
  <2> QED
    BY <1>1, <1>2, <2>1, HubAssumption DEF HubInv, HubKinds
<1>4. RingInv'
  BY <1>1, <1>2 DEF RingInv, Base, Numbers
<1>5. ASSUME NEW b \in Browsers PROVE BrowserInv(b)'
  <2>1. StreamInv(b)'
    BY <1>1, <1>2 DEF StreamInv, AllEvents, Rising
  <2>2. lastId[b][1] < boot'
    <3>1. lastId[b][1] \in Nat
      BY DEF HubInv, HubKinds
    <3> QED
      BY <1>1, <3>1 DEF HubInv, HubKinds, BrowserInv, PageInv
  <2>3. lastId[b][1] \in Nat /\ boot' \in Nat
    BY <1>1 DEF HubInv, HubKinds
  <2>4. PageInv(b)'
    BY <1>0, <1>1, <2>2, <2>3 DEF HubInv, BrowserInv, PageInv
  <2>5. ViewInv(b)'
    BY <1>1, <2>2, <2>3 DEF ViewInv, Regained
  <2> QED
    BY <2>1, <2>4, <2>5 DEF BrowserInv
<1> QED
  BY <1>3, <1>4, <1>5 DEF HubInv
-----------------------------------------------------------------------------
(* The ring loses its oldest event when it is full, and gets the new one.   *)
LEMMA KeptIs ==
  ASSUME NEW s \in Seq(Messages), NEW e \in Messages, Len(s) <= RingCapacity
  PROVE  \E k \in {0, 1} :
           LET kept == Kept(Append(s, e)) IN
           /\ kept \in Seq(Messages) /\ Len(kept) = Len(s) + 1 - k /\ Len(kept) <= RingCapacity
           /\ k <= Len(s)
           /\ \A i \in 1..Len(kept) : kept[i] = Append(s, e)[i + k]
<1> DEFINE all == Append(s, e)
           n == Len(s)
<1>1. /\ all \in Seq(Messages) /\ Len(all) = n + 1
      /\ n \in Nat /\ RingCapacity \in Nat \ {0} /\ n <= RingCapacity
  BY AppendProperties, LenProperties, HubAssumption
<1>2. \A i \in 1..(n + 1) : all[i] \in Messages
  BY <1>1, ElementOfSeq
<1> HIDE DEF all, n
<1>3. CASE n + 1 > RingCapacity
  <2>1. n = RingCapacity
    BY <1>1, <1>3
  <2>2. Kept(all) = SubSeq(all, 2, n + 1)
    <3>1. n + 1 - RingCapacity + 1 = 2
      BY <1>1, <2>1
    <3> QED
      BY <1>1, <1>3, <3>1 DEF Kept, Newest
  <2>3. /\ SubSeq(all, 2, n + 1) \in Seq(Messages)
        /\ Len(SubSeq(all, 2, n + 1)) = n
        /\ \A i \in 1..n : SubSeq(all, 2, n + 1)[i] = all[i + 1]
    <3> DEFINE t == SubSeq(all, 2, n + 1)
    <3>1. \A i \in 2..(n + 1) : all[i] \in Messages
      BY <1>1, <1>2
    <3>2. /\ t \in Seq(Messages) /\ Len(t) = IF 2 <= n + 1 THEN n + 1 - 2 + 1 ELSE 0
          /\ \A i \in 1..(n + 1 - 2 + 1) : t[i] = all[2 + i - 1]
      BY <1>1, <3>1, SubSeqProperties
    <3> HIDE DEF t
    <3>3. 2 <= n + 1 /\ n + 1 - 2 + 1 = n /\ \A i \in 1..n : 2 + i - 1 = i + 1
      BY <1>1, <2>1
    <3> QED
      BY <3>2, <3>3 DEF t
  <2> QED
    BY <1>1, <2>1, <2>2, <2>3 DEF all, n
<1>4. CASE n + 1 <= RingCapacity
  <2>1. Kept(all) = all
    BY <1>1, <1>4 DEF Kept
  <2>2. \A i \in 1..(n + 1) : i + 0 = i
    BY <1>1
  <2> QED
    BY <1>1, <1>4, <2>1, <2>2 DEF all, n
<1>5. n + 1 > RingCapacity \/ n + 1 <= RingCapacity
  BY <1>1
<1> QED
  BY <1>3, <1>4, <1>5, Zenon

(* By number: what is left keeps its number, the new event has the next.    *)
LEMMA RingMoves ==
  ASSUME HubKinds, RingInv, NEW c \in Topics, sequence' = sequence + 1, boot' = boot,
         NEW e, e = [id |-> <<boot, sequence + 1>>, topic |-> c],
         ring' = Kept(Append(ring, e))
  PROVE  /\ e \in Messages /\ ring' \in Seq(Messages) /\ Len(ring') <= RingCapacity
         /\ Base' \in Nat /\ Base <= Base' /\ Base' <= sequence
         /\ \A n \in Numbers : n > Base' => n \in Numbers' /\ ring'[n - Base'] = EventAt(n)
         /\ sequence + 1 \in Numbers' /\ ring'[sequence + 1 - Base'] = e
         /\ RingInv'
<1>1. /\ ring \in Seq(Messages) /\ Len(ring) \in Nat /\ Len(ring) <= RingCapacity /\ sequence \in Nat
      /\ boot \in Nat /\ Base \in Nat /\ DOMAIN ring = 1..Len(ring)
  BY LenProperties DEF HubKinds, RingInv
<1>2. e \in Messages
  BY <1>1 DEF Messages
<1>3. PICK k \in {0, 1} :
        /\ ring' \in Seq(Messages) /\ Len(ring') = Len(ring) + 1 - k /\ Len(ring') <= RingCapacity
        /\ k <= Len(ring)
        /\ \A i \in 1..Len(ring') : ring'[i] = Append(ring, e)[i + k]
  BY <1>1, <1>2, KeptIs
<1>4. Base' = Base + k /\ Base' \in Nat /\ Base <= Base' /\ Base' <= sequence
  <2>1. k \in Nat /\ Len(ring') = Len(ring) + 1 - k /\ k <= Len(ring)
    BY <1>3
  <2>2. Base' = (sequence + 1) - Len(ring') /\ Base = sequence - Len(ring)
    BY DEF Base
  <2> QED
    BY <1>1, <2>1, <2>2
<1>5. Appended(Append(ring, e), ring, e)
  BY <1>1, <1>2, AppendIs
<1>6. ASSUME NEW n \in Numbers, n > Base' PROVE n \in Numbers' /\ ring'[n - Base'] = EventAt(n)
  <2>1. n \in Int /\ n > Base' /\ n <= sequence
    BY <1>1, <1>6 DEF Numbers
  <2>2. n - Base' \in 1..Len(ring') /\ (n - Base') + k = n - Base /\ n - Base \in 1..Len(ring)
    <3>1. k \in Nat /\ Len(ring') = Len(ring) + 1 - k /\ Base' = Base + k /\ Base = sequence - Len(ring)
      BY <1>3, <1>4 DEF Base
    <3> QED
      BY <1>1, <2>1, <3>1
  <2>3. n \in Numbers'
    BY <1>1, <1>4, <2>1 DEF Numbers
  <2>4. ring'[n - Base'] = Append(ring, e)[n - Base]
    BY <1>3, <2>2
  <2>5. Append(ring, e)[n - Base] = ring[n - Base]
    BY <1>1, <1>5, <2>2 DEF Appended
  <2> QED
    BY <2>3, <2>4, <2>5 DEF EventAt
<1>7. sequence + 1 \in Numbers' /\ ring'[sequence + 1 - Base'] = e
  <2>1. sequence + 1 - Base' \in 1..Len(ring') /\ (sequence + 1 - Base') + k = Len(ring) + 1
    BY <1>1, <1>3, <1>4 DEF Base
  <2>2. sequence + 1 \in Numbers'
    BY <1>1, <1>4 DEF Numbers
  <2>3. ring'[sequence + 1 - Base'] = Append(ring, e)[Len(ring) + 1]
    BY <1>3, <2>1
  <2> QED
    BY <1>5, <2>2, <2>3 DEF Appended
<1>8. RingInv'
  <2>1. ASSUME NEW n \in Numbers'
        PROVE  ring'[n - Base'].id = <<boot, n>> /\ ring'[n - Base'].topic \in Topics
    <3>1. n \in Int /\ n > Base' /\ n <= sequence + 1
      BY <1>1, <1>4 DEF Numbers
    <3>2. CASE n = sequence + 1
      <4>1. e.id = <<boot, n>> /\ e.topic \in Topics
        BY <3>2
      <4>2. ring'[n - Base'] = e
        <5>1. n - Base' = sequence + 1 - Base'
          BY <1>1, <1>4, <3>1, <3>2
        <5> QED
          BY <1>7, <5>1, Zenon
      <4> QED
        BY <4>1, <4>2
    <3>3. CASE n # sequence + 1
      <4>1. n \in Numbers
        BY <1>1, <1>4, <3>1, <3>3 DEF Numbers
      <4> QED
        BY <1>6, <3>1, <4>1 DEF RingInv
    <3> QED
      BY <3>2, <3>3
  <2> QED
    BY <1>4, <2>1 DEF RingInv, EventAt
<1> QED
  BY <1>2, <1>3, <1>4, <1>6, <1>7, <1>8

(* What a browser could regain or hear of, it still can.                    *)
LEMMA EventsStay ==
  ASSUME Base \in Nat, Base' \in Nat, sequence \in Nat, sequence' = sequence + 1, boot' = boot,
         Base <= Base', \A n \in Numbers : n > Base' => n \in Numbers' /\ ring'[n - Base'] = EventAt(n)
  PROVE  /\ \A e \in Messages : IsEvent(e) =>
              /\ e.id[1] = boot' /\ e.id[2] \in 1..sequence' /\ e.topic \in Topics
              /\ e.id[2] > Base' => ring'[e.id[2] - Base'] = e
         /\ \A id \in Nat \X Nat : \A t \in Topics : Regained(id, t) => Regained(id, t)'
<1>1. ASSUME NEW e \in Messages, IsEvent(e)
      PROVE  /\ e.id[1] = boot' /\ e.id[2] \in 1..sequence' /\ e.topic \in Topics
             /\ e.id[2] > Base' => ring'[e.id[2] - Base'] = e
  <2>1. e.id[2] \in Nat /\ e.id[2] \in 1..sequence'
    BY <1>1 DEF IsEvent
  <2>2. ASSUME e.id[2] > Base' PROVE ring'[e.id[2] - Base'] = e
    <3>1. e.id[2] \in Numbers /\ e.id[2] > Base
      BY <1>1, <2>1, <2>2 DEF IsEvent, Numbers
    <3> QED
      BY <1>1, <2>2, <3>1 DEF IsEvent
  <2> QED
    BY <1>1, <2>1, <2>2 DEF IsEvent
<1>2. ASSUME NEW id \in Nat \X Nat, NEW t \in Topics, Regained(id, t) PROVE Regained(id, t)'
  <2>0. id[2] \in Nat
    OBVIOUS
  <2>1. CASE id[1] # boot \/ id[2] <= Base
    BY <2>0, <2>1 DEF Regained
  <2>2. CASE \E n \in Numbers : n > id[2] /\ EventAt(n).topic = t
    <3>1. PICK n \in Numbers : n > id[2] /\ EventAt(n).topic = t
      BY <2>2
    <3>2. n \in Int
      BY DEF Numbers
    <3>3. CASE n > Base'
      <4>1. n \in Numbers' /\ ring'[n - Base'].topic = t
        BY <3>1, <3>3
      <4> QED
        BY <3>1, <4>1 DEF Regained, EventAt
    <3>4. CASE ~(n > Base')
      BY <2>0, <3>1, <3>2, <3>4 DEF Regained
    <3> QED
      BY <3>3, <3>4
  <2> QED
    BY <1>2, <2>1, <2>2 DEF Regained
<1> QED
  BY <1>1, <1>2

(* The last id of a page, or of its stream, is one this boot has given.     *)
LEMMA HeardIs ==
  ASSUME HubInv, NEW b \in Browsers
  PROVE  /\ lastId[b] \in Nat \X Nat /\ (lastId[b][1] = boot => lastId[b][2] <= sequence)
         /\ LastHeard(b) \in Nat \X Nat /\ (LastHeard(b)[1] = boot => LastHeard(b)[2] <= sequence)
<1>1. /\ sequence \in Nat /\ lastId[b] \in Nat \X Nat /\ channel[b] \in Seq(Messages)
      /\ lastId[b][1] = boot => lastId[b][2] \in 1..sequence
  BY DEF HubInv, HubKinds, BrowserInv, PageInv
<1>2. lastId[b][1] = boot => lastId[b][2] <= sequence
  BY <1>1
<1>3. CASE channel[b] = <<>>
  BY <1>1, <1>2, <1>3 DEF LastHeard
<1>4. CASE channel[b] # <<>>
  <2> DEFINE e == channel[b][Len(channel[b])]
  <2>1. Len(channel[b]) \in DOMAIN channel[b]
    BY <1>1, <1>4, EmptySeq, LenProperties
  <2>2. e \in Messages
    BY <1>1, <2>1, ElementOfSeq, LenProperties
  <2>3. e.id[2] \in 1..sequence
    BY <2>1 DEF HubInv, BrowserInv, StreamInv, AllEvents, IsEvent
  <2>4. LastHeard(b) = e.id
    BY <1>4 DEF LastHeard
  <2> HIDE DEF e
  <2> QED
    BY <1>1, <1>2, <2>2, <2>3, <2>4 DEF Messages
<1> QED
  BY <1>3, <1>4

(* Publish keeps the ring and the channels within their capacities.         *)
LEMMA PublishKinds ==
  ASSUME HubInv, NEW c \in Topics, Publish(c), NEW e, e = [id |-> <<boot, sequence + 1>>, topic |-> c]
  PROVE  /\ HubKinds'
         /\ \A b \in Browsers :
              /\ ChannelCapacity \in Nat \ {0} /\ channel[b] \in Seq(Messages)
              /\ \/ /\ stream[b] = "live" /\ stream'[b] = "live" /\ channel'[b] = Append(channel[b], e)
                 \/ /\ stream[b] = "live" /\ stream'[b] = "closed" /\ channel'[b] = channel[b]
                    /\ channel[b] # <<>>
                 \/ stream[b] # "live" /\ stream'[b] = stream[b] /\ channel'[b] = channel[b]
<1>1. /\ c \in unpublished /\ unpublished' = unpublished \ {c}
      /\ sequence' = sequence + 1 /\ ring' = Kept(Append(ring, e))
      /\ channel' = [b \in Browsers |-> IF HasRoom(b) THEN Append(channel[b], e) ELSE channel[b]]
      /\ stream' = [b \in Browsers |-> IF stream[b] = "live" /\ ~HasRoom(b) THEN "closed" ELSE stream[b]]
      /\ UNCHANGED <<version, boot, changes, replay, source, lastId, rebuilt, stale, view, missed, drops>>
  BY DEF Publish, Offered, pages
<1>2. e \in Messages /\ ring' \in Seq(Messages) /\ Len(ring') <= RingCapacity
  BY <1>1, RingMoves DEF HubInv
<1>3. ASSUME NEW b \in Browsers
      PROVE  /\ ChannelCapacity \in Nat \ {0} /\ channel[b] \in Seq(Messages)
             /\ channel'[b] \in Seq(Messages) /\ Len(channel'[b]) <= ChannelCapacity
             /\ stream'[b] \in {"none", "live", "closed"}
             /\ \/ /\ stream[b] = "live" /\ stream'[b] = "live" /\ channel'[b] = Append(channel[b], e)
                \/ /\ stream[b] = "live" /\ stream'[b] = "closed" /\ channel'[b] = channel[b]
                   /\ channel[b] # <<>>
                \/ stream[b] # "live" /\ stream'[b] = stream[b] /\ channel'[b] = channel[b]
  <2>1. /\ channel[b] \in Seq(Messages) /\ Len(channel[b]) <= ChannelCapacity /\ Len(channel[b]) \in Nat
        /\ ChannelCapacity \in Nat \ {0} /\ stream[b] \in {"none", "live", "closed"}
    BY HubAssumption, LenProperties DEF HubInv, HubKinds
  <2>2. CASE HasRoom(b)
    <3>1. stream[b] = "live" /\ Len(channel[b]) < ChannelCapacity
      BY <2>2 DEF HasRoom
    <3>2. stream'[b] = "live" /\ channel'[b] = Append(channel[b], e)
      BY <1>1, <2>2, <3>1
    <3>3. Append(channel[b], e) \in Seq(Messages) /\ Len(Append(channel[b], e)) = Len(channel[b]) + 1
      BY <1>2, <2>1, AppendProperties
    <3> QED
      BY <2>1, <3>1, <3>2, <3>3
  <2>3. CASE ~HasRoom(b)
    <3>1. channel'[b] = channel[b]
      BY <1>1, <2>3
    <3>2. stream'[b] = IF stream[b] = "live" THEN "closed" ELSE stream[b]
      BY <1>1, <2>3
    <3>3. stream[b] = "live" => channel[b] # <<>>
      BY <2>1, <2>3, EmptySeq DEF HasRoom
    <3> QED
      BY <2>1, <3>1, <3>2, <3>3
  <2> QED
    BY <2>2, <2>3
<1>4. stream' \in [Browsers -> {"none", "live", "closed"}] /\ channel' \in [Browsers -> Seq(Messages)]
  BY <1>1, <1>3
<1>5. sequence' \in Nat /\ sequence' + Cardinality(unpublished') <= changes'
  <2>1. IsFiniteSet(unpublished)
    BY HubAssumption, FS_Subset DEF HubInv, HubKinds
  <2>2. Cardinality(unpublished \ {c}) = Cardinality(unpublished) - 1 /\ Cardinality(unpublished) \in Nat
    BY <1>1, <2>1, FS_RemoveElement, FS_CardinalityType
  <2> QED
    BY <1>1, <2>2 DEF HubInv, HubKinds
<1>6. HubKinds'
  BY <1>1, <1>2, <1>3, <1>4, <1>5 DEF HubInv, HubKinds
<1> QED
  BY <1>3, <1>6

(* Publish: a page that falls behind by this commit is told by its stream,  *)
(* or can regain the event by its id; for the rest the number of events it  *)
(* could regain or hear only grows, or the ring has passed its id.          *)
LEMMA PublishKeeps == ASSUME HubInv, NEW c \in Topics, Publish(c) PROVE HubInv'
<1> DEFINE e == [id |-> <<boot, sequence + 1>>, topic |-> c]
<1>1. /\ unpublished' = unpublished \ {c} /\ sequence' = sequence + 1 /\ ring' = Kept(Append(ring, e))
      /\ UNCHANGED <<version, boot, replay, source, lastId, rebuilt, stale, view, missed>>
  BY DEF Publish, pages
<1>2. /\ HubKinds'
      /\ \A b \in Browsers :
           /\ ChannelCapacity \in Nat \ {0} /\ channel[b] \in Seq(Messages)
           /\ \/ /\ stream[b] = "live" /\ stream'[b] = "live" /\ channel'[b] = Append(channel[b], e)
              \/ /\ stream[b] = "live" /\ stream'[b] = "closed" /\ channel'[b] = channel[b]
                 /\ channel[b] # <<>>
              \/ stream[b] # "live" /\ stream'[b] = stream[b] /\ channel'[b] = channel[b]
  BY PublishKinds
<1>3. /\ e.id[1] = boot /\ e.id[2] = sequence + 1 /\ e.topic = c /\ e # Resync
      /\ sequence \in Nat /\ boot \in Nat \ {0} /\ Base \in Nat
  <2>1. sequence \in Nat /\ boot \in Nat \ {0} /\ Base \in Nat
    BY HubAssumption DEF HubInv, HubKinds, RingInv
  <2>2. e.id = <<boot, sequence + 1>> /\ Resync.id = <<0, 0>>
    BY DEF Resync, NoId
  <2> QED
    BY <2>1, <2>2
<1> HIDE DEF e
<1>4. /\ e \in Messages /\ Base' \in Nat /\ Base <= Base' /\ Base' <= sequence
      /\ \A n \in Numbers : n > Base' => n \in Numbers' /\ ring'[n - Base'] = EventAt(n)
      /\ sequence + 1 \in Numbers' /\ ring'[sequence + 1 - Base'] = e /\ RingInv'
  BY <1>1, RingMoves DEF HubInv, e
<1> DEFINE Stays(m) == /\ m.id[1] = boot' /\ m.id[2] \in 1..sequence' /\ m.topic \in Topics
                       /\ m.id[2] > Base' => ring'[m.id[2] - Base'] = m
<1>5. /\ \A m \in Messages : IsEvent(m) => Stays(m)
      /\ \A id \in Nat \X Nat : \A t \in Topics : Regained(id, t) => Regained(id, t)'
  BY <1>1, <1>3, <1>4, EventsStay
<1>6. Stays(e)
  BY <1>1, <1>3, <1>4
<1> HIDE DEF Stays
<1>11. ASSUME NEW b \in Browsers, \A i \in DOMAIN channel'[b] : Stays(channel'[b][i])
       PROVE  AllEvents(channel[b])'
  BY <1>11 DEF AllEvents, IsEvent, EventAt, Stays
<1>12. ASSUME NEW b \in Browsers, \A i \in DOMAIN replay'[b] : Stays(replay'[b][i])
       PROVE  AllEvents(replay[b])'
  BY <1>12 DEF AllEvents, IsEvent, EventAt, Stays
<1>7. \A id \in Nat \X Nat : (id[1] = boot => id[2] <= sequence) => Regained(id, c)'
  <2> SUFFICES ASSUME NEW id \in Nat \X Nat, id[1] = boot => id[2] <= sequence, id[1] = boot
               PROVE  sequence + 1 > id[2]
    BY <1>1, <1>3, <1>4 DEF Regained, EventAt
  <2> QED
    BY <1>3
<1>8. ASSUME NEW b \in Browsers PROVE StreamInv(b)'
  <2>1. /\ channel[b] \in Seq(Messages) /\ replay[b] \in Seq(Messages) /\ StreamInv(b)
        /\ DOMAIN channel[b] = 1..Len(channel[b]) /\ DOMAIN replay[b] = 1..Len(replay[b])
        /\ Len(channel[b]) \in Nat
    BY LenProperties DEF HubInv, HubKinds, BrowserInv
  <2>2. /\ \A i \in DOMAIN channel[b] : channel[b][i] \in Messages
        /\ \A i \in DOMAIN replay[b] : replay[b][i] \in Messages
    BY <2>1, ElementOfSeq
  <2>3. replay'[b] = <<Resync>> \/ AllEvents(replay[b])'
    <3> SUFFICES ASSUME AllEvents(replay[b]) PROVE AllEvents(replay[b])'
      BY <1>1, <2>1 DEF StreamInv
    <3> QED
      BY <1>1, <1>5, <1>12, <2>2 DEF AllEvents
  <2>4. CASE channel'[b] = channel[b]
    <3>1. AllEvents(channel[b])'
      BY <1>5, <1>11, <2>1, <2>2, <2>4 DEF StreamInv, AllEvents
    <3>2. (stream'[b] = "none" => stream[b] = "none")
          /\ (stream'[b] = "closed" => stream[b] = "closed" \/ channel[b] # <<>>)
      BY <1>2
    <3> QED
      BY <1>1, <2>1, <2>3, <2>4, <3>1, <3>2 DEF StreamInv, Rising
  <2>5. CASE stream'[b] = "live" /\ channel'[b] = Append(channel[b], e)
    <3>1. Appended(channel'[b], channel[b], e)
      BY <1>4, <2>1, <2>5, AppendIs
    <3>2. AllEvents(channel[b])'
      <4>1. \A i \in DOMAIN channel'[b] : Stays(channel'[b][i])
        BY <1>5, <1>6, <2>1, <2>2, <3>1 DEF StreamInv, AllEvents, Appended
      <4> QED
        BY <1>11, <4>1
    <3>3. /\ \A i \in DOMAIN channel[b] : channel[b][i].id[2] < sequence + 1
          /\ \A i \in DOMAIN replay[b] : replay[b][i].id[2] < sequence + 1
      <4>1. ASSUME NEW m \in Messages, IsEvent(m) PROVE m.id[2] < sequence + 1
        <5>1. m.id[2] \in 1..sequence
          BY <4>1 DEF IsEvent
        <5> QED
          BY <1>3, <5>1
      <4>2. Resync.id[2] < sequence + 1
        BY <1>3 DEF Resync, NoId
      <4>3. CASE replay[b] = <<Resync>>
        <5>1. \A i \in DOMAIN replay[b] : replay[b][i] = Resync
          BY <4>3
        <5> QED
          BY <2>1, <2>2, <4>1, <4>2, <5>1 DEF StreamInv, AllEvents
      <4>4. CASE AllEvents(replay[b])
        BY <2>1, <2>2, <4>1, <4>4 DEF StreamInv, AllEvents
      <4> QED
        BY <2>1, <4>3, <4>4 DEF StreamInv
    <3>4. Rising(channel'[b])
      <4> SUFFICES ASSUME NEW i \in DOMAIN channel'[b], NEW j \in DOMAIN channel'[b], i < j
                   PROVE  channel'[b][i].id[2] < channel'[b][j].id[2]
        BY DEF Rising
      <4>1. i \in DOMAIN channel[b] /\ channel'[b][i] = channel[b][i]
        <5>1. i # Len(channel[b]) + 1
          BY <2>1, <3>1 DEF Appended
        <5> QED
          BY <3>1, <5>1 DEF Appended
      <4>2. CASE j \in DOMAIN channel[b] /\ channel'[b][j] = channel[b][j]
        BY <2>1, <4>1, <4>2 DEF StreamInv, Rising
      <4>3. CASE channel'[b][j] = e
        BY <1>3, <3>3, <4>1, <4>3
      <4> QED
        BY <3>1, <4>2, <4>3 DEF Appended
    <3>5. ASSUME NEW i \in DOMAIN replay[b], NEW j \in DOMAIN channel'[b]
          PROVE  replay[b][i].id[2] < channel'[b][j].id[2]
      <4>1. CASE j \in DOMAIN channel[b] /\ channel'[b][j] = channel[b][j]
        BY <2>1, <4>1 DEF StreamInv
      <4>2. CASE channel'[b][j] = e
        BY <1>3, <3>3, <4>2
      <4> QED
        BY <3>1, <4>1, <4>2 DEF Appended
    <3>6. Rising(replay'[b])
      BY <1>1, <2>1 DEF StreamInv
    <3> QED
      BY <1>1, <2>3, <2>5, <3>2, <3>4, <3>5, <3>6 DEF StreamInv, Rising
  <2> QED
    BY <1>2, <2>4, <2>5
<1>9. ASSUME NEW b \in Browsers PROVE PageInv(b)'
  BY <1>1, <1>3 DEF HubInv, BrowserInv, PageInv
<1>10. ASSUME NEW b \in Browsers PROVE ViewInv(b)'
  <2> SUFFICES ASSUME ~rebuilt[b], NEW t \in Topics, IsBehind(b, t)'
               PROVE  /\ Regained(lastId[b], t)'
                      /\ stream'[b] = "live" => Told(b, t)'
                      /\ stream'[b] = "closed" => Told(b, t)' \/ Regained(LastHeard(b), t)'
    BY <1>1 DEF ViewInv
  <2>1. /\ lastId[b] \in Nat \X Nat /\ (lastId[b][1] = boot => lastId[b][2] <= sequence)
        /\ LastHeard(b) \in Nat \X Nat /\ (LastHeard(b)[1] = boot => LastHeard(b)[2] <= sequence)
    BY HeardIs
  <2>2. t # c => /\ Regained(lastId[b], t)
                 /\ stream[b] = "live" => Told(b, t)
                 /\ stream[b] = "closed" => Told(b, t) \/ Regained(LastHeard(b), t)
    BY <1>1 DEF HubInv, BrowserInv, ViewInv, IsBehind
  <2>3. Regained(lastId[b], t)'
    <3>1. \A id \in Nat \X Nat : id = lastId[b] => Regained(id, t)'
      BY <1>5, <1>7, <2>1, <2>2
    <3> QED
      BY <1>1, <2>1, <3>1
  <2>4. ASSUME stream'[b] = "live" PROVE Told(b, t)'
    <3>1. channel[b] \in Seq(Messages) /\ stream[b] = "live" /\ channel'[b] = Append(channel[b], e)
      BY <1>2, <2>4
    <3>2. Appended(channel'[b], channel[b], e)
      BY <1>4, <3>1, AppendIs
    <3>3. CASE t = c
      <4>1. Len(channel[b]) + 1 \in DOMAIN channel'[b] /\ channel'[b][Len(channel[b]) + 1] = e
        BY <3>2 DEF Appended
      <4>2. t \in Invalidated(e)
        BY <1>3, <3>3 DEF Invalidated
      <4> QED
        BY <4>1, <4>2 DEF Told, ToldBy
    <3>4. CASE t # c
      <4>1. ToldBy(replay[b], t) \/ ToldBy(channel[b], t)
        BY <2>2, <3>1, <3>4 DEF Told
      <4> QED
        BY <1>1, <3>2, <4>1 DEF Told, ToldBy, Appended
    <3> QED
      BY <3>3, <3>4
  <2>5. ASSUME stream'[b] = "closed" PROVE Told(b, t)' \/ Regained(LastHeard(b), t)'
    <3>1. channel'[b] = channel[b] /\ stream[b] \in {"live", "closed"}
      BY <1>2, <2>5
    <3>2. LastHeard(b)' = LastHeard(b)
      BY <1>1, <3>1 DEF LastHeard
    <3>3. Told(b, t) => Told(b, t)'
      BY <1>1, <3>1 DEF Told, ToldBy
    <3>4. t = c \/ Told(b, t) \/ Regained(LastHeard(b), t)
      BY <2>2, <3>1
    <3>5. \A id \in Nat \X Nat : id = LastHeard(b) => Regained(id, t)' \/ Told(b, t)'
      BY <1>5, <1>7, <2>1, <3>3, <3>4
    <3> QED
      BY <2>1, <3>2, <3>5
  <2> QED
    BY <1>1, <2>3, <2>4, <2>5
<1> QED
  BY <1>2, <1>4, <1>8, <1>9, <1>10 DEF HubInv, BrowserInv
-----------------------------------------------------------------------------
(* replayAfter: what the ring has after an id of this boot, in order.       *)
LEMMA AfterIs ==
  ASSUME HubKinds, RingInv, NEW id \in Nat \X Nat, Found(id) # {}
  PROVE  /\ id[1] = boot /\ id[2] \in Numbers
         /\ After(id) \in Seq(Messages) /\ Len(After(id)) <= RingCapacity
         /\ \A i \in DOMAIN After(id) :
              i \in Nat /\ id[2] + i \in Numbers /\ id[2] + i > id[2] /\ After(id)[i] = EventAt(id[2] + i)
         /\ \A n \in Numbers : n > id[2] => n - id[2] \in DOMAIN After(id) /\ After(id)[n - id[2]] = EventAt(n)
<1> DEFINE k == id[2] - Base
           L == Len(ring)
           a == SubSeq(ring, k + 1, L)
<1>1. /\ ring \in Seq(Messages) /\ L \in Nat /\ L <= RingCapacity /\ RingCapacity \in Nat
      /\ sequence \in Nat /\ Base \in Nat /\ DOMAIN ring = 1..L /\ id[2] \in Nat /\ L = sequence - Base
  <2>1. L \in Nat /\ sequence \in Nat /\ L = sequence - Base
    BY LenProperties DEF HubKinds, Base
  <2> QED
    BY <2>1, HubAssumption, LenProperties DEF HubKinds, RingInv
<1>2. ASSUME NEW i \in Found(id) PROVE i = k /\ id[1] = boot /\ id[2] \in Numbers
  <2>1. i \in 1..L /\ ring[i].id = id
    BY <1>1 DEF Found
  <2>2. Base + i \in Numbers /\ (Base + i) - Base = i
    BY <1>1, <2>1 DEF Numbers
  <2>3. id = <<boot, Base + i>>
    <3>1. EventAt(Base + i).id = <<boot, Base + i>>
      BY <2>2 DEF RingInv
    <3>2. EventAt(Base + i) = ring[i]
      BY <2>2 DEF EventAt
    <3> QED
      BY <2>1, <3>1, <3>2
  <2>4. id[1] = boot /\ id[2] = Base + i
    BY <2>3
  <2> QED
    BY <1>1, <2>1, <2>2, <2>4
<1> HIDE DEF k, a, L
<1>3. Found(id) = {k} /\ id[1] = boot /\ id[2] \in Numbers
  BY <1>2
<1>4. k \in 1..L /\ Base + k = id[2]
  <2>1. id[2] > Base /\ id[2] <= sequence
    BY <1>1, <1>3 DEF Numbers
  <2> QED
    BY <1>1, <2>1 DEF k
<1>5. Max(Found(id)) = k
  <2>1. Max({k}) = k
    BY <1>4 DEF Max
  <2> QED
    BY <1>3, <2>1
<1>6. After(id) = a
  BY <1>3, <1>5 DEF After, a, L
<1>7. a \in Seq(Messages) /\ Len(a) = L - k /\ \A i \in 1..(L - k) : a[i] = ring[k + i]
  <2>1. \A i \in (k + 1)..L : ring[i] \in Messages
    <3>1. \A i \in 1..L : ring[i] \in Messages
      BY <1>1, ElementOfSeq DEF L
    <3>2. (k + 1)..L \subseteq 1..L
      BY <1>1, <1>4
    <3> QED
      BY <3>1, <3>2
  <2>2. k + 1 \in Int /\ L \in Int
    BY <1>1, <1>4
  <2>3. /\ a \in Seq(Messages) /\ Len(a) = (IF k + 1 <= L THEN L - (k + 1) + 1 ELSE 0)
        /\ \A i \in 1..(L - (k + 1) + 1) : a[i] = ring[(k + 1) + i - 1]
    BY <2>1, <2>2, SubSeqProperties DEF a
  <2>4. L - (k + 1) + 1 = L - k /\ \A i \in 1..(L - k) : (k + 1) + i - 1 = k + i
    BY <1>1, <1>4
  <2>5. Len(a) = L - k
    <3>1. CASE k + 1 <= L
      BY <2>3, <2>4, <3>1
    <3>2. CASE ~(k + 1 <= L)
      <4>1. Len(a) = 0
        BY <2>3, <3>2
      <4>2. L - k = 0
        BY <1>1, <1>4, <3>2
      <4> QED
        BY <4>1, <4>2
    <3> QED
      BY <3>1, <3>2
  <2> QED
    BY <2>3, <2>4, <2>5
<1>8. DOMAIN a = 1..(L - k) /\ Len(a) <= RingCapacity
  BY <1>1, <1>4, <1>7, LenProperties
<1>9. ASSUME NEW i \in DOMAIN a
      PROVE  i \in Nat /\ id[2] + i \in Numbers /\ id[2] + i > id[2] /\ a[i] = EventAt(id[2] + i)
  <2>1. i \in 1..(L - k)
    BY <1>8
  <2>2. i \in Nat /\ id[2] + i \in Numbers /\ id[2] + i > id[2] /\ (id[2] + i) - Base = k + i
    BY <1>1, <1>4, <2>1 DEF Numbers
  <2> QED
    BY <1>7, <2>1, <2>2 DEF EventAt
<1>10. ASSUME NEW n \in Numbers, n > id[2]
       PROVE  n - id[2] \in DOMAIN a /\ a[n - id[2]] = EventAt(n)
  <2>1. n - id[2] \in 1..(L - k) /\ k + (n - id[2]) = n - Base
    BY <1>1, <1>4, <1>10 DEF Numbers
  <2> QED
    BY <1>7, <1>8, <2>1 DEF EventAt
<1> QED
  BY <1>3, <1>6, <1>7, <1>8, <1>9, <1>10

(* A resync message tells of every topic.                                   *)
LEMMA ResyncIs ==
  /\ Resync \in Messages /\ Invalidated(Resync) = Topics
  /\ HubKinds => \A e : IsEvent(e) => e # Resync /\ Invalidated(e) = {e.topic}
<1>1. Resync \in Messages /\ Invalidated(Resync) = Topics
  BY DEF Resync, NoId, Messages, Invalidated
<1>2. ASSUME HubKinds, NEW e, IsEvent(e) PROVE e # Resync
  <2>1. boot \in 1..MaxBoots /\ e.id[1] = boot
    BY <1>2 DEF HubKinds, IsEvent
  <2>2. Resync.id[1] = 0
    BY DEF Resync, NoId
  <2> QED
    BY <2>1, <2>2
<1> QED
  BY <1>1, <1>2 DEF Invalidated

(* A new stream: its page is told to refetch everything, or has what        *)
(* followed its last id, or had none and `missed` says what it was not told.*)
LEMMA SubscribeKeeps == ASSUME HubInv, NEW b \in Browsers, Subscribe(b) PROVE HubInv'
<1> DEFINE id == lastId[b]
           new == IF NeedsResync(id) THEN <<Resync>> ELSE After(id)
<1>1. /\ source[b] = "connecting"
      /\ stream' = [stream EXCEPT ![b] = "live"] /\ channel' = [channel EXCEPT ![b] = <<>>]
      /\ replay' = [replay EXCEPT ![b] = new] /\ missed' = [missed EXCEPT ![b] = missed[b] \cup Unheard(b)]
      /\ UNCHANGED <<version, unpublished, boot, sequence, ring, changes, source, lastId, rebuilt,
                     stale, view, drops>>
  BY DEF Subscribe, server
<1>2. id \in Nat \X Nat /\ HubKinds /\ RingInv
  BY DEF HubInv, HubKinds
<1> HIDE DEF id
<1>3. \/ new = <<Resync>>
      \/ Found(id) # {} /\ new = After(id)
      \/ id = NoId /\ new = <<>>
  BY DEF NeedsResync, After
<1>4. <<>> \in Seq(Messages) /\ Len(<<>>) = 0 /\ DOMAIN <<>> = {}
  BY EmptySeq, LenProperties
<1>5. <<Resync>> \in Seq(Messages) /\ Len(<<Resync>>) = 1 /\ 1 \in DOMAIN <<Resync>> /\ <<Resync>>[1] = Resync
      /\ \A i \in DOMAIN <<Resync>> : i = 1
  BY ResyncIs
<1>6. RingCapacity \in Nat \ {0} /\ ChannelCapacity \in Nat \ {0}
  BY HubAssumption
<1>7. new \in Seq(Messages) /\ Len(new) <= RingCapacity
  <2>1. CASE new = <<Resync>>
    <3>1. <<Resync>> \in Seq(Messages) /\ Len(<<Resync>>) = 1 /\ 1 <= RingCapacity
      BY <1>5, <1>6
    <3> QED
      BY <2>1, <3>1, Zenon
  <2>3. CASE new = <<>>
    <3>1. <<>> \in Seq(Messages) /\ Len(<<>>) = 0 /\ 0 <= RingCapacity
      BY <1>4, <1>6
    <3> QED
      BY <2>3, <3>1, Zenon
  <2>2. CASE Found(id) # {} /\ new = After(id)
    BY <1>2, <2>2, AfterIs
  <2> QED
    BY <1>3, <2>1, <2>2, <2>3
<1>8. new = <<Resync>> \/ AllEvents(new)
  <2>1. CASE Found(id) # {} /\ new = After(id)
    <3>1. ASSUME NEW n \in Numbers PROVE IsEvent(EventAt(n))
      <4>1. EventAt(n).id = <<boot, n>> /\ EventAt(n).topic \in Topics
        BY <1>2 DEF RingInv
      <4>2. n \in 1..sequence
        BY <1>2 DEF Numbers, RingInv, HubKinds
      <4> QED
        BY <4>1, <4>2 DEF IsEvent
    <3> QED
      BY <1>2, <2>1, <3>1, AfterIs DEF AllEvents
  <2> QED
    BY <1>3, <1>4, <2>1 DEF AllEvents
<1>9. Rising(new)
  <2>1. CASE Found(id) # {} /\ new = After(id)
    <3> SUFFICES ASSUME NEW i \in DOMAIN new, NEW j \in DOMAIN new, i < j
                 PROVE  new[i].id[2] < new[j].id[2]
      BY DEF Rising
    <3>1. /\ i \in Nat /\ id[2] + i \in Numbers /\ new[i] = EventAt(id[2] + i)
          /\ j \in Nat /\ id[2] + j \in Numbers /\ new[j] = EventAt(id[2] + j)
      BY <1>2, <2>1, AfterIs
    <3>2. new[i].id = <<boot, id[2] + i>> /\ new[j].id = <<boot, id[2] + j>>
      BY <1>2, <3>1 DEF RingInv
    <3>3. id[2] \in Nat
      BY <1>2
    <3> QED
      BY <3>1, <3>2, <3>3
  <2>2. CASE new = <<Resync>>
    <3>1. \A i, j \in DOMAIN new : i = 1 /\ j = 1
      BY <1>5, <2>2
    <3> QED
      BY <3>1 DEF Rising
  <2>3. CASE new = <<>>
    BY <1>4, <2>3 DEF Rising
  <2> QED
    BY <1>3, <2>1, <2>2, <2>3
<1> HIDE DEF new
<1>10. HubKinds'
  <2>1. /\ stream' \in [Browsers -> {"none", "live", "closed"}]
        /\ replay' \in [Browsers -> Seq(Messages)] /\ channel' \in [Browsers -> Seq(Messages)]
    BY <1>1, <1>2, <1>4, <1>7 DEF HubKinds
  <2>2. missed' \in [Browsers -> SUBSET Topics]
    BY <1>1, <1>2 DEF HubKinds, Unheard
  <2>3. ASSUME NEW q \in Browsers
        PROVE  Len(replay'[q]) <= RingCapacity /\ Len(channel'[q]) <= ChannelCapacity
    <3>1. replay'[q] \in {new, replay[q]} /\ channel'[q] \in {<<>>, channel[q]}
      BY <1>1, <1>2 DEF HubKinds
    <3>2. Len(replay[q]) <= RingCapacity /\ Len(channel[q]) <= ChannelCapacity
      BY <1>2 DEF HubKinds
    <3>3. Len(<<>>) = 0 /\ 0 <= ChannelCapacity
      BY <1>4, <1>6
    <3>4. Len(replay'[q]) <= RingCapacity
      <4>1. CASE replay'[q] = new
        BY <1>7, <4>1, Zenon
      <4>2. CASE replay'[q] = replay[q]
        BY <3>2, <4>2, Zenon
      <4> QED
        BY <3>1, <4>1, <4>2
    <3>5. Len(channel'[q]) <= ChannelCapacity
      <4>1. CASE channel'[q] = <<>>
        BY <3>3, <4>1, Zenon
      <4>2. CASE channel'[q] = channel[q]
        BY <3>2, <4>2, Zenon
      <4> QED
        BY <3>1, <4>1, <4>2
    <3> QED
      BY <3>4, <3>5
  <2> QED
    BY <1>1, <1>2, <2>1, <2>2, <2>3 DEF HubKinds
<1>11. RingInv'
  BY <1>1, <1>2, RingStays
<1>12. stream'[b] = "live" /\ channel'[b] = <<>> /\ replay'[b] = new /\ missed'[b] = missed[b] \cup Unheard(b)
  BY <1>1, <1>2 DEF HubKinds
<1>13. StreamInv(b)'
  <2>1. AllEvents(channel[b])' /\ Rising(channel[b])' /\ Rising(replay[b])'
    BY <1>4, <1>9, <1>12 DEF AllEvents, Rising
  <2>2. replay'[b] = <<Resync>> \/ AllEvents(replay[b])'
    BY <1>1, <1>8, <1>12 DEF AllEvents, IsEvent, EventAt, Base
  <2> QED
    BY <1>4, <1>12, <2>1, <2>2 DEF StreamInv
<1>14. PageInv(b)'
  BY <1>1 DEF HubInv, BrowserInv, PageInv
<1>15. ViewInv(b)'
  <2> SUFFICES ASSUME ~rebuilt[b], NEW t \in Topics, IsBehind(b, t)'
               PROVE  Regained(lastId[b], t)' /\ Told(b, t)'
    BY <1>1, <1>12 DEF ViewInv
  <2>1. /\ IsBehind(b, t) /\ t \notin Unheard(b)
    BY <1>1, <1>12 DEF IsBehind
  <2>2. Regained(id, t)
    BY <2>1 DEF HubInv, BrowserInv, ViewInv, id
  <2>3. Regained(lastId[b], t)'
    BY <1>1, <2>2 DEF Regained, Numbers, EventAt, Base, id
  <2>4. ToldBy(new, t)
    <3>1. CASE new = <<Resync>>
      BY <1>5, <3>1, ResyncIs DEF ToldBy
    <3>2. CASE Found(id) # {} /\ new = After(id)
      <4>1. id[1] = boot /\ id[2] \in Numbers /\ ~(id[2] <= Base)
        <5>1. id[1] = boot /\ id[2] \in Numbers
          BY <1>2, <3>2, AfterIs
        <5> QED
          BY <1>2, <5>1 DEF Numbers, RingInv
      <4>2. PICK n \in Numbers : n > id[2] /\ EventAt(n).topic = t
        BY <2>2, <4>1 DEF Regained
      <4>3. n - id[2] \in DOMAIN new /\ new[n - id[2]] = EventAt(n)
        BY <1>2, <3>2, <4>2, AfterIs
      <4>4. EventAt(n) # Resync
        <5>1. EventAt(n).id = <<boot, n>> /\ boot \in 1..MaxBoots
          BY <1>2 DEF RingInv, HubKinds
        <5>2. Resync.id = <<0, 0>>
          BY DEF Resync, NoId
        <5> QED
          BY <5>1, <5>2
      <4>5. t \in Invalidated(EventAt(n))
        BY <4>2, <4>4 DEF Invalidated
      <4> QED
        BY <4>3, <4>5 DEF ToldBy
    <3>3. CASE id = NoId
      BY <2>1, <3>3 DEF Unheard, IsBehind, id
    <3> QED
      BY <1>3, <3>1, <3>2, <3>3 DEF new
  <2>5. Told(b, t)'
    BY <1>12, <2>4 DEF Told, ToldBy
  <2> QED
    BY <2>3, <2>5
<1>16. ASSUME NEW q \in Browsers PROVE BrowserInv(q)'
  <2>1. CASE q = b
    BY <1>13, <1>14, <1>15, <2>1 DEF BrowserInv
  <2>2. CASE q # b
    BY <1>1, <1>2, <2>2, BrowserStays DEF HubInv, HubKinds
  <2> QED
    BY <2>1, <2>2
<1> QED
  BY <1>10, <1>11, <1>16 DEF HubInv

(* Taking the first message: what is left is in order and after it.         *)
LEMMA TailRises ==
  ASSUME NEW s, NEW t, TailOf(t, s), \A i \in DOMAIN t : i > 0, Rising(s)
  PROVE  Rising(t) /\ \A i \in DOMAIN t : s[1].id[2] < t[i].id[2]
<1>1. \A i \in DOMAIN t : i \in Nat /\ i + 1 \in DOMAIN s /\ t[i] = s[i + 1] /\ 1 < i + 1
  BY DEF TailOf
<1>2. \A i \in DOMAIN t : s[1].id[2] < t[i].id[2]
  BY <1>1 DEF Rising, TailOf
<1>3. Rising(t)
  BY <1>1 DEF Rising
<1> QED
  BY <1>2, <1>3

(* The rest of a channel still tells of all but its first event's topic.    *)
LEMMA TakeFirst ==
  ASSUME HubKinds, NEW s \in Seq(Messages), s # <<>>, Rising(s), AllEvents(s)
  PROVE  /\ Tail(s) \in Seq(Messages) /\ Len(Tail(s)) <= Len(s)
         /\ Head(s) = s[1] /\ 1 \in DOMAIN s /\ Head(s) \in Messages /\ IsEvent(Head(s))
         /\ AllEvents(Tail(s)) /\ Rising(Tail(s))
         /\ \A i \in DOMAIN Tail(s) : Head(s).id[2] < Tail(s)[i].id[2] /\ \E j \in DOMAIN s : Tail(s)[i] = s[j]
         /\ \A t \in Topics \ Invalidated(Head(s)) : ToldBy(s, t) => ToldBy(Tail(s), t)
         /\ Tail(s) = <<>> => Len(s) = 1
         /\ Tail(s) # <<>> => Tail(s)[Len(Tail(s))] = s[Len(s)] /\ Head(s).id[2] < s[Len(s)].id[2]
<1> DEFINE r == Tail(s)
<1>1. /\ r \in Seq(Messages) /\ Len(r) = Len(s) - 1 /\ Head(s) \in Messages /\ TailOf(r, s)
      /\ Len(s) \in Nat /\ Len(r) \in Nat /\ DOMAIN r = 1..Len(r) /\ DOMAIN s = 1..Len(s)
  BY TailIs, LenProperties
<1>3. r # <<>> => Len(r) \in DOMAIN r
  BY <1>1, EmptySeq
<1> HIDE DEF r
<1>2. r = <<>> => Len(s) = 1
  <2>1. Len(<<>>) = 0
    BY EmptySeq
  <2> QED
    BY <1>1, <2>1
<1>4. Head(s) = s[1] /\ 1 \in DOMAIN s
  BY <1>1 DEF TailOf
<1>5. \A i \in DOMAIN r : i > 0 /\ i + 1 \in DOMAIN s /\ r[i] = s[i + 1]
  BY <1>1 DEF TailOf
<1>6. Rising(r) /\ \A i \in DOMAIN r : Head(s).id[2] < r[i].id[2]
  BY <1>1, <1>4, <1>5, TailRises
<1>7. IsEvent(Head(s)) /\ AllEvents(r)
  BY <1>4, <1>5 DEF AllEvents
<1>8. ASSUME NEW t \in Topics \ Invalidated(Head(s)), ToldBy(s, t) PROVE ToldBy(r, t)
  <2>1. PICK i \in DOMAIN s : t \in Invalidated(s[i])
    BY <1>8 DEF ToldBy
  <2>2. i # 1
    BY <1>4, <2>1
  <2> QED
    BY <1>1, <2>1, <2>2 DEF TailOf, ToldBy
<1>9. ASSUME r # <<>> PROVE r[Len(r)] = s[Len(s)] /\ Head(s).id[2] < s[Len(s)].id[2]
  <2>1. r[Len(r)] = s[Len(r) + 1] /\ Len(r) + 1 = Len(s)
    BY <1>1, <1>3, <1>5, <1>9
  <2> QED
    BY <1>3, <1>6, <1>9, <2>1
<1> QED
  BY <1>1, <1>2, <1>4, <1>5, <1>6, <1>7, <1>8, <1>9 DEF r

(* What a page was still to be told after e, it could also regain by e's    *)
(* id: the ring still has it, or has passed e.                              *)
LEMMA ToldIsRegained ==
  ASSUME HubKinds, RingInv, NEW e \in Messages, IsEvent(e), NEW s, AllEvents(s),
         \A i \in DOMAIN s : s[i] \in Messages /\ e.id[2] < s[i].id[2],
         NEW t \in Topics, ToldBy(s, t)
  PROVE  Regained(e.id, t)
<1>1. PICK i \in DOMAIN s : t \in Invalidated(s[i])
  BY DEF ToldBy
<1>2. s[i] \in Messages /\ IsEvent(s[i]) /\ e.id[2] < s[i].id[2] /\ s[i].topic = t
  BY <1>1, ResyncIs DEF AllEvents
<1>3. CASE e.id[2] <= Base
  BY <1>3 DEF Regained
<1>4. CASE ~(e.id[2] <= Base)
  <2>1. e.id[2] \in Nat /\ s[i].id[2] \in Nat /\ Base \in Nat /\ sequence \in Nat
    BY <1>2 DEF Messages, RingInv, HubKinds
  <2>2. s[i].id[2] > Base /\ s[i].id[2] \in Numbers
    BY <1>2, <1>4, <2>1 DEF IsEvent, Numbers
  <2>3. EventAt(s[i].id[2]) = s[i]
    BY <1>2, <2>2 DEF IsEvent
  <2> QED
    BY <1>2, <2>1, <2>2, <2>3 DEF Regained
<1> QED
  BY <1>3, <1>4

(* What the rest of a stream brings can only be after its first event.      *)
LEMMA HeardLater ==
  ASSUME RingInv, NEW e \in Messages, IsEvent(e), NEW f \in Messages, IsEvent(f), e.id[2] <= f.id[2],
         NEW t \in Topics, Regained(f.id, t)
  PROVE  Regained(e.id, t)
<1>1. e.id[2] \in Nat /\ f.id[2] \in Nat /\ Base \in Nat /\ f.id[1] = boot
  BY DEF Messages, IsEvent, RingInv
<1>2. CASE f.id[2] <= Base
  BY <1>1, <1>2 DEF Regained
<1>3. CASE \E n \in Numbers : n > f.id[2] /\ EventAt(n).topic = t
  <2>1. PICK n \in Numbers : n > f.id[2] /\ EventAt(n).topic = t
    BY <1>3
  <2>2. n \in Int
    BY DEF Numbers
  <2> QED
    BY <1>1, <2>1, <2>2 DEF Regained
<1> QED
  BY <1>1, <1>2, <1>3 DEF Regained

(* A message is handled: an event takes its topic off what the page is      *)
(* behind in, and its id becomes the page's last.                           *)
LEMMA DeliverKeeps == ASSUME HubInv, NEW b \in Browsers, Deliver(b) PROVE HubInv'
<1> DEFINE e == Head(Pending(b))
           R == replay[b]
           C == channel[b]
<1>1. /\ source[b] = "open" /\ Pending(b) # <<>>
      /\ \/ R # <<>> /\ replay' = [replay EXCEPT ![b] = Tail(R)] /\ channel' = channel
         \/ R = <<>> /\ channel' = [channel EXCEPT ![b] = Tail(C)] /\ replay' = replay
      /\ lastId' = [lastId EXCEPT ![b] = IF e = Resync THEN lastId[b] ELSE e.id]
      /\ stale' = [stale EXCEPT ![b] = stale[b] \cup Invalidated(e)]
      /\ UNCHANGED <<version, unpublished, boot, sequence, ring, changes, stream, source, rebuilt, view,
                     missed, drops>>
  BY DEF Deliver, server
<1>2. /\ HubKinds /\ RingInv /\ StreamInv(b) /\ R \in Seq(Messages) /\ C \in Seq(Messages)
      /\ Rising(R) /\ Rising(C) /\ AllEvents(C) /\ (R = <<Resync>> \/ AllEvents(R))
      /\ \A i \in DOMAIN R, j \in DOMAIN C : R[i].id[2] < C[j].id[2]
  BY DEF HubInv, HubKinds, BrowserInv, StreamInv
<1>3. /\ <<>> \in Seq(Messages) /\ Len(<<>>) = 0 /\ DOMAIN <<>> = {}
      /\ \A i \in DOMAIN R : R[i] \in Messages
      /\ \A i \in DOMAIN C : C[i] \in Messages
  BY <1>2, EmptySeq, ElementOfSeq, LenProperties
<1>4. (R # <<>> => e = Head(R)) /\ (R = <<>> => C # <<>> /\ e = Head(C))
  BY <1>1, <1>2, HeadOfConcat, ConcatEmptySeq DEF Pending
<1> HIDE DEF e, R, C
<1>5. /\ replay'[b] = (IF R # <<>> THEN Tail(R) ELSE R) /\ channel'[b] = (IF R # <<>> THEN C ELSE Tail(C))
      /\ lastId'[b] = (IF e = Resync THEN lastId[b] ELSE e.id) /\ stale'[b] = stale[b] \cup Invalidated(e)
      /\ \A q \in Browsers : q # b => /\ replay'[q] = replay[q] /\ channel'[q] = channel[q]
                                      /\ lastId'[q] = lastId[q] /\ stale'[q] = stale[q]
  BY <1>1, <1>2 DEF HubKinds, R, C
<1>6. stream[b] # "none" /\ (stream[b] = "closed" => C # <<>>)
  BY <1>2, <1>4 DEF StreamInv, R, C
<1>7. ASSUME R = <<Resync>> PROVE e = Resync /\ Tail(R) = <<>> /\ R # <<>>
  <2>1. Len(R) = 1 /\ R[1] = Resync /\ R # <<>>
    BY <1>3, <1>7
  <2>2. Tail(R) \in Seq(Messages) /\ Len(Tail(R)) = 0 /\ TailOf(Tail(R), R)
    BY <1>2, <2>1, TailIs
  <2>3. Tail(R) = <<>>
    BY <2>2, EmptySeq
  <2> QED
    BY <1>4, <2>1, <2>2, <2>3 DEF TailOf
<1>8. /\ replay'[b] \in Seq(Messages) /\ Len(replay'[b]) <= Len(R)
      /\ channel'[b] \in Seq(Messages) /\ Len(channel'[b]) <= Len(C)
      /\ e \in Messages /\ (e = Resync \/ IsEvent(e))
      /\ AllEvents(replay'[b]) /\ AllEvents(channel'[b]) /\ Rising(replay'[b]) /\ Rising(channel'[b])
      /\ \A i \in DOMAIN replay'[b], j \in DOMAIN channel'[b] : replay'[b][i].id[2] < channel'[b][j].id[2]
      /\ e # Resync => /\ \A i \in DOMAIN replay'[b] : e.id[2] < replay'[b][i].id[2]
                       /\ \A i \in DOMAIN channel'[b] : e.id[2] < channel'[b][i].id[2]
      /\ \A t \in Topics \ Invalidated(e) :
           ToldBy(R, t) \/ ToldBy(C, t) => ToldBy(replay'[b], t) \/ ToldBy(channel'[b], t)
  <2>0. Len(R) \in Nat /\ Len(C) \in Nat
    BY <1>2, LenProperties
  <2>1. CASE R = <<Resync>>
    <3>1. replay'[b] = <<>> /\ channel'[b] = C /\ e = Resync
      BY <1>5, <1>7, <2>1
    <3>2. AllEvents(<<>>) /\ Rising(<<>>)
      BY <1>3 DEF AllEvents, Rising
    <3>3. Topics \ Invalidated(e) = {}
      BY <3>1, ResyncIs
    <3> QED
      BY <1>2, <1>3, <2>0, <3>1, <3>2, <3>3, ResyncIs
  <2>2. CASE R # <<>> /\ R # <<Resync>>
    <3>1. replay'[b] = Tail(R) /\ channel'[b] = C /\ e = Head(R) /\ AllEvents(R)
      BY <1>2, <1>4, <1>5, <2>2
    <3>2. /\ Tail(R) \in Seq(Messages) /\ Len(Tail(R)) <= Len(R)
          /\ e = R[1] /\ 1 \in DOMAIN R /\ e \in Messages /\ IsEvent(e)
          /\ AllEvents(Tail(R)) /\ Rising(Tail(R))
          /\ \A i \in DOMAIN Tail(R) : e.id[2] < Tail(R)[i].id[2] /\ \E j \in DOMAIN R : Tail(R)[i] = R[j]
          /\ \A t \in Topics \ Invalidated(e) : ToldBy(R, t) => ToldBy(Tail(R), t)
      BY <1>2, <2>2, <3>1, TakeFirst
    <3>3. \A i \in DOMAIN C : e.id[2] < C[i].id[2]
      BY <1>2, <3>2
    <3>4. \A i \in DOMAIN Tail(R), j \in DOMAIN C : Tail(R)[i].id[2] < C[j].id[2]
      BY <1>2, <3>2
    <3>5. \A t \in Topics \ Invalidated(e) :
            ToldBy(R, t) \/ ToldBy(C, t) => ToldBy(replay'[b], t) \/ ToldBy(channel'[b], t)
      BY <3>1, <3>2
    <3> QED
      BY <1>2, <2>0, <3>1, <3>2, <3>3, <3>4, <3>5
  <2>3. CASE R = <<>>
    <3>1. replay'[b] = <<>> /\ channel'[b] = Tail(C) /\ e = Head(C) /\ C # <<>>
      BY <1>4, <1>5, <2>3
    <3>2. /\ Tail(C) \in Seq(Messages) /\ Len(Tail(C)) <= Len(C)
          /\ e \in Messages /\ IsEvent(e)
          /\ AllEvents(Tail(C)) /\ Rising(Tail(C))
          /\ \A i \in DOMAIN Tail(C) : e.id[2] < Tail(C)[i].id[2]
          /\ \A t \in Topics \ Invalidated(e) : ToldBy(C, t) => ToldBy(Tail(C), t)
      BY <1>2, <3>1, TakeFirst
    <3>3. AllEvents(<<>>) /\ Rising(<<>>) /\ \A t \in Topics : ~ToldBy(<<>>, t)
      BY <1>3 DEF AllEvents, Rising, ToldBy
    <3> QED
      BY <1>3, <2>0, <2>3, <3>1, <3>2, <3>3
  <2> QED
    BY <2>1, <2>2, <2>3
<1>9. HubKinds'
  <2>1. replay' \in [Browsers -> Seq(Messages)] /\ channel' \in [Browsers -> Seq(Messages)]
    BY <1>1, <1>2, <1>5, <1>8 DEF HubKinds
  <2>2. ASSUME NEW q \in Browsers
        PROVE  Len(replay'[q]) <= RingCapacity /\ Len(channel'[q]) <= ChannelCapacity
    <3>1. CASE q = b
      <4>1. /\ Len(R) \in Nat /\ Len(C) \in Nat /\ Len(R) <= RingCapacity /\ Len(C) <= ChannelCapacity
            /\ Len(replay'[b]) \in Nat /\ Len(channel'[b]) \in Nat
            /\ RingCapacity \in Nat /\ ChannelCapacity \in Nat
        BY <1>2, <1>8, HubAssumption, LenProperties DEF HubKinds, R, C
      <4> QED
        BY <1>8, <3>1, <4>1
    <3>2. CASE q # b
      BY <1>2, <1>5, <3>2 DEF HubKinds
    <3> QED
      BY <3>1, <3>2
  <2>3. e = Resync \/ e.id \in Nat \X (0..MaxChanges)
    <3> SUFFICES ASSUME e # Resync PROVE e.id \in Nat \X (0..MaxChanges)
      OBVIOUS
    <3>1. e.id \in Nat \X Nat /\ e.id[2] \in 1..sequence
      BY <1>8 DEF Messages, IsEvent
    <3>2. sequence \in 0..MaxChanges /\ MaxChanges \in Nat
      BY <1>2, SequenceIsBounded, HubAssumption
    <3> DEFINE n == e.id[2]
    <3>3. n \in 1..sequence
      BY <3>1
    <3> HIDE DEF n
    <3>4. n \in 0..MaxChanges
      BY <3>2, <3>3
    <3>5. e.id[2] \in 0..MaxChanges
      BY <3>4 DEF n
    <3> DEFINE i == e.id
    <3>6. i \in Nat \X Nat /\ i[2] \in 0..MaxChanges
      BY <3>1, <3>5
    <3> HIDE DEF i
    <3>7. i \in Nat \X (0..MaxChanges)
      BY <3>6
    <3> QED
      BY <3>7 DEF i
  <2>4. lastId' \in [Browsers -> Nat \X (0..MaxChanges)]
    BY <1>1, <1>2, <2>3 DEF HubKinds
  <2>5. Invalidated(e) \subseteq Topics
    BY <1>2, <1>8, ResyncIs DEF IsEvent
  <2>6. stale' \in [Browsers -> SUBSET Topics]
    BY <1>1, <1>2, <2>5 DEF HubKinds
  <2> QED
    BY <1>1, <1>2, <2>1, <2>2, <2>4, <2>6 DEF HubKinds
<1>10. RingInv'
  BY <1>1, <1>2, RingStays
<1>11. StreamInv(b)'
  <2>1. AllEvents(channel[b])' /\ AllEvents(replay[b])' /\ Rising(channel[b])' /\ Rising(replay[b])'
    BY <1>1, <1>8 DEF AllEvents, IsEvent, EventAt, Base, Rising
  <2>2. stream'[b] = "closed" => channel'[b] # <<>> \/ replay'[b] = <<>>
    BY <1>1, <1>5, <1>6
  <2> QED
    BY <1>1, <1>6, <1>8, <2>1, <2>2 DEF StreamInv
<1>12. PageInv(b)'
  <2>1. e # Resync => e.id[1] = boot /\ e.id[2] \in 1..sequence
    BY <1>8 DEF IsEvent
  <2>2. boot \in Nat
    BY <1>2 DEF HubKinds
  <2> QED
    BY <1>1, <1>5, <2>1, <2>2 DEF HubInv, BrowserInv, PageInv
<1>13. ViewInv(b)'
  <2> SUFFICES ASSUME ~rebuilt[b], NEW t \in Topics, IsBehind(b, t)'
               PROVE  /\ Regained(lastId[b], t)'
                      /\ stream'[b] = "live" => Told(b, t)'
                      /\ stream'[b] = "closed" => Told(b, t)' \/ Regained(LastHeard(b), t)'
    BY <1>1 DEF ViewInv
  <2>1. t \notin Invalidated(e) /\ IsBehind(b, t)
    BY <1>1, <1>5 DEF IsBehind
  <2>2. e # Resync /\ IsEvent(e) /\ R # <<Resync>>
    BY <1>7, <1>8, <2>1, ResyncIs
  <2>3. /\ stream[b] = "live" => Told(b, t)
        /\ stream[b] = "closed" => Told(b, t) \/ Regained(LastHeard(b), t)
    BY <2>1 DEF HubInv, BrowserInv, ViewInv
  <2>4. Told(b, t) => ToldBy(replay'[b], t) \/ ToldBy(channel'[b], t)
    BY <1>8, <2>1 DEF Told, R, C
  <2>5. ToldBy(replay'[b], t) \/ ToldBy(channel'[b], t) => Told(b, t)' /\ Regained(e.id, t)
    <3>1. /\ \A i \in DOMAIN replay'[b] : replay'[b][i] \in Messages
          /\ \A i \in DOMAIN channel'[b] : channel'[b][i] \in Messages
      BY <1>8, ElementOfSeq, LenProperties
    <3>2. ToldBy(replay'[b], t) => Regained(e.id, t)
      BY <1>2, <1>8, <2>2, <3>1, ToldIsRegained
    <3>3. ToldBy(channel'[b], t) => Regained(e.id, t)
      BY <1>2, <1>8, <2>2, <3>1, ToldIsRegained
    <3> QED
      BY <3>2, <3>3 DEF Told, ToldBy
  <2>6. lastId'[b] = e.id
    BY <1>5, <2>2
  <2>7. ASSUME stream[b] = "closed", Regained(LastHeard(b), t)
        PROVE  Regained(e.id, t) /\ LastHeard(b)' = LastHeard(b)
    <3> DEFINE f == C[Len(C)]
    <3>1. C # <<>> /\ Len(C) \in DOMAIN C /\ f \in Messages /\ IsEvent(f)
      <4>1. Len(C) \in DOMAIN C
        BY <1>2, <1>6, <2>7, EmptySeq, LenProperties
      <4> QED
        BY <1>2, <1>3, <1>6, <2>7, <4>1 DEF AllEvents
    <3>2. LastHeard(b) = f.id
      BY <3>1 DEF LastHeard, C
    <3>3. CASE R # <<>>
      <4>1. channel'[b] = C /\ channel'[b] # <<>> /\ e.id[2] < f.id[2]
        BY <1>5, <1>8, <2>2, <3>1, <3>3
      <4>2. LastHeard(b)' = f.id
        BY <4>1 DEF LastHeard
      <4>3. e.id[2] <= f.id[2]
        BY <1>8, <3>1, <4>1 DEF Messages
      <4> QED
        BY <1>2, <1>8, <2>2, <2>7, <3>1, <3>2, <4>2, <4>3, HeardLater
    <3>4. CASE R = <<>>
      <4>1. /\ channel'[b] = Tail(C) /\ e = C[1]
            /\ Tail(C) = <<>> => Len(C) = 1
            /\ Tail(C) # <<>> => Tail(C)[Len(Tail(C))] = f /\ e.id[2] < f.id[2]
        BY <1>2, <1>4, <1>5, <3>1, <3>4, TakeFirst
      <4>2. LastHeard(b)' = f.id
        BY <2>6, <4>1 DEF LastHeard
      <4>3. e.id[2] <= f.id[2]
        BY <1>8, <3>1, <4>1 DEF Messages
      <4> QED
        BY <1>2, <1>8, <2>2, <2>7, <3>1, <3>2, <4>2, <4>3, HeardLater
    <3> QED
      BY <3>3, <3>4
  <2>8. Regained(e.id, t)
    BY <1>2, <1>6, <2>3, <2>4, <2>5, <2>7 DEF HubKinds
  <2>9. Regained(lastId[b], t)'
    BY <1>1, <2>6, <2>8 DEF Regained, Numbers, EventAt, Base
  <2>10. ASSUME stream'[b] = "closed" PROVE Told(b, t)' \/ Regained(LastHeard(b), t)'
    <3>1. Told(b, t) \/ (Regained(LastHeard(b), t) /\ LastHeard(b)' = LastHeard(b))
      BY <1>1, <2>3, <2>7, <2>10
    <3>2. Regained(LastHeard(b), t) /\ LastHeard(b)' = LastHeard(b) => Regained(LastHeard(b), t)'
      BY <1>1 DEF Regained, Numbers, EventAt, Base
    <3> QED
      BY <2>4, <2>5, <3>1, <3>2
  <2> QED
    BY <1>1, <2>3, <2>4, <2>5, <2>9, <2>10
<1>14. ASSUME NEW q \in Browsers PROVE BrowserInv(q)'
  <2>1. CASE q = b
    BY <1>11, <1>12, <1>13, <2>1 DEF BrowserInv
  <2>2. CASE q # b
    BY <1>1, <1>5, <2>2, BrowserStays DEF HubInv
  <2> QED
    BY <2>1, <2>2
<1> QED
  BY <1>9, <1>10, <1>14 DEF HubInv

(* Every step of the service, its streams and its pages.                    *)
LEMMA HubStep == ASSUME HubInv, [HubNext]_hubVars PROVE HubInv'
<1>1. CASE UNCHANGED hubVars
  <2>1. UNCHANGED <<version, unpublished, boot, sequence, ring, changes, stream, replay, channel,
                    source, lastId, rebuilt, stale, view, missed, drops>>
    BY <1>1 DEF hubVars, server, streams, pages
  <2>2. HubKinds'
    BY <2>1 DEF HubInv, HubKinds
  <2>3. RingInv'
    BY <2>1, RingStays DEF HubInv
  <2>4. ASSUME NEW b \in Browsers PROVE BrowserInv(b)'
    BY <2>1, BrowserStays DEF HubInv
  <2> QED
    BY <2>2, <2>3, <2>4 DEF HubInv
<1>2. CASE HubNext
  <2>1. ASSUME NEW b \in Browsers, Listen(b) PROVE HubInv'
    BY <2>1, SubscribeKeeps, OpenKeeps, DeliverKeeps, EndsKeep, RefetchKeeps DEF Listen
  <2> QED
    BY <1>2, <2>1, HubRestartKeeps, CommitKeeps, PublishKeeps, EndsKeep, FailedFetchKeeps DEF HubNext
<1> QED
  BY <1>1, <1>2

(* A live stream with nothing to tell: the page is behind in nothing.       *)
LEMMA HubInvSuffices == HubInv => QuietPagesAreCurrent
<1> SUFFICES ASSUME HubInv, NEW b \in Browsers, Quiet(b), NEW t \in Topics \ (unpublished \cup missed[b])
             PROVE  view[b][t] = version[t]
  BY DEF QuietPagesAreCurrent
<1>1. /\ source[b] = "open" /\ stream[b] = "live" /\ replay[b] \o channel[b] = <<>> /\ stale[b] = {}
  BY DEF Quiet, Pending
<1>2. replay[b] = <<>> /\ channel[b] = <<>> /\ DOMAIN <<>> = {}
  <2>1. replay[b] \in Seq(Messages) /\ channel[b] \in Seq(Messages)
    BY DEF HubInv, HubKinds
  <2> QED
    BY <1>1, <2>1, ConcatEqualIffEmpty, EmptySeq, LenProperties
<1>3. ~rebuilt[b]
  BY <1>1 DEF HubInv, HubKinds, BrowserInv, PageInv
<1>4. ~Told(b, t)
  BY <1>2 DEF Told, ToldBy
<1> QED
  BY <1>1, <1>3, <1>4 DEF HubInv, BrowserInv, ViewInv, IsBehind

(* Events carry ids of this boot, pages ids of some boot so far.            *)
LEMMA HubInvTypes == HubInv => HubTypeOK
<1> SUFFICES ASSUME HubInv PROVE HubTypeOK
  OBVIOUS
<1>1. /\ HubKinds /\ RingInv /\ sequence \in 0..MaxChanges /\ boot \in 1..MaxBoots
      /\ MaxChanges \in Nat /\ MaxBoots \in Nat
  BY HubAssumption, SequenceIsBounded DEF HubInv, HubKinds
<1>2. ASSUME NEW m \in Messages, IsEvent(m) PROVE m \in Events
  <2>1. m.id \in Nat \X Nat /\ m.id[1] = boot /\ m.id[2] \in 1..sequence /\ m.topic \in Topics
    BY <1>2 DEF Messages, IsEvent
  <2>2. m.id \in Ids
    BY <1>1, <2>1 DEF Ids
  <2> QED
    BY <2>1, <2>2 DEF Messages, Events
<1>3. Resync \in Events
  BY <1>1 DEF Resync, NoId, Events, Ids
<1>4. ASSUME NEW s \in Seq(Messages), s = <<Resync>> \/ AllEvents(s) PROVE s \in Seq(Events)
  <2>1. CASE s = <<Resync>>
    BY <1>3, <2>1
  <2>2. CASE AllEvents(s)
    <3>1. \A i \in DOMAIN s : s[i] \in Events
      BY <1>2, <2>2, ElementOfSeq, LenProperties DEF AllEvents
    <3> QED
      BY <3>1, InSeq
  <2> QED
    BY <1>4, <2>1, <2>2
<1>5. ring \in Seq(Events)
  <2>1. ring \in Seq(Messages) /\ DOMAIN ring = 1..Len(ring) /\ Len(ring) \in Nat
    BY <1>1, LenProperties DEF HubKinds
  <2>2. ASSUME NEW i \in DOMAIN ring PROVE IsEvent(ring[i])
    <3>1. Base + i \in Numbers /\ (Base + i) - Base = i /\ Base + i \in 1..sequence
      BY <1>1, <2>1 DEF Numbers, RingInv, Base
    <3>2. ring[i].id = <<boot, Base + i>> /\ ring[i].topic \in Topics
      BY <1>1, <3>1 DEF RingInv, EventAt
    <3>3. ring[i].id[1] = boot /\ ring[i].id[2] = Base + i
      BY <3>2
    <3>4. EventAt(Base + i) = ring[i]
      BY <3>1, Zenon DEF EventAt
    <3> QED
      BY <3>1, <3>2, <3>3, <3>4, Zenon DEF IsEvent
  <2> QED
    BY <1>4, <2>1, <2>2 DEF AllEvents
<1>6. ASSUME NEW b \in Browsers
      PROVE  /\ stream[b] \in {"none", "live", "closed"} /\ source[b] \in {"connecting", "open"}
             /\ replay[b] \in Seq(Events) /\ Len(replay[b]) <= RingCapacity
             /\ channel[b] \in Seq(Events) /\ Len(channel[b]) <= ChannelCapacity
             /\ lastId[b] \in Ids /\ rebuilt[b] \in BOOLEAN /\ view[b] \in [Topics -> 0..MaxChanges]
             /\ stale[b] \subseteq Topics /\ missed[b] \subseteq Topics
  <2>1. replay[b] \in Seq(Events) /\ channel[b] \in Seq(Events)
    BY <1>1, <1>4 DEF HubKinds, HubInv, BrowserInv, StreamInv
  <2>2. lastId[b] \in Ids
    <3>1. lastId[b] \in Nat \X (0..MaxChanges) /\ lastId[b][1] <= boot
      BY <1>1 DEF HubKinds, HubInv, BrowserInv, PageInv
    <3> QED
      BY <1>1, <3>1 DEF Ids
  <2> QED
    BY <1>1, <2>1, <2>2 DEF HubKinds
<1> QED
  BY <1>1, <1>5, <1>6 DEF HubKinds, HubTypeOK

(* A page with an open, drained stream and nothing to refetch shows what    *)
(* the database has, but for events still to be published and for what it   *)
(* `missed`: through any drops, cut-off streams, rings passed by, refused   *)
(* connections and restarts (hub.go:40-135, App.tsx:120-180).               *)
THEOREM PagesAreCurrent == HubSpec => []QuietPagesAreCurrent
<1>1. HubSpec => []HubInv
  BY HubStarts, HubStep, PTL DEF HubSpec
<1> QED
  BY <1>1, HubInvSuffices, PTL

(* The ring keeps to its capacity, every channel to its own, and ids are    *)
(* those the boots so far have given (hub.go:15-60).                        *)
THEOREM HubTypes == HubSpec => []HubTypeOK
<1>1. HubSpec => []HubInv
  BY HubStarts, HubStep, PTL DEF HubSpec
<1> QED
  BY <1>1, HubInvTypes, PTL

-----------------------------------------------------------------------------
(* The services together.                                                   *)

(* A step of a service is a step of its specification, and a stutter of the *)
(* other five.                                                              *)
LEMMA StepIsOfOneService ==
  ASSUME [ServicesNext]_servicesVars
  PROVE  /\ [HubNext]_hubVars /\ [CacheNext]_cacheVars /\ [PoolNext]_poolVars
         /\ [CredNext]_credVars /\ [UpdateNext]_updateVars /\ [AuthNext]_authVars
BY DEF ServicesNext, servicesVars

(* The server starts all six (main.go:81-165): each takes its own steps,    *)
(* in any order, on state that no other one has.                            *)
Together == HubSpec /\ CacheSpec /\ PoolSpec /\ CredSpec /\ UpdateSpec /\ AuthSpec

(* What the runs explore, one service at a time, are behaviours of the six  *)
(* together, in which the others wait at their start.                       *)
LEMMA ServicesAreTogether == ServicesSpec => Together
<1>1. ServicesInit => HubInit /\ CacheInit /\ PoolInit /\ CredInit /\ UpdateInit /\ AuthInit
  BY DEF ServicesInit
<1>2. ServicesSpec => ServicesInit /\ [][ServicesNext]_servicesVars
  BY PTL DEF ServicesSpec
<1> QED
  BY <1>1, <1>2, StepIsOfOneService, PTL
     DEF Together, HubSpec, CacheSpec, PoolSpec, CredSpec, UpdateSpec, AuthSpec

(* The service that runs stays the one that runs.                           *)
PartKnown == part \in Parts
LEMMA PartStays == ASSUME PartKnown, [ServicesNext]_servicesVars PROVE PartKnown'
BY DEF ServicesNext, servicesVars, PartKnown

(* The service that runs is well typed.                                     *)
THEOREM ServicesTypes == ServicesSpec => []ServicesTypeOK
<1>1. ServicesSpec => []PartKnown
  <2>1. ServicesInit => PartKnown
    BY DEF ServicesInit, PartKnown
  <2>2. ServicesSpec => ServicesInit /\ [][ServicesNext]_servicesVars
    BY PTL DEF ServicesSpec
  <2> QED
    BY <2>1, <2>2, PartStays, PTL
<1>2. PartKnown /\ HubTypeOK /\ CacheTypeOK /\ PoolTypeOK
      /\ CredTypeOK /\ UpdateTypeOK /\ AuthTypeOK => ServicesTypeOK
  BY DEF ServicesTypeOK, PartKnown
<1> QED
  BY <1>1, <1>2, ServicesAreTogether, HubTypes, CacheTypes, PoolTypes, CredentialTypes,
     UpdateTypeCorrect, AuthTypes, PTL DEF Together

(* In every interleaving of the six, at all times: pages with a quiet       *)
(* stream show the database, the cache and the sessions are accounted for,  *)
(* the newest token is kept, an update can be undone and shows its true     *)
(* state, setup is closed, guesses are bounded and secrets work once.       *)
THEOREM ServicesAreSafe ==
  Together =>
    /\ [](QuietPagesAreCurrent /\ CacheIsSound /\ SessionsAreAccounted /\ CredentialsAreSound
          /\ RollbackIsPossible /\ StatusIsTrue /\ SetupIsSound /\ GuessesAreBounded)
    /\ RequestIsNotReplaced /\ SecretsWorkOnce
BY PagesAreCurrent, CacheStaysSound, SessionsAccounted, CredentialsStaySound,
   UpdateCanBeUndone, StatusIsRight, RequestStays, SetupLeavesNoWayBack, GuessersAreBounded,
   SecretsAreUsedOnce, PTL DEF Together
=============================================================================
