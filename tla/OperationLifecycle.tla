------------------------- MODULE OperationLifecycle -------------------------
(***************************************************************************)
(* What a mail operation may go through: the transitions of                 *)
(* internal/mailstore/operation.go.  An operation that may be undone has an *)
(* open window first; it starts only once the window has closed.  The       *)
(* module that applies operations (Operations) is shown to implement this.  *)
(***************************************************************************)
CONSTANT Ops

VARIABLES
  status,          \* per operation; "none" before it is created
  open             \* operations whose undo window is open

vars == <<status, open>>

Init == status = [o \in Ops |-> "none"] /\ open = {}

Move(o, from, to) == status[o] = from /\ status' = [status EXCEPT ![o] = to]

NewOperation(o) == Move(o, "none", "scheduled") /\ open' \in {open, open \cup {o}}
WindowCloses(o) == o \in open /\ open' = open \ {o} /\ UNCHANGED status
Start(o) == o \notin open /\ Move(o, "scheduled", "applying") /\ UNCHANGED open
Complete(o) == Move(o, "applying", "applied") /\ UNCHANGED open
Fail(o) == Move(o, "applying", "failed") /\ UNCHANGED open
Retry(o) == Move(o, "failed", "scheduled") /\ UNCHANGED open
Undo(o) == o \in open /\ Move(o, "scheduled", "undone") /\ open' = open \ {o}

(* One operation, or at a rebuild or restart all those it concerns.         *)
MarkNeedsAttention(S) ==
  /\ \A o \in S : status[o] \in {"scheduled", "applying"}
  /\ status' = [o \in Ops |-> IF o \in S THEN "needs_attention" ELSE status[o]]
  /\ open' = open \ S

Next ==
  \/ \E o \in Ops :
       \/ NewOperation(o) \/ WindowCloses(o) \/ Start(o) \/ Complete(o) \/ Fail(o)
       \/ Retry(o) \/ Undo(o)
  \/ \E S \in SUBSET Ops : MarkNeedsAttention(S)

Spec == Init /\ [][Next]_vars
=============================================================================
