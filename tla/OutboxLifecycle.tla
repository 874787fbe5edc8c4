-------------------------- MODULE OutboxLifecycle --------------------------
(***************************************************************************)
(* What a message to be sent may go through: the transitions of             *)
(* internal/mailstore/outbox.go, one item for each draft.  The module that  *)
(* runs deliveries (Outbox) is shown to implement it.                       *)
(***************************************************************************)
CONSTANT Items

VARIABLE status         \* per item; "none" before it is first queued

Init == status = [i \in Items |-> "none"]

(* The items S, all in a state of `from', move to the state `to'.           *)
Move(S, from, to) ==
  /\ \A i \in S : status[i] \in from
  /\ status' = [i \in Items |-> IF i \in S THEN to ELSE status[i]]

NewOutboxItem(i) == Move({i}, {"none"}, "queued")
Start(i) == Move({i}, {"queued"}, "sending")
MarkSent(i) == Move({i}, {"sending", "unknown"}, "sent")
MarkFailed(i) == Move({i}, {"sending", "unknown"}, "failed")
Retry(i) == Move({i}, {"failed"}, "queued")

(* One item, or at a restart every item that was being sent.                *)
MarkUnknown(S) == Move(S, {"sending"}, "unknown")

(* An account is deleted, and its items with it: never while one is sent.   *)
Discard(S) == Move(S, {"none", "queued", "sent", "failed", "unknown"}, "none")

Next ==
  \/ \E i \in Items :
       NewOutboxItem(i) \/ Start(i) \/ MarkSent(i) \/ MarkFailed(i) \/ Retry(i)
  \/ \E S \in SUBSET Items : MarkUnknown(S) \/ Discard(S)

Spec == Init /\ [][Next]_status
=============================================================================
