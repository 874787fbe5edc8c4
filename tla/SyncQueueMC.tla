---------------------------- MODULE SyncQueueMC ----------------------------
(* One account: the new-mail jobs of two folders, one of which has been     *)
(* removed meanwhile, and a background job.                                 *)
EXTENDS SyncQueue

CONSTANTS inbox, archive, history, w1, w2, c1, c2

OneAccount == [j \in Jobs |-> "account"]
=============================================================================
