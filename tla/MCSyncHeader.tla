---------------------------- MODULE MCSyncHeader ----------------------------
(* Instances of SyncHeader for TLC.                                        *)
EXTENDS SyncHeader

(* Nothing to do, less than a batch, several batches with a short last one *)
(* from genesis and from a later head, more batches than may be in flight. *)
MCJobs == {[local |-> 2, target |-> 1], [local |-> 2, target |-> 3],
           [local |-> 0, target |-> 5], [local |-> 1, target |-> 7]}
=============================================================================
