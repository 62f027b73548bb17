-------------------------- MODULE MCSnapshotPrune --------------------------
(* One prune over two guests with two names each. Its cutoff is a negative *)
(* age, always to come, so that a snapshot taken meanwhile may be stale    *)
(* too, or the date of the last snapshot that may be taken, which is not.  *)
EXTENDS SnapshotPrune

MCAges == {-1}
=============================================================================
