----------------------------- MODULE MCFlusher -----------------------------
(* Instances of Flusher for TLC. *)
EXTENDS Flusher, TLC

TwoJobs == "r0" :> 7 @@ "other" :> 8
=============================================================================
