---------------------------- MODULE MCEvacuation ----------------------------
(* Instances of Evacuation for TLC. *)
EXTENDS Evacuation, TLC

\* Workers are interchangeable; jobs are visited in ID order and are not.
WorkerSymmetry == Permutations(Workers)
=============================================================================
