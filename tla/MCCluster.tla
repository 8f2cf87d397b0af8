----------------------------- MODULE MCCluster -----------------------------
(* Instances of Cluster for TLC. *)
EXTENDS Cluster

Profile(pool, name, gres) == [pool |-> pool, name |-> name, gres |-> gres]

\* A valid spec, one that maps a GRES twice, and a valid one again.
GoodBadGood == << <<Profile("a", "small", "gpu:x")>>,
                  <<Profile("a", "small", "gpu:x"), Profile("b", "small", "gpu:x")>>,
                  <<Profile("a", "small", "gpu:x"), Profile("b", "small", "gpu:y")>> >>

\* Two edits, a fault and the deletion do not all happen in one behaviour.
FewDisturbances == cluster.gen + faults + (IF cluster.deleting THEN 1 ELSE 0) <= 4

=============================================================================
