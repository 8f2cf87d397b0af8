---------------------------- MODULE MCDraPlugin ----------------------------
(* A small instance of DraPlugin: two CPUs of two NUMA nodes. *)
EXTENDS DraPlugin, TLC

MCNuma == [d \in Devices |-> d]

AnyOrder == Permutations(Claims) \cup Permutations(Names) \cup Permutations(Devices)

=============================================================================
