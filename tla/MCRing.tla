------------------------------- MODULE MCRing -------------------------------
(* Small instances of Ring. *)
EXTENDS Ring

=============================================================================
