------------------------------- MODULE Stream -------------------------------
(***************************************************************************)
(* What a checkpoint ring promises to its two ends: a bounded pipe that    *)
(* delivers exactly the declared bytes, once and in order.  Byte k of the  *)
(* stream is named by its position k, so a reader that holds the bytes     *)
(* 1 .. delivered holds a prefix of what was written.                      *)
(***************************************************************************)
EXTENDS Naturals

CONSTANTS Total, Capacity

VARIABLES accepted, delivered

vars == <<accepted, delivered>>

Init == accepted = 0 /\ delivered = 0

Accept ==
    /\ accepted < Total /\ accepted - delivered < Capacity
    /\ accepted' = accepted + 1
    /\ UNCHANGED delivered

Deliver ==
    /\ delivered < accepted
    /\ delivered' = delivered + 1
    /\ UNCHANGED accepted

Next == Accept \/ Deliver

Spec == Init /\ [][Next]_vars

=============================================================================
