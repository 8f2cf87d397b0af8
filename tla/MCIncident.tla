----------------------------- MODULE MCIncident -----------------------------
(* Small instances of Incident. *)
EXTENDS Incident, TLC

CellSymmetry == Permutations(Cells)

\* A third boot and a pass cut short do not both happen in one behaviour, and
\* once a second incident is open neither a reboot nor a cut happens.
FewDisturbances == node.boot + abandoned + 2 * uuids <= 5
=============================================================================
