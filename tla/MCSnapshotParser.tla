-------------------------- MODULE MCSnapshotParser --------------------------
(* Outlines of four levels, with ten letters at the top and nine capitals. *)
EXTENDS SnapshotParser

MCWidths == <<10, 2, 2, 9>>
=============================================================================
