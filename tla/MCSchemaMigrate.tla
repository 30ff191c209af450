--------------------------- MODULE MCSchemaMigrate ---------------------------
(* Instances of SchemaMigrate for TLC: every migration up to the partition,*)
(* and of those after it one of each kind: guarded additions of one and of *)
(* several columns, a guarded new table, and bodies that can run again.    *)
EXTENDS SchemaMigrate

CONSTANTS p1, p2, p3

=============================================================================
