---------------------------- MODULE MCTableOrder ----------------------------
(***************************************************************************)
(* TableOrder for TLC: every set of tables among four, every way to        *)
(* connect them with four foreign keys (cycles, diamonds, two keys between *)
(* the same tables, references to itself and to tables that exist          *)
(* already). Foreign keys are interchangeable: the code keeps of each only *)
(* the pair of tables it connects.                                         *)
(***************************************************************************)
EXTENDS TableOrder, TLC

Symmetry == Permutations(ForeignKey)
=============================================================================
