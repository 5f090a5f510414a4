------------------------ MODULE MCEmployerAssessments ------------------------
(***************************************************************************)
(* An instance of EmployerAssessments for TLC.                             *)
(***************************************************************************)
EXTENDS EmployerAssessments, TLC

(* Sound: no action and no property checked tells two slots apart.         *)
Symmetry == Permutations(Requests)
=============================================================================
