------------------------ MODULE MCAdvancedAssessment ------------------------
(***************************************************************************)
(* Instances of AdvancedAssessment for TLC.                                *)
(***************************************************************************)
EXTENDS AdvancedAssessment, TLC

(* Sound for the safety run: attempts and slots are interchangeable in     *)
(* every action and in every property checked.                             *)
Symmetry == Permutations(Attempts) \cup Permutations(Submitters)
=============================================================================
