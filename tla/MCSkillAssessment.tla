------------------------- MODULE MCSkillAssessment -------------------------
(***************************************************************************)
(* Instances of SkillAssessment for TLC.                                   *)
(***************************************************************************)
EXTENDS SkillAssessment, TLC

(* Sound for the safety runs: attempts, questions and slots are            *)
(* interchangeable in every action and in every property checked.          *)
Symmetry == Permutations(Attempts) \cup Permutations(Questions)
              \cup Permutations(Starters) \cup Permutations(Submitters)
=============================================================================
