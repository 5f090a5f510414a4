-------------------------- MODULE MCTalentProfile --------------------------
(* TalentProfile on a small instance: see TalentProfile_finished.cfg.      *)
EXTENDS TalentProfile, TLC

(* Sound: no action and no property tells two requests apart.              *)
Symmetry == Permutations(Requests)
=============================================================================
