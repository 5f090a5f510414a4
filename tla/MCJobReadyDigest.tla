--------------------------- MODULE MCJobReadyDigest ---------------------------
(***************************************************************************)
(* An instance of JobReadyDigest for TLC.                                  *)
(***************************************************************************)
EXTENDS JobReadyDigest, TLC

(* Sound: no action and no property tells two candidates or two employers  *)
(* apart.                                                                  *)
Symmetry == Permutations(Candidates) \cup Permutations(Employers)
=============================================================================
