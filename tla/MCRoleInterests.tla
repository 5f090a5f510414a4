--------------------------- MODULE MCRoleInterests ---------------------------
(***************************************************************************)
(* An instance of RoleInterests for TLC.                                   *)
(***************************************************************************)
EXTENDS RoleInterests, TLC

(* Sound: no action and no property checked tells two talents, two roles   *)
(* or two slots apart.                                                     *)
Symmetry ==
  Permutations(Talents) \cup Permutations(Roles) \cup Permutations(Marks)
=============================================================================
