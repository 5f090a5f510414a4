------------------------------ MODULE MCOffers ------------------------------
(***************************************************************************)
(* Instances of Offers for TLC: one employer, one role.                    *)
(***************************************************************************)
EXTENDS Offers, TLC

CONSTANTS e1, r1

OneOwner == [r \in {r1} |-> e1]

(* Sound for the safety runs only: the slots and the candidates are        *)
(* interchangeable in every action and in every property checked.          *)
Symmetry == Permutations(Candidates) \cup Permutations(Senders)
              \cup Permutations(Handlers)
=============================================================================
